---------------------------- MODULE FilesProofs ----------------------------
(***************************************************************************)
(* Proofs about the files the program writes: the presets (Presets) and,   *)
(* at the end, the configuration and the plugin cache (HostFiles).         *)
(*                                                                         *)
(* Presets: what the list and the name that is shown promise, for every    *)
(* rack, every set of names, every way names share a file name and every   *)
(* length of the queues.  Five facts are carried from state to state.      *)
(*                                                                         *)
(*   ToldAll            a snapshot or a list that is under way comes after *)
(*                      the update that tells the GUI of its slot          *)
(*   SavesListed        a save under way is followed by a listing          *)
(*   ActivationsListed  the slot shown is not activated again behind the   *)
(*                      GUI's back                                         *)
(*   ListStands         the GUI has the list of the files as they are, or  *)
(*                      will be sent it, or has asked for it               *)
(*   NamesStand         the preset named was applied, or will be, and      *)
(*                      nothing after it touches that instance             *)
(*                                                                         *)
(* The last two are about a GUI that goes on to show the slot it shows     *)
(* (Steady); an update about another slot makes it ask anew.               *)
(***************************************************************************)
EXTENDS Presets, HostFiles, Integers, FiniteSetTheorems, SequenceTheorems, TLAPS

-----------------------------------------------------------------------------
(* Types *)

Entries == {e \in [name : Names, path : Paths] : e.path = PresetPath(e.path[1], e.name)}

Actions ==
  [kind : {"ActivateSlot"}, slot : Slots]
  \cup [kind : {"DeactivateSlot", "ListPresets", "RequestFullState"}]
  \cup {a \in [kind : {"SavePreset"}, path : Paths, name : Names] :
          a.path = PresetPath(a.path[1], a.name)}
  \cup [kind : {"LoadPreset"}, path : Paths]

Updates ==
  [kind : {"RackUpdated", "FullState"}, slot : Slots \cup {None}]
  \cup [kind : {"PresetList"}, list : SUBSET Entries]

GuiTyped ==
  gui \in [active_slot : Slots \cup {None}, user_presets : SUBSET Entries,
           current_preset_name : Names \cup {None}, asked : BOOLEAN]

\* The name in a file is one that the file is named after.
FilesTyped ==
  /\ files \in [Paths -> Names \cup {None, Torn}]
  /\ \A path \in Paths : files[path] \in Names => path = PresetPath(path[1], files[path])

HostTyped ==
  /\ host \in {"process", "workers"}
  /\ active \in Slots \cup {None}
  /\ host = "process" => toWorker = <<>> /\ toGui = <<>> /\ gui.active_slot = active

QueuesTyped == toWorker \in Seq(Actions) /\ toGui \in Seq(Updates)

\* Neither a slot nor a name nor what is in a file is None.
LEMMA NoneIsNone ==
  /\ \A slot \in Slots : slot # None
  /\ \A name \in Names : name # None /\ name # Torn
  /\ Torn # None
  BY PresetsAssumption

\* A path is made of a slot and of a name.
LEMMA PathTyped ==
  ASSUME NEW slot \in Slots, NEW name \in Names
  PROVE  /\ PresetPath(slot, name) \in Paths /\ PresetPath(slot, name)[1] = slot
         /\ [name |-> name, path |-> PresetPath(slot, name)] \in Entries
<1>1. PresetPath(slot, name) \in Paths
  BY DEF Paths
<1>2. PresetPath(slot, name)[1] = slot
  BY DEF PresetPath
<1> QED
  BY <1>1, <1>2 DEF Entries

\* The slot of a path.
LEMMA PathSlot == \A path \in Paths : path[1] \in Slots
  BY DEF Paths, PresetPath

\* What a listing has: the slot's own presets, and of no slot none.
LEMMA ListTyped ==
  ASSUME FilesTyped, NEW slot
  PROVE  /\ list_user_presets(files, slot) \in SUBSET Entries
         /\ \A e \in list_user_presets(files, slot) : e.path[1] = slot /\ files[e.path] = e.name
         /\ slot = None => list_user_presets(files, slot) = {}
<1>1. ASSUME NEW e \in list_user_presets(files, slot)
      PROVE  e \in Entries /\ e.path[1] = slot /\ files[e.path] = e.name /\ slot # None
  <2>1. PICK p \in Paths : p[1] = slot /\ files[p] \in Names /\ e = [name |-> files[p], path |-> p]
    BY <1>1 DEF list_user_presets
  <2>2. p = PresetPath(p[1], files[p])
    BY <2>1 DEF FilesTyped
  <2>3. slot # None
    BY <2>1, PathSlot, NoneIsNone
  <2> QED
    BY <2>1, <2>2, <2>3 DEF Entries
<1> QED
  BY <1>1

\* The same for the files after a step.
LEMMA ListTypedNext ==
  ASSUME FilesTyped', NEW slot
  PROVE  /\ list_user_presets(files', slot) \in SUBSET Entries
         /\ \A e \in list_user_presets(files', slot) : e.path[1] = slot /\ files'[e.path] = e.name
         /\ slot = None => list_user_presets(files', slot) = {}
<1>1. ASSUME NEW e \in list_user_presets(files', slot)
      PROVE  e \in Entries /\ e.path[1] = slot /\ files'[e.path] = e.name /\ slot # None
  <2>1. PICK p \in Paths : p[1] = slot /\ files'[p] \in Names /\ e = [name |-> files'[p], path |-> p]
    BY <1>1 DEF list_user_presets
  <2>2. p = PresetPath(p[1], files'[p])
    BY <2>1 DEF FilesTyped
  <2>3. slot # None
    BY <2>1, PathSlot, NoneIsNone
  <2> QED
    BY <2>1, <2>2, <2>3 DEF Entries
<1> QED
  BY <1>1

\* Saving changes one file, to the name it is named after or to nothing.
LEMMA SaveTyped ==
  ASSUME FilesTyped, NEW path \in Paths, NEW name \in Names, path = PresetPath(path[1], name),
         NEW outcome \in Outcomes, save_to_file(path, name, outcome)
  PROVE  FilesTyped'
<1>1. CASE outcome = "refused"
  BY <1>1 DEF save_to_file, FilesTyped
<1>2. CASE outcome = "torn"
  BY <1>2, NoneIsNone DEF save_to_file, FilesTyped
<1>3. CASE outcome = "written"
  BY <1>3 DEF save_to_file, FilesTyped
<1> QED
  BY <1>1, <1>2, <1>3 DEF Outcomes

\* The messages.
LEMMA MessagesTyped ==
  /\ \A slot \in Slots : Activate(slot) \in Actions
  /\ Deactivate \in Actions /\ ListPresets \in Actions /\ RequestFullState \in Actions
  /\ \A slot \in Slots, name \in Names : SavePreset(PresetPath(slot, name), name) \in Actions
  /\ \A path \in Paths : LoadPreset(path) \in Actions
  /\ \A slot \in Slots \cup {None} : RackUpdated(slot) \in Updates /\ FullState(slot) \in Updates
  /\ \A list \in SUBSET Entries : PresetList(list) \in Updates
<1>1. \A slot \in Slots, name \in Names : SavePreset(PresetPath(slot, name), name) \in Actions
  BY PathTyped DEF SavePreset, Actions
<1> QED
  BY <1>1 DEF Activate, Deactivate, ListPresets, RequestFullState, LoadPreset, RackUpdated,
     FullState, PresetList, Actions, Updates

\* What the kind of a message says of it.
LEMMA ActionKinds ==
  ASSUME NEW a \in Actions
  PROVE  /\ a.kind = "ActivateSlot" => a.slot \in Slots
         /\ a.kind = "SavePreset" =>
              a.path \in Paths /\ a.name \in Names /\ a.path = PresetPath(a.path[1], a.name)
         /\ a.kind = "LoadPreset" => a.path \in Paths
         /\ a.kind \in {"ActivateSlot", "DeactivateSlot", "ListPresets", "RequestFullState",
                        "SavePreset", "LoadPreset"}
  BY DEF Actions

\* The same for an update.
LEMMA UpdateKinds ==
  ASSUME NEW u \in Updates
  PROVE  /\ u.kind \in {"RackUpdated", "FullState"} => u.slot \in Slots \cup {None}
         /\ u.kind = "PresetList" => u.list \in SUBSET Entries
         /\ u.kind \in {"RackUpdated", "FullState", "PresetList"}
  BY DEF Updates

\* Appending to the queues, and taking from them.
LEMMA ActionAdded ==
  ASSUME NEW s \in Seq(Actions), NEW a \in Actions
  PROVE  /\ s \o <<a>> \in Seq(Actions) /\ Append(s, a) = s \o <<a>>
         /\ Len(s \o <<a>>) = Len(s) + 1
         /\ \A i \in 1..Len(s) : (s \o <<a>>)[i] = s[i]
         /\ (s \o <<a>>)[Len(s) + 1] = a
  OBVIOUS

\* Two requests at a time, as of the reset and of the save.
LEMMA ActionsAdded ==
  ASSUME NEW s \in Seq(Actions), NEW a \in Actions, NEW b \in Actions
  PROVE  /\ s \o <<a, b>> \in Seq(Actions)
         /\ Len(s \o <<a, b>>) = Len(s) + 2
         /\ \A i \in 1..Len(s) : (s \o <<a, b>>)[i] = s[i]
         /\ (s \o <<a, b>>)[Len(s) + 1] = a /\ (s \o <<a, b>>)[Len(s) + 2] = b
  OBVIOUS

\* One more update.
LEMMA UpdateAdded ==
  ASSUME NEW s \in Seq(Updates), NEW u \in Updates
  PROVE  /\ s \o <<u>> \in Seq(Updates) /\ Append(s, u) = s \o <<u>>
         /\ Len(s \o <<u>>) = Len(s) + 1
         /\ \A i \in 1..Len(s) : (s \o <<u>>)[i] = s[i]
         /\ (s \o <<u>>)[Len(s) + 1] = u
  OBVIOUS

\* What a death leaves of the requests.
LEMMA ActionsCut ==
  ASSUME NEW s \in Seq(Actions), NEW n \in 0..Len(s)
  PROVE  /\ Prefix(s, n) \in Seq(Actions) /\ Len(Prefix(s, n)) = n
         /\ \A i \in 1..n : Prefix(s, n)[i] = s[i]
         /\ Suffix(s, n) \in Seq(Actions) /\ Len(Suffix(s, n)) = Len(s) - n
         /\ \A i \in 1..(Len(s) - n) : Suffix(s, n)[i] = s[n + i]
  BY DEF Prefix, Suffix

\* The same for the updates.
LEMMA UpdatesCut ==
  ASSUME NEW s \in Seq(Updates), NEW n \in 0..Len(s)
  PROVE  /\ Prefix(s, n) \in Seq(Updates) /\ Len(Prefix(s, n)) = n
         /\ \A i \in 1..n : Prefix(s, n)[i] = s[i]
         /\ Suffix(s, n) \in Seq(Updates) /\ Len(Suffix(s, n)) = Len(s) - n
         /\ \A i \in 1..(Len(s) - n) : Suffix(s, n)[i] = s[n + i]
  BY DEF Prefix, Suffix

\* Taking the first request.
LEMMA ActionTaken ==
  ASSUME NEW s \in Seq(Actions), s # <<>>
  PROVE  /\ Len(s) \in Nat /\ Len(s) >= 1 /\ Head(s) = s[1] /\ s[1] \in Actions
         /\ Tail(s) \in Seq(Actions) /\ Len(Tail(s)) = Len(s) - 1
         /\ \A i \in 1..(Len(s) - 1) : Tail(s)[i] = s[i + 1]
<1>1. Len(s) \in Nat /\ Len(s) # 0
  BY EmptySeq
<1> QED
  BY <1>1, HeadTailProperties

\* Taking the first update.
LEMMA UpdateTaken ==
  ASSUME NEW s \in Seq(Updates), s # <<>>
  PROVE  /\ Len(s) \in Nat /\ Len(s) >= 1 /\ Head(s) = s[1] /\ s[1] \in Updates
         /\ Tail(s) \in Seq(Updates) /\ Len(Tail(s)) = Len(s) - 1
         /\ \A i \in 1..(Len(s) - 1) : Tail(s)[i] = s[i + 1]
<1>1. Len(s) \in Nat /\ Len(s) # 0
  BY EmptySeq
<1> QED
  BY <1>1, HeadTailProperties

-----------------------------------------------------------------------------
(* What the actions do *)

OfSlot(list, x) == \A e \in list : e.path[1] = x

\* The presets shown are those of the slot shown.
IsOwn == gui.active_slot # None => OfSlot(gui.user_presets, gui.active_slot)

\* An entry of the slot shown is named as its path says.
LEMMA EntryPath ==
  ASSUME GuiTyped, IsOwn, gui.active_slot # None, NEW e \in gui.user_presets
  PROVE  e.name \in Names /\ e.path \in Paths /\ e.path = PresetPath(gui.active_slot, e.name)
<1>1. e \in Entries
  BY DEF GuiTyped
<1>2. e.path[1] = gui.active_slot
  BY DEF IsOwn, OfSlot
<1> QED
  BY <1>1, <1>2 DEF Entries

\* Only the name shown may differ.
SameButName(g, h) ==
  h.active_slot = g.active_slot /\ h.user_presets = g.user_presets /\ h.asked = g.asked

\* What the GUI's buttons send: see GuiWorker.
SendsActivate(slot) ==
  slot \in Slots /\ slot # gui.active_slot /\ toWorker' = toWorker \o <<Activate(slot)>> /\ gui' = gui
SendsDeactivate == toWorker' = toWorker \o <<Deactivate>> /\ gui' = gui
SendsInit ==
  /\ gui.active_slot \in Slots
  /\ toWorker' = toWorker \o <<Deactivate, Activate(gui.active_slot)>>
  /\ gui'.current_preset_name = None
SendsSave(name) ==
  /\ gui.active_slot \in Slots /\ name \in Names
  /\ toWorker' = toWorker \o <<SavePreset(PresetPath(gui.active_slot, name), name), ListPresets>>
  /\ gui'.current_preset_name = name
SendsLoad(path) ==
  /\ gui.active_slot \in Slots /\ path \in Paths
  /\ gui'.current_preset_name \in Names
  /\ path = PresetPath(gui.active_slot, gui'.current_preset_name)
  /\ toWorker' = toWorker \o <<LoadPreset(path)>>

Buttons == GuiWorker /\ ~GuiReceives

\* Every button sends its requests and changes the name shown at most.
LEMMA ButtonsSend ==
  ASSUME GuiTyped, IsOwn, Buttons
  PROVE  /\ UNCHANGED <<host, files, active, last, toGui>>
         /\ host = "workers"
         /\ GuiTyped' /\ SameButName(gui, gui')
         /\ \/ \E slot \in Slots : SendsActivate(slot)
            \/ SendsDeactivate \/ SendsInit
            \/ \E name \in Names : SendsSave(name)
            \/ \E path \in Paths : SendsLoad(path)
<1> DEFINE Does(acts) == /\ UNCHANGED <<host, files, active, last, toGui>>
                         /\ host = "workers" /\ toWorker' = toWorker \o acts
<1>1. ASSUME NEW acts, Sends(acts) PROVE Does(acts)
  BY <1>1 DEF Sends, Workers
<1>2. CASE \E slot \in Slots : GuiActivate(slot)
  <2>1. PICK slot \in Slots : GuiActivate(slot)
    BY <1>2
  <2>2. slot # gui.active_slot /\ Sends(<<Activate(slot)>>) /\ gui' = gui
    BY <2>1 DEF GuiActivate
  <2>3. Does(<<Activate(slot)>>)
    BY <1>1, <2>2
  <2>4. GuiTyped' /\ SameButName(gui, gui')
    BY <2>2 DEF GuiTyped, SameButName
  <2>5. SendsActivate(slot)
    BY <2>2, <2>3 DEF SendsActivate
  <2> QED
    BY <2>3, <2>4, <2>5
<1>3. CASE GuiDeactivate
  BY <1>1, <1>3 DEF GuiDeactivate, GuiTyped, SameButName, SendsDeactivate
<1>4. CASE GuiInitPreset
  BY <1>1, <1>4 DEF GuiInitPreset, Toolbar, GuiTyped, SameButName, SendsInit
<1>5. CASE \E name \in Names : GuiSavePreset(name)
  BY <1>1, <1>5 DEF GuiSavePreset, Toolbar, GuiTyped, SameButName, SendsSave
<1>6. ASSUME NEW e \in gui.user_presets, Toolbar, GuiLoad(e)
      PROVE  /\ Does(<<LoadPreset(e.path)>>) /\ GuiTyped' /\ SameButName(gui, gui')
             /\ SendsLoad(e.path) /\ e.path \in Paths
  <2>1. e.name \in Names /\ e.path \in Paths /\ e.path = PresetPath(gui.active_slot, e.name)
    BY <1>6, EntryPath DEF Toolbar
  <2>2. gui' = [gui EXCEPT !.current_preset_name = e.name] /\ Does(<<LoadPreset(e.path)>>)
    BY <1>1, <1>6 DEF GuiLoad
  <2>3. gui'.current_preset_name = e.name /\ GuiTyped' /\ SameButName(gui, gui')
    BY <2>1, <2>2 DEF GuiTyped, SameButName
  <2> QED
    BY <1>6, <2>1, <2>2, <2>3 DEF SendsLoad, Toolbar, GuiTyped
<1>7. CASE GuiLoadPreset \/ GuiNextPreset \/ GuiPrevPreset
  <2>1. PICK e \in gui.user_presets : Toolbar /\ GuiLoad(e)
    BY <1>7 DEF GuiLoadPreset, GuiNextPreset, GuiPrevPreset, NextEntry, PrevEntry, Stepped
  <2> QED
    BY <1>6, <2>1
<1> QED
  BY <1>2, <1>3, <1>4, <1>5, <1>7 DEF Buttons, GuiWorker

\* What the worker reports: see AudioWorker.
Reports(update) == toGui' = toGui \o <<update>>

\* Every handler takes its request and reports what it says.
LEMMA HandlerTakes ==
  ASSUME QueuesTyped, AudioWorker, ~PollCrash
  PROVE  /\ toWorker # <<>> /\ toWorker' = Tail(toWorker)
         /\ UNCHANGED <<host, gui>>
         /\ \/ HandleActivate /\ active' = toWorker[1].slot /\ Reports(RackUpdated(active'))
            \/ HandleActivate /\ active' = None /\ toGui' = toGui
            \/ HandleDeactivate /\ Reports(RackUpdated(None))
            \/ (HandleSavePreset \/ HandleLoadPreset) /\ toGui' = toGui
            \/ HandleListPresets /\ Reports(PresetList(list_user_presets(files, active)))
            \/ HandleRequestFullState /\ Reports(FullState(active))
<1>1. toGui \o <<>> = toGui
  BY ConcatEmptySeq DEF QueuesTyped
<1>2. toWorker # <<>> => Head(toWorker) = toWorker[1]
  BY ActionTaken DEF QueuesTyped
<1>3. CASE HandleActivate
  BY <1>1, <1>2, <1>3 DEF HandleActivate, Handles, Handled, Reports
<1>4. CASE HandleDeactivate \/ HandleSavePreset \/ HandleLoadPreset
  BY <1>1, <1>4 DEF HandleDeactivate, HandleSavePreset, HandleLoadPreset, Handles, Handled, Reports
<1>5. CASE HandleListPresets \/ HandleRequestFullState
  BY <1>5 DEF HandleListPresets, HandleRequestFullState, Handles, Handled, Reports
<1> QED
  BY <1>3, <1>4, <1>5 DEF AudioWorker

\* What the GUI makes of an update: see GuiReceives.
Applied(g, u, h) ==
  \/ u.kind = "RackUpdated" /\ u.slot = g.active_slot /\ h = g
  \/ /\ u.kind = "RackUpdated" /\ u.slot # g.active_slot
     /\ h = [active_slot |-> u.slot, user_presets |-> {}, current_preset_name |-> None,
             asked |-> g.asked \/ u.slot # None]
  \/ /\ u.kind = "FullState" /\ h.active_slot = u.slot /\ h.user_presets = g.user_presets
     /\ h.asked = g.asked /\ h.current_preset_name = g.current_preset_name
  \/ /\ u.kind = "PresetList" /\ h.user_presets = u.list /\ h.active_slot = g.active_slot
     /\ h.asked = g.asked /\ h.current_preset_name = g.current_preset_name

AsksForList == toGui[1].kind = "RackUpdated" /\ toGui[1].slot # gui.active_slot /\ toGui[1].slot # None

\* Every update is applied as its kind says.
LEMMA GuiApplies ==
  ASSUME GuiTyped, QueuesTyped, GuiReceives
  PROVE  /\ toGui # <<>> /\ toGui' = Tail(toGui) /\ UNCHANGED <<host, files, active, last>>
         /\ GuiTyped' /\ Applied(gui, toGui[1], gui')
         /\ toWorker' = IF AsksForList THEN toWorker \o <<ListPresets>> ELSE toWorker
<1>1. /\ toGui # <<>> /\ toGui' = Tail(toGui) /\ UNCHANGED <<host, files, active, last>>
      /\ Head(toGui) = toGui[1] /\ toGui[1] \in Updates
  BY UpdateTaken DEF GuiReceives, QueuesTyped
<1>2. Append(toWorker, ListPresets) = toWorker \o <<ListPresets>>
  BY ActionAdded, MessagesTyped DEF QueuesTyped
<1>3. CASE toGui[1].kind = "RackUpdated" /\ RackApplied(toGui[1].slot)
  <2>1. toGui[1].slot \in Slots \cup {None}
    BY <1>1, <1>3, UpdateKinds
  <2>2. CASE toGui[1].slot = gui.active_slot
    BY <1>1, <1>3, <2>2 DEF RackApplied, GuiTyped, Applied, AsksForList
  <2>3. CASE toGui[1].slot # gui.active_slot
    <3>1. gui' = [active_slot |-> toGui[1].slot, user_presets |-> {}, current_preset_name |-> None,
                  asked |-> gui.asked \/ toGui[1].slot # None]
      BY <1>3, <2>3 DEF RackApplied
    <3>2. (gui.asked \/ toGui[1].slot # None) \in BOOLEAN
      OBVIOUS
    <3>3. GuiTyped'
      BY <2>1, <3>1, <3>2 DEF GuiTyped
    <3>4. toWorker' = IF toGui[1].slot = None THEN toWorker ELSE toWorker \o <<ListPresets>>
      BY <1>2, <1>3, <2>3 DEF RackApplied
    <3> QED
      BY <1>1, <1>3, <2>3, <3>1, <3>3, <3>4 DEF Applied, AsksForList
  <2> QED
    BY <2>2, <2>3
<1>4. CASE toGui[1].kind = "FullState" /\ FullStateApplied(toGui[1].slot)
  <2>1. toGui[1].slot \in Slots \cup {None}
    BY <1>1, <1>4, UpdateKinds
  <2> QED
    BY <1>1, <1>4, <2>1 DEF FullStateApplied, GuiTyped, Applied, AsksForList
<1>5. CASE toGui[1].kind = "PresetList" /\ PresetListApplied(toGui[1].list)
  <2>1. toGui[1].list \in SUBSET Entries
    BY <1>1, <1>5, UpdateKinds
  <2> QED
    BY <1>1, <1>5, <2>1 DEF PresetListApplied, GuiTyped, Applied, AsksForList
<1> QED
  BY <1>1, <1>3, <1>4, <1>5 DEF GuiReceives

-----------------------------------------------------------------------------
(* Types, step by step *)

\* The messages stay of their kinds.
LEMMA QueuesTypedStep ==
  ASSUME HostTyped, GuiTyped, FilesTyped, QueuesTyped, IsOwn, [Next]_vars
  PROVE  QueuesTyped'
<1>0. toWorker \in Seq(Actions) /\ toGui \in Seq(Updates)
  BY DEF QueuesTyped
<1>1. CASE HostApp \/ UNCHANGED vars
  BY <1>0, <1>1 DEF HostApp, AppActivate, AppDeactivate, AppInitPreset, AppSavePreset, AppLoad,
     AppLoadPreset, AppNextPreset, AppPrevPreset, NoUpdates, QueuesTyped, vars
<1>2. CASE Buttons
  <2>1. toGui' = toGui
    BY <1>2, ButtonsSend
  <2>2. CASE \E slot \in Slots : SendsActivate(slot)
    BY <1>0, <2>1, <2>2, MessagesTyped, ActionAdded DEF SendsActivate, QueuesTyped
  <2>3. CASE SendsDeactivate
    BY <1>0, <2>1, <2>3, MessagesTyped, ActionAdded DEF SendsDeactivate, QueuesTyped
  <2>4. CASE SendsInit
    BY <1>0, <2>1, <2>4, MessagesTyped, ActionsAdded DEF SendsInit, QueuesTyped
  <2>5. CASE \E name \in Names : SendsSave(name)
    BY <1>0, <2>1, <2>5, MessagesTyped, ActionsAdded DEF SendsSave, QueuesTyped
  <2>6. CASE \E path \in Paths : SendsLoad(path)
    BY <1>0, <2>1, <2>6, MessagesTyped, ActionAdded DEF SendsLoad, QueuesTyped
  <2> QED
    BY <1>2, <2>2, <2>3, <2>4, <2>5, <2>6, ButtonsSend
<1>3. CASE GuiReceives
  BY <1>0, <1>3, GuiApplies, UpdateTaken, MessagesTyped, ActionAdded DEF QueuesTyped
<1>4. CASE AudioWorker /\ ~PollCrash
  <2>1. toWorker' \in Seq(Actions)
    BY <1>0, <1>4, HandlerTakes, ActionTaken
  <2>2. ASSUME NEW u \in Updates, Reports(u) PROVE QueuesTyped'
    BY <1>0, <2>1, <2>2, UpdateAdded DEF Reports, QueuesTyped
  <2>3. active \in Slots \cup {None} /\ list_user_presets(files, active) \in SUBSET Entries
    BY ListTyped DEF HostTyped
  <2>4. HandleActivate /\ active' = toWorker[1].slot => active' \in Slots \cup {None}
    BY <1>0, <1>4, HandlerTakes, ActionTaken, ActionKinds DEF HandleActivate, Handles
  <2> QED
    BY <1>0, <1>4, <2>1, <2>2, <2>3, <2>4, HandlerTakes, MessagesTyped DEF QueuesTyped
<1>5. CASE PollCrash
  BY <1>0, <1>5, MessagesTyped, UpdateAdded DEF PollCrash, QueuesTyped
<1>6. CASE WorkerDies
  <2>1. PICK n \in 0..Len(toWorker), m \in 0..Len(toGui) :
          toWorker' = Suffix(toWorker, n) /\ toGui' = Append(Prefix(toGui, m), FullState(None))
    BY <1>6 DEF WorkerDies
  <2>2. Prefix(toGui, m) \in Seq(Updates) /\ Suffix(toWorker, n) \in Seq(Actions)
    BY <1>0, ActionsCut, UpdatesCut
  <2> QED
    BY <2>1, <2>2, MessagesTyped, AppendProperties DEF QueuesTyped
<1>7. CASE GuiDies
  <2>1. PICK n \in 0..Len(toWorker), m \in 0..Len(toGui) :
          toWorker' = Append(Prefix(toWorker, n), RequestFullState) /\ toGui' = Suffix(toGui, m)
    BY <1>7 DEF GuiDies
  <2>2. Prefix(toWorker, n) \in Seq(Actions) /\ Suffix(toGui, m) \in Seq(Updates)
    BY <1>0, ActionsCut, UpdatesCut
  <2> QED
    BY <2>1, <2>2, MessagesTyped, AppendProperties DEF QueuesTyped
<1> QED
  BY <1>1, <1>2, <1>3, <1>4, <1>5, <1>6, <1>7 DEF Next, GuiWorker, Buttons

\* Every writer names the file after the name it writes.
LEMMA FilesTypedStep ==
  ASSUME HostTyped, FilesTyped, QueuesTyped, [Next]_vars
  PROVE  FilesTyped'
<1>1. CASE UNCHANGED files
  BY <1>1 DEF FilesTyped
<1>2. CASE HostApp
  <2>1. ASSUME NEW name \in Names, AppSavePreset(name) PROVE FilesTyped'
    <3>1. active \in Slots
      BY <2>1 DEF AppSavePreset, AppToolbar, HostTyped
    <3>2. /\ PresetPath(active, name) \in Paths
          /\ PresetPath(active, name) = PresetPath(PresetPath(active, name)[1], name)
      BY <3>1, PathTyped
    <3>3. PICK outcome \in Outcomes : save_to_file(PresetPath(active, name), name, outcome)
      BY <2>1 DEF AppSavePreset
    <3> QED
      BY <3>2, <3>3, SaveTyped
  <2> QED
    BY <1>1, <1>2, <2>1 DEF HostApp, AppActivate, AppDeactivate, AppInitPreset, AppLoad, AppLoadPreset,
       AppNextPreset, AppPrevPreset
<1>3. CASE GuiWorker
  BY <1>1, <1>3 DEF GuiWorker, GuiActivate, GuiDeactivate, GuiInitPreset, GuiSavePreset, GuiLoad,
     GuiLoadPreset, GuiNextPreset, GuiPrevPreset, GuiReceives, Sends
<1>4. ASSUME toWorker # <<>>, Head(toWorker).kind = "SavePreset", NEW outcome \in Outcomes,
             save_to_file(Head(toWorker).path, Head(toWorker).name, outcome)
      PROVE  FilesTyped'
  <2>1. PICK a \in Actions : a = Head(toWorker)
    BY <1>4, ActionTaken DEF QueuesTyped
  <2>2. a.path \in Paths /\ a.name \in Names /\ a.path = PresetPath(a.path[1], a.name)
    BY <1>4, <2>1, ActionKinds
  <2>3. save_to_file(a.path, a.name, outcome)
    BY <1>4, <2>1
  <2> QED
    BY <2>2, <2>3, SaveTyped
<1>5. CASE HandleSavePreset
  BY <1>4, <1>5 DEF HandleSavePreset, Handles
<1>6. CASE AudioWorker /\ ~HandleSavePreset
  BY <1>1, <1>6 DEF AudioWorker, HandleActivate, HandleDeactivate, HandleLoadPreset,
     HandleListPresets, HandleRequestFullState, PollCrash
<1>7. CASE WorkerDies
  <2>1. "torn" \in Outcomes
    BY DEF Outcomes
  <2> QED
    BY <1>1, <1>4, <1>7, <2>1 DEF WorkerDies
<1>8. CASE GuiDies \/ UNCHANGED vars
  BY <1>1, <1>8 DEF GuiDies, vars
<1> QED
  BY <1>2, <1>3, <1>5, <1>6, <1>7, <1>8 DEF Next

\* What the GUI shows comes from lists and from what it sends.
LEMMA GuiTypedStep ==
  ASSUME HostTyped, GuiTyped, FilesTyped, QueuesTyped, IsOwn, [Next]_vars
  PROVE  GuiTyped'
<1>1. CASE UNCHANGED gui
  BY <1>1 DEF GuiTyped
<1>2. CASE HostApp
  <2>0. list_user_presets(files, active) \in SUBSET Entries
    BY ListTyped
  <2>1. ASSUME NEW slot \in Slots, AppActivated(slot) PROVE GuiTyped'
    BY <2>1, ListTyped DEF AppActivated, GuiTyped
  <2>2. ASSUME NEW shown \in Names \cup {None}, AppStopped(shown) PROVE GuiTyped'
    BY <2>2 DEF AppStopped, GuiTyped
  <2>3. CASE (\E slot \in Slots : AppActivate(slot)) \/ AppDeactivate \/ AppInitPreset
    <3>1. gui.current_preset_name \in Names \cup {None}
      BY DEF GuiTyped
    <3>2. AppInitPreset => active \in Slots
      BY DEF AppInitPreset, AppToolbar, HostTyped
    <3> QED
      BY <2>1, <2>2, <2>3, <3>1, <3>2 DEF AppActivate, AppDeactivate, AppInitPreset
  <2>4. ASSUME NEW name \in Names, AppSavePreset(name) PROVE GuiTyped'
    <3>1. FilesTyped'
      BY <1>2, FilesTypedStep
    <3>2. list_user_presets(files', active) \in SUBSET Entries
      BY <3>1, ListTypedNext
    <3> QED
      BY <1>1, <2>4, <3>2 DEF AppSavePreset, GuiTyped
  <2>5. CASE AppLoadPreset \/ AppNextPreset \/ AppPrevPreset
    <3>1. PICK path : AppLoad(path)
      BY <2>5 DEF AppLoadPreset, AppNextPreset, AppPrevPreset
    <3> QED
      BY <3>1 DEF AppLoad, GuiTyped
  <2> QED
    BY <1>2, <2>3, <2>4, <2>5 DEF HostApp
<1>3. CASE Buttons
  BY <1>3, ButtonsSend
<1>4. CASE GuiReceives
  BY <1>4, GuiApplies
<1>5. CASE AudioWorker \/ WorkerDies \/ UNCHANGED vars
  BY <1>1, <1>5, HandlerTakes DEF PollCrash, WorkerDies, vars
<1>6. CASE GuiDies
  BY <1>6 DEF GuiDies, FreshGui, GuiTyped
<1> QED
  BY <1>2, <1>3, <1>4, <1>5, <1>6 DEF Next, GuiWorker, Buttons

\* The plugin that runs is of the rack; in process the GUI shows it.
LEMMA HostTypedStep ==
  ASSUME HostTyped, GuiTyped, QueuesTyped, IsOwn, [Next]_vars
  PROVE  HostTyped'
<1>1. CASE HostApp
  <2>1. /\ host' = host /\ toWorker' = toWorker /\ toGui' = toGui /\ toWorker = <<>> /\ toGui = <<>>
        /\ host = "process" /\ gui.active_slot = active
    BY <1>1 DEF HostApp, AppActivate, AppDeactivate, AppInitPreset, AppSavePreset, AppLoad,
       AppLoadPreset, AppNextPreset, AppPrevPreset, NoUpdates, InProcess, HostTyped
  <2>2. active' \in Slots \cup {None} /\ gui'.active_slot = active'
    <3>1. CASE (\E slot \in Slots : AppActivate(slot)) \/ AppDeactivate \/ AppInitPreset
      BY <3>1 DEF AppActivate, AppDeactivate, AppInitPreset, AppActivated, AppStopped, HostTyped
    <3>2. CASE (\E name \in Names : AppSavePreset(name)) \/ AppLoadPreset \/ AppNextPreset \/ AppPrevPreset
      BY <2>1, <3>2 DEF AppSavePreset, AppLoad, AppLoadPreset, AppNextPreset, AppPrevPreset, HostTyped,
         GuiTyped
    <3> QED
      BY <1>1, <3>1, <3>2 DEF HostApp
  <2> QED
    BY <2>1, <2>2 DEF HostTyped
<1>2. CASE Buttons
  BY <1>2, ButtonsSend DEF HostTyped
<1>3. CASE GuiReceives
  BY <1>3, GuiApplies DEF HostTyped
<1>4. CASE AudioWorker /\ ~PollCrash
  <2>1. host' = host /\ host # "process"
    BY <1>4, HandlerTakes DEF HostTyped
  <2>2. active' \in Slots \cup {None}
    <3>1. CASE HandleActivate
      BY <3>1, ActionTaken, ActionKinds DEF HandleActivate, Handles, QueuesTyped
    <3>2. CASE ~HandleActivate
      BY <1>4, <3>2 DEF AudioWorker, HandleDeactivate, HandleSavePreset, HandleLoadPreset,
         HandleListPresets, HandleRequestFullState, HostTyped
    <3> QED
      BY <3>1, <3>2
  <2> QED
    BY <2>1, <2>2 DEF HostTyped
<1>5. CASE PollCrash \/ WorkerDies \/ GuiDies
  BY <1>5 DEF PollCrash, WorkerDies, GuiDies, Workers, HostTyped
<1>6. CASE UNCHANGED vars
  BY <1>6 DEF vars, HostTyped
<1> QED
  BY <1>1, <1>2, <1>3, <1>4, <1>5, <1>6 DEF Next, GuiWorker, Buttons

-----------------------------------------------------------------------------
(* Who a list is of: what the GUI has and is about to be told *)

About(u, x) ==
  \/ u.kind = "FullState" /\ u.slot = x
  \/ u.kind = "PresetList" /\ OfSlot(u.list, x)

\* Before u[j] is applied to g, the GUI shows x, unless it is new, and no
\* preset of another slot: from the last RackUpdated on, all is about x.
Told(g, u, x, j) ==
  \/ \E k \in 1..(j - 1) :
       /\ u[k].kind = "RackUpdated" /\ u[k].slot = x
       /\ \A i \in (k + 1)..(j - 1) : About(u[i], x)
  \/ /\ \A i \in 1..(j - 1) : About(u[i], x)
     /\ OfSlot(g.user_presets, x)
     /\ \/ g.active_slot = x
        \/ g.active_slot = None /\ ~g.asked /\ g.current_preset_name = None

\* A snapshot and a listing come when the GUI was told of their slot.
ToldBefore(g, u, j) ==
  /\ u[j].kind = "FullState" /\ u[j].slot # None => Told(g, u, u[j].slot, j)
  /\ u[j].kind = "PresetList" =>
       u[j].list = {} \/ \E x \in Slots : OfSlot(u[j].list, x) /\ Told(g, u, x, j)

ToldAll ==
  /\ active # None => Told(gui, toGui, active, Len(toGui) + 1)
  /\ \A j \in 1..Len(toGui) : ToldBefore(gui, toGui, j)

\* Only what comes before counts.
LEMMA ToldSame ==
  ASSUME NEW g, NEW u, NEW v, NEW x, NEW j \in Nat, \A i \in 1..(j - 1) : v[i] = u[i], Told(g, u, x, j)
  PROVE  Told(g, v, x, j)
<1>1. CASE \E k \in 1..(j - 1) :
             /\ u[k].kind = "RackUpdated" /\ u[k].slot = x
             /\ \A i \in (k + 1)..(j - 1) : About(u[i], x)
  <2>1. PICK k \in 1..(j - 1) : /\ u[k].kind = "RackUpdated" /\ u[k].slot = x
                                /\ \A i \in (k + 1)..(j - 1) : About(u[i], x)
    BY <1>1
  <2>2. \A i \in (k + 1)..(j - 1) : i \in 1..(j - 1)
    OBVIOUS
  <2>3. \A i \in (k + 1)..(j - 1) : About(v[i], x)
    BY <2>1, <2>2
  <2> QED
    BY <2>1, <2>3 DEF Told
<1>2. CASE ~\E k \in 1..(j - 1) :
              /\ u[k].kind = "RackUpdated" /\ u[k].slot = x
              /\ \A i \in (k + 1)..(j - 1) : About(u[i], x)
  BY <1>2 DEF Told
<1> QED
  BY <1>1, <1>2

\* The same for what is said before an update.
LEMMA ToldBeforeSame ==
  ASSUME NEW g, NEW u, NEW v, NEW j \in Nat \ {0}, \A i \in 1..j : v[i] = u[i], ToldBefore(g, u, j)
  PROVE  ToldBefore(g, v, j)
<1>1. v[j] = u[j] /\ \A i \in 1..(j - 1) : v[i] = u[i]
  OBVIOUS
<1>2. ASSUME NEW x, Told(g, u, x, j) PROVE Told(g, v, x, j)
  BY <1>1, <1>2, ToldSame
<1> QED
  BY <1>1, <1>2 DEF ToldBefore

\* The GUI's name does not count once it shows a slot.
LEMMA ToldSameGui ==
  ASSUME NEW g, NEW h, SameButName(g, h), g.active_slot # None \/ h = g,
         NEW u, NEW x, NEW j, Told(g, u, x, j)
  PROVE  Told(h, u, x, j)
  BY DEF Told, SameButName

\* One more update about the slot.
LEMMA ToldNext ==
  ASSUME NEW g, NEW u, NEW x, NEW j \in Nat \ {0}, Told(g, u, x, j), About(u[j], x)
  PROVE  Told(g, u, x, j + 1)
<1>1. (j + 1) - 1 = j
  OBVIOUS
<1>2. CASE \E k \in 1..(j - 1) :
             /\ u[k].kind = "RackUpdated" /\ u[k].slot = x
             /\ \A i \in (k + 1)..(j - 1) : About(u[i], x)
  <2>1. PICK k \in 1..(j - 1) : /\ u[k].kind = "RackUpdated" /\ u[k].slot = x
                                /\ \A i \in (k + 1)..(j - 1) : About(u[i], x)
    BY <1>2
  <2>2. k \in 1..j /\ \A i \in (k + 1)..j : i \in (k + 1)..(j - 1) \/ i = j
    OBVIOUS
  <2>3. \A i \in (k + 1)..j : About(u[i], x)
    BY <2>1, <2>2
  <2> QED
    BY <1>1, <2>1, <2>2, <2>3 DEF Told
<1>3. CASE /\ \A i \in 1..(j - 1) : About(u[i], x)
           /\ OfSlot(g.user_presets, x)
           /\ \/ g.active_slot = x
              \/ g.active_slot = None /\ ~g.asked /\ g.current_preset_name = None
  <2>1. \A i \in 1..j : i \in 1..(j - 1) \/ i = j
    OBVIOUS
  <2>2. \A i \in 1..j : About(u[i], x)
    BY <1>3, <2>1
  <2> QED
    BY <1>1, <1>3, <2>2 DEF Told
<1> QED
  BY <1>2, <1>3 DEF Told

\* The GUI is told of its slot.
LEMMA ToldRack ==
  ASSUME NEW g, NEW u, NEW x, NEW j \in Nat \ {0}, u[j].kind = "RackUpdated", u[j].slot = x
  PROVE  Told(g, u, x, j + 1)
<1>1. (j + 1) - 1 = j /\ j \in 1..j /\ (j + 1)..j = {}
  OBVIOUS
<1> QED
  BY <1>1 DEF Told

\* A new GUI, for which the first m updates are lost.
LEMMA ToldFresh ==
  ASSUME NEW g, NEW u, NEW v, NEW x, NEW m \in Nat, NEW j \in Nat, j > m,
         \A i \in 1..((j - m) - 1) : v[i] = u[m + i], Told(g, u, x, j)
  PROVE  Told(FreshGui, v, x, j - m)
<1>0. /\ OfSlot(FreshGui.user_presets, x) /\ FreshGui.active_slot = None /\ ~FreshGui.asked
      /\ FreshGui.current_preset_name = None
  BY DEF FreshGui, OfSlot
<1>1. PICK l \in Nat : j = m + l /\ l # 0 /\ j - m = l
  <2>1. j - m \in Nat /\ j = m + (j - m) /\ j - m # 0
    OBVIOUS
  <2> QED
    BY <2>1
<1>2. \A i \in 1..(l - 1) : v[i] = u[m + i] /\ m + i \in 1..(j - 1)
  BY <1>1
<1>3. CASE \E k \in (m + 1)..(j - 1) :
             /\ u[k].kind = "RackUpdated" /\ u[k].slot = x
             /\ \A i \in (k + 1)..(j - 1) : About(u[i], x)
  <2>1. PICK k \in (m + 1)..(j - 1) : /\ u[k].kind = "RackUpdated" /\ u[k].slot = x
                                      /\ \A i \in (k + 1)..(j - 1) : About(u[i], x)
    BY <1>3
  <2>2. PICK p \in 1..(l - 1) : k = m + p
    <3>1. k - m \in 1..(l - 1) /\ k = m + (k - m)
      BY <1>1
    <3> QED
      BY <3>1
  <2>3. v[p].kind = "RackUpdated" /\ v[p].slot = x
    BY <1>2, <2>1, <2>2
  <2>4. ASSUME NEW i \in (p + 1)..(l - 1) PROVE About(v[i], x)
    <3>1. i \in 1..(l - 1) /\ m + i \in (k + 1)..(j - 1)
      BY <1>1, <2>2
    <3> QED
      BY <1>2, <2>1, <3>1
  <2> QED
    BY <1>1, <2>3, <2>4 DEF Told
<1>4. CASE \A i \in (m + 1)..(j - 1) : About(u[i], x)
  <2>1. ASSUME NEW i \in 1..(l - 1) PROVE About(v[i], x)
    <3>1. v[i] = u[m + i] /\ m + i \in (m + 1)..(j - 1)
      BY <1>1, <1>2
    <3> QED
      BY <1>4, <3>1
  <2> QED
    BY <1>0, <1>1, <2>1 DEF Told
<1>5. ASSUME NEW k \in 1..(j - 1), k \notin (m + 1)..(j - 1), \A i \in (k + 1)..(j - 1) : About(u[i], x)
      PROVE  \A i \in (m + 1)..(j - 1) : About(u[i], x)
  <2>1. \A i \in (m + 1)..(j - 1) : i \in (k + 1)..(j - 1)
    BY <1>5
  <2> QED
    BY <1>5, <2>1
<1>6. \A i \in (m + 1)..(j - 1) : i \in 1..(j - 1)
  OBVIOUS
<1> QED
  BY <1>3, <1>4, <1>5, <1>6 DEF Told

\* The first update is applied.
LEMMA ToldPop ==
  ASSUME NEW g, NEW h, NEW u, NEW v, NEW x, NEW j \in Nat, j >= 2, x # None,
         \A i \in 1..(j - 2) : v[i] = u[i + 1],
         Applied(g, u[1], h), g.active_slot = x => OfSlot(g.user_presets, x),
         Told(g, u, x, j)
  PROVE  Told(h, v, x, j - 1)
<1>1. PICK l \in Nat : j = l + 1 /\ j - 1 = l /\ l >= 1 /\ j - 2 = l - 1
  <2>1. j - 1 \in Nat /\ j = (j - 1) + 1 /\ j - 1 >= 1 /\ j - 2 = (j - 1) - 1
    OBVIOUS
  <2> QED
    BY <2>1
<1>2. CASE \E k \in 2..l :
             /\ u[k].kind = "RackUpdated" /\ u[k].slot = x
             /\ \A i \in (k + 1)..l : About(u[i], x)
  <2>1. PICK k \in 2..l : /\ u[k].kind = "RackUpdated" /\ u[k].slot = x
                          /\ \A i \in (k + 1)..l : About(u[i], x)
    BY <1>2
  <2>2. PICK p \in 1..(l - 1) : k = p + 1
    <3>1. k - 1 \in 1..(l - 1) /\ k = (k - 1) + 1
      BY <1>1
    <3> QED
      BY <3>1
  <2>3. v[p].kind = "RackUpdated" /\ v[p].slot = x
    BY <1>1, <2>1, <2>2
  <2>4. ASSUME NEW i \in (p + 1)..(l - 1) PROVE About(v[i], x)
    <3>1. i \in 1..(l - 1) /\ i + 1 \in (k + 1)..l
      BY <2>2
    <3> QED
      BY <1>1, <2>1, <3>1
  <2> QED
    BY <1>1, <2>3, <2>4 DEF Told
<1>3. ASSUME \A i \in 2..l : About(u[i], x), OfSlot(h.user_presets, x),
             \/ h.active_slot = x
             \/ h.active_slot = None /\ ~h.asked /\ h.current_preset_name = None
      PROVE  Told(h, v, x, l)
  <2>1. ASSUME NEW i \in 1..(l - 1) PROVE About(v[i], x)
    <3>1. i + 1 \in 2..l
      OBVIOUS
    <3> QED
      BY <1>1, <1>3, <3>1
  <2> QED
    BY <1>3, <2>1 DEF Told
<1>4. CASE u[1].kind = "RackUpdated" /\ u[1].slot = x /\ \A i \in 2..l : About(u[i], x)
  <2>1. h.active_slot = x /\ OfSlot(h.user_presets, x)
    BY <1>4 DEF Applied, OfSlot
  <2> QED
    BY <1>1, <1>3, <1>4, <2>1
<1>5. CASE /\ \A i \in 1..l : About(u[i], x)
           /\ OfSlot(g.user_presets, x)
           /\ \/ g.active_slot = x
              \/ g.active_slot = None /\ ~g.asked /\ g.current_preset_name = None
  <2>1. About(u[1], x) /\ \A i \in 2..l : About(u[i], x)
    BY <1>1, <1>5
  <2>2. /\ OfSlot(h.user_presets, x)
        /\ \/ h.active_slot = x
           \/ h.active_slot = None /\ ~h.asked /\ h.current_preset_name = None
    BY <1>5, <2>1 DEF Applied, About
  <2> QED
    BY <1>1, <1>3, <2>1, <2>2
<1>6. ASSUME NEW k \in 1..l, u[k].kind = "RackUpdated", u[k].slot = x, \A i \in (k + 1)..l : About(u[i], x)
      PROVE  Told(h, v, x, l)
  <2>1. k = 1 \/ k \in 2..l
    OBVIOUS
  <2>2. 1 + 1 = 2
    OBVIOUS
  <2> QED
    BY <1>1, <1>2, <1>4, <1>6, <2>1, <2>2
<1> QED
  BY <1>1, <1>5, <1>6 DEF Told

\* What is told of one update more.
LEMMA ToldAdded ==
  ASSUME QueuesTyped, ToldAll, NEW update \in Updates, toGui' = toGui \o <<update>>, gui' = gui,
         \/ update.kind = "RackUpdated"
         \/ update.kind = "FullState" /\ update.slot = None
         \/ active # None /\ About(update, active)
         \/ update.kind = "PresetList" /\ update.list = {},
         \/ active' = None
         \/ update.kind = "RackUpdated" /\ update.slot = active'
         \/ active' = active /\ About(update, active),
         active \in Slots \cup {None}
  PROVE  ToldAll'
<1> DEFINE l == Len(toGui)
<1>0. toGui \in Seq(Updates) /\ l \in Nat
  BY DEF QueuesTyped
<1>1. /\ Len(toGui') = l + 1 /\ toGui'[l + 1] = update
      /\ \A i \in 1..l : toGui'[i] = toGui[i]
  BY <1>0, UpdateAdded
<1>2. ASSUME NEW x, Told(gui, toGui, x, l + 1) PROVE Told(gui, toGui', x, l + 1)
  <2>1. l + 1 \in Nat /\ \A i \in 1..((l + 1) - 1) : toGui'[i] = toGui[i]
    BY <1>0, <1>1
  <2> HIDE DEF l
  <2> QED
    BY <1>2, <2>1, ToldSame
<1>3. ASSUME NEW j \in 1..Len(toGui') PROVE ToldBefore(gui, toGui', j)
  <2>1. CASE j \in 1..l
    <3>1. \A i \in 1..j : toGui'[i] = toGui[i]
      BY <1>0, <1>1, <2>1
    <3>2. ToldBefore(gui, toGui, j) /\ j \in Nat \ {0}
      BY <2>1 DEF ToldAll
    <3> QED
      BY <3>1, <3>2, ToldBeforeSame
  <2>2. CASE j = l + 1
    <3>1. toGui'[j] = update
      BY <1>1, <2>2
    <3>2. CASE active # None /\ About(update, active)
      <4>1. Told(gui, toGui', active, j)
        BY <1>2, <2>2, <3>2 DEF ToldAll
      <4> QED
        BY <3>1, <3>2, <4>1 DEF ToldBefore, About
    <3> QED
      BY <3>1, <3>2 DEF ToldBefore
  <2> QED
    BY <1>0, <1>1, <2>1, <2>2
<1>4. ASSUME active' # None PROVE Told(gui, toGui', active', (l + 1) + 1)
  <2>0. l + 1 \in Nat \ {0}
    BY <1>0
  <2>1. PICK p \in Nat \ {0} : p = l + 1
    BY <2>0
  <2>2. toGui'[p] = update
    BY <1>1, <2>1
  <2>3. CASE update.kind = "RackUpdated" /\ update.slot = active'
    BY <2>1, <2>2, <2>3, ToldRack
  <2>4. CASE active' = active /\ About(update, active)
    <3>1. Told(gui, toGui', active, p)
      BY <1>2, <1>4, <2>1, <2>4 DEF ToldAll
    <3> HIDE DEF l
    <3> QED
      BY <2>1, <2>2, <2>4, <3>1, ToldNext
  <2> QED
    BY <1>4, <2>3, <2>4
<1> QED
  BY <1>1, <1>3, <1>4 DEF ToldAll

\* No step shows, or sends, a list of a slot the GUI was not told of.
LEMMA ToldStep ==
  ASSUME HostTyped, GuiTyped, FilesTyped, QueuesTyped, IsOwn, ToldAll, [Next]_vars
  PROVE  IsOwn' /\ ToldAll'
<1>0. toGui \in Seq(Updates) /\ Len(toGui) \in Nat
  BY DEF QueuesTyped
<1>1. CASE HostApp
  <2>1. HostTyped' /\ FilesTyped'
    BY <1>1, HostTypedStep, FilesTypedStep
  <2>2. toGui' = <<>> /\ gui'.active_slot = active'
    <3>1. host' = "process"
      BY <1>1 DEF HostApp, AppActivate, AppDeactivate, AppInitPreset, AppSavePreset, AppLoad,
         AppLoadPreset, AppNextPreset, AppPrevPreset, InProcess
    <3> QED
      BY <2>1, <3>1 DEF HostTyped
  <2>3. IsOwn'
    <3>1. CASE (\E slot \in Slots : AppActivate(slot)) \/ AppDeactivate \/ AppInitPreset
      BY <3>1, ListTyped DEF AppActivate, AppDeactivate, AppInitPreset, AppActivated, AppStopped, IsOwn,
         OfSlot
    <3>2. CASE (\E name \in Names : AppSavePreset(name)) \/ AppLoadPreset \/ AppNextPreset \/ AppPrevPreset
      <4>1. active' = active
        BY <3>2 DEF AppSavePreset, AppLoad, AppLoadPreset, AppNextPreset, AppPrevPreset
      <4>2. \/ gui'.user_presets = gui.user_presets
            \/ gui'.user_presets = list_user_presets(files', active)
        BY <3>2 DEF AppSavePreset, AppLoad, AppLoadPreset, AppNextPreset, AppPrevPreset, GuiTyped
      <4>3. gui.active_slot = active
        BY <1>1 DEF HostApp, AppActivate, AppDeactivate, AppInitPreset, AppSavePreset, AppLoad,
         AppLoadPreset, AppNextPreset, AppPrevPreset, InProcess, HostTyped
      <4> QED
        BY <2>1, <2>2, <4>1, <4>2, <4>3, ListTypedNext DEF IsOwn, OfSlot
    <3> QED
      BY <1>1, <3>1, <3>2 DEF HostApp
  <2>4. Len(toGui') = 0 /\ 1..(1 - 1) = {} /\ 1..0 = {} /\ 0 + 1 = 1
    BY <2>2
  <2> QED
    BY <2>2, <2>3, <2>4 DEF ToldAll, Told, IsOwn
<1>2. CASE Buttons
  <2>1. /\ toGui' = toGui /\ active' = active /\ SameButName(gui, gui')
        /\ gui.active_slot # None \/ gui' = gui
    BY <1>2, ButtonsSend, NoneIsNone DEF SendsActivate, SendsDeactivate, SendsInit, SendsSave, SendsLoad
  <2>2. ASSUME NEW x, NEW j, Told(gui, toGui, x, j) PROVE Told(gui', toGui, x, j)
    BY <2>1, <2>2, ToldSameGui
  <2> QED
    BY <2>1, <2>2 DEF ToldAll, ToldBefore, IsOwn, SameButName
<1>3. CASE GuiReceives
  <2>1. /\ toGui # <<>> /\ toGui' = Tail(toGui) /\ active' = active /\ Applied(gui, toGui[1], gui')
    BY <1>3, GuiApplies
  <2>2. PICK l \in Nat : Len(toGui) = l + 1 /\ Len(toGui') = l /\ \A i \in 1..l : toGui'[i] = toGui[i + 1]
    <3>1. /\ Len(toGui) - 1 \in Nat /\ Len(toGui) = (Len(toGui) - 1) + 1
          /\ Len(toGui') = Len(toGui) - 1 /\ \A i \in 1..(Len(toGui) - 1) : toGui'[i] = toGui[i + 1]
      BY <1>0, <2>1, UpdateTaken
    <3> QED
      BY <3>1
  <2>3. ASSUME NEW x, x # None, NEW j \in 2..(l + 2), Told(gui, toGui, x, j)
        PROVE  Told(gui', toGui', x, j - 1)
    <3>1. j \in Nat /\ j >= 2 /\ \A i \in 1..(j - 2) : toGui'[i] = toGui[i + 1]
      BY <2>2
    <3>2. gui.active_slot = x => OfSlot(gui.user_presets, x)
      BY <2>3 DEF IsOwn
    <3> QED
      BY <2>1, <2>3, <3>1, <3>2, ToldPop
  <2>4. ASSUME NEW j \in 1..Len(toGui') PROVE ToldBefore(gui', toGui', j)
    <3>1. /\ toGui'[j] = toGui[j + 1] /\ j + 1 \in 1..Len(toGui) /\ j + 1 \in 2..(l + 2)
          /\ (j + 1) - 1 = j
      BY <2>2
    <3>2. ToldBefore(gui, toGui, j + 1)
      BY <3>1 DEF ToldAll
    <3>3. ASSUME NEW x, x # None, Told(gui, toGui, x, j + 1) PROVE Told(gui', toGui', x, j)
      BY <2>3, <3>1, <3>3
    <3> QED
      BY <3>1, <3>2, <3>3, NoneIsNone DEF ToldBefore
  <2>5. active # None => Told(gui', toGui', active, Len(toGui') + 1)
    <3>1. /\ Len(toGui) + 1 \in 2..(l + 2) /\ (Len(toGui) + 1) - 1 = Len(toGui') + 1
      BY <2>2
    <3> QED
      BY <2>3, <3>1 DEF ToldAll
  <2>6. IsOwn'
    <3>1. 1 \in 1..Len(toGui) /\ 1..(1 - 1) = {}
      BY <2>2
    <3>2. ToldBefore(gui, toGui, 1)
      BY <3>1 DEF ToldAll
    <3>3. ASSUME NEW x, Told(gui, toGui, x, 1)
          PROVE  OfSlot(gui.user_presets, x) /\ gui.active_slot \in {x, None}
      BY <3>1, <3>3 DEF Told
    <3>4. CASE toGui[1].kind = "RackUpdated"
      BY <2>1, <3>4 DEF Applied, IsOwn, OfSlot
    <3>5. CASE toGui[1].kind = "FullState"
      BY <2>1, <3>2, <3>3, <3>5 DEF Applied, IsOwn, ToldBefore
    <3>6. CASE toGui[1].kind = "PresetList"
      BY <2>1, <3>2, <3>3, <3>6 DEF Applied, IsOwn, ToldBefore, OfSlot
    <3> QED
      BY <2>1, <3>4, <3>5, <3>6 DEF Applied
  <2> QED
    BY <2>1, <2>4, <2>5, <2>6 DEF ToldAll
<1>4. CASE AudioWorker /\ ~PollCrash
  <2>1. gui' = gui /\ IsOwn'
    BY <1>4, HandlerTakes DEF IsOwn
  <2>2. active \in Slots \cup {None} /\ active' \in Slots \cup {None}
    BY <1>4, HostTypedStep DEF HostTyped, Next
  <2>3. CASE toGui' = toGui
    <3>1. active' = active \/ active' = None
      BY <1>4, <2>3, HandlerTakes DEF HandleSavePreset, HandleLoadPreset, HandleListPresets,
         HandleRequestFullState, HandleDeactivate, Reports, HandleActivate
    <3> QED
      BY <2>1, <2>3, <3>1 DEF ToldAll
  <2>4. CASE HandleActivate /\ Reports(RackUpdated(active'))
    <3>1. PICK u \in Updates : u = RackUpdated(active')
      BY <2>2, MessagesTyped
    <3>2. u.kind = "RackUpdated" /\ u.slot = active' /\ toGui' = toGui \o <<u>>
      BY <2>4, <3>1 DEF RackUpdated, Reports
    <3> QED
      BY <2>1, <2>2, <3>2, ToldAdded
  <2>5. CASE HandleDeactivate /\ Reports(RackUpdated(None))
    <3>1. PICK u \in Updates : u = RackUpdated(None)
      BY MessagesTyped
    <3>2. u.kind = "RackUpdated" /\ toGui' = toGui \o <<u>> /\ active' = None
      BY <2>5, <3>1 DEF RackUpdated, Reports, HandleDeactivate
    <3> QED
      BY <2>1, <2>2, <3>2, ToldAdded
  <2>6. CASE HandleListPresets /\ Reports(PresetList(list_user_presets(files, active)))
    <3>1. PICK list \in SUBSET Entries : list = list_user_presets(files, active)
      BY ListTyped
    <3>2. PICK u \in Updates : u = PresetList(list)
      BY MessagesTyped
    <3>3. /\ u.kind = "PresetList" /\ u.list = list /\ toGui' = toGui \o <<u>> /\ active' = active
          /\ OfSlot(list, active) /\ (active = None => list = {})
      BY <2>6, <3>1, <3>2, ListTyped DEF PresetList, Reports, HandleListPresets, OfSlot
    <3>4. About(u, active)
      BY <3>3 DEF About
    <3> QED
      BY <2>1, <2>2, <3>3, <3>4, ToldAdded
  <2>7. CASE HandleRequestFullState /\ Reports(FullState(active))
    <3>1. PICK u \in Updates : u = FullState(active)
      BY <2>2, MessagesTyped
    <3>2. u.kind = "FullState" /\ u.slot = active /\ toGui' = toGui \o <<u>> /\ active' = active
      BY <2>7, <3>1 DEF FullState, Reports, HandleRequestFullState
    <3>3. About(u, active)
      BY <3>2 DEF About
    <3> QED
      BY <2>1, <2>2, <3>2, <3>3, ToldAdded
  <2> QED
    BY <1>4, <2>1, <2>3, <2>4, <2>5, <2>6, <2>7, HandlerTakes
<1>5. CASE PollCrash
  <2>1. PICK u \in Updates : u = RackUpdated(None)
    BY MessagesTyped
  <2>2. u.kind = "RackUpdated" /\ toGui' = toGui \o <<u>> /\ active' = None /\ gui' = gui
    BY <1>0, <1>5, <2>1, UpdateAdded DEF RackUpdated, PollCrash
  <2>3. active \in Slots \cup {None}
    BY DEF HostTyped
  <2> QED
    BY <2>2, <2>3, ToldAdded DEF IsOwn
<1>6. CASE WorkerDies
  <2>1. PICK m \in 0..Len(toGui) : toGui' = Append(Prefix(toGui, m), FullState(None))
    BY <1>6 DEF WorkerDies
  <2>2. PICK u \in Updates : u = FullState(None)
    BY MessagesTyped
  <2>3. PICK s \in Seq(Updates) : s = Prefix(toGui, m)
    BY <1>0, UpdatesCut
  <2>4. Len(s) = m /\ \A i \in 1..m : s[i] = toGui[i]
    BY <1>0, <2>3, UpdatesCut
  <2>5. toGui' = s \o <<u>>
    BY <2>1, <2>2, <2>3, UpdateAdded
  <2>6. m \in Nat /\ Len(toGui') = m + 1 /\ toGui'[m + 1] = u /\ \A i \in 1..m : toGui'[i] = toGui[i]
    BY <1>0, <2>4, <2>5, UpdateAdded
  <2>7. u.kind = "FullState" /\ u.slot = None /\ active' = None /\ gui' = gui
    BY <1>6, <2>2 DEF FullState, WorkerDies
  <2>8. ASSUME NEW j \in 1..Len(toGui') PROVE ToldBefore(gui, toGui', j)
    <3>1. CASE j \in 1..m
      <4>1. \A i \in 1..j : toGui'[i] = toGui[i]
        BY <2>6, <3>1
      <4>2. ToldBefore(gui, toGui, j)
        BY <1>0, <3>1 DEF ToldAll
      <4> QED
        BY <3>1, <4>1, <4>2, ToldBeforeSame
    <3>2. CASE j = m + 1
      BY <2>6, <2>7, <3>2 DEF ToldBefore
    <3> QED
      BY <2>6, <3>1, <3>2
  <2> QED
    BY <2>7, <2>8 DEF ToldAll, IsOwn
<1>7. CASE GuiDies
  <2>1. PICK m \in 0..Len(toGui) : toGui' = Suffix(toGui, m)
    BY <1>7 DEF GuiDies
  <2>2. gui' = FreshGui /\ active' = active
    BY <1>7 DEF GuiDies
  <2>3. m \in Nat /\ Len(toGui') = Len(toGui) - m /\ \A i \in 1..(Len(toGui) - m) : toGui'[i] = toGui[m + i]
    <3>1. m \in Nat
      BY <1>0
    <3>2. /\ Len(Suffix(toGui, m)) = Len(toGui) - m
          /\ \A i \in 1..(Len(toGui) - m) : Suffix(toGui, m)[i] = toGui[m + i]
      BY <1>0, UpdatesCut, Zenon
    <3> QED
      BY <2>1, <3>1, <3>2, Zenon
  <2>4. ASSUME NEW x, NEW j \in (m + 1)..(Len(toGui) + 1), Told(gui, toGui, x, j)
        PROVE  Told(gui', toGui', x, j - m)
    <3>1. j \in Nat /\ j > m /\ \A i \in 1..((j - m) - 1) : toGui'[i] = toGui[m + i]
      BY <1>0, <2>3
    <3> QED
      BY <2>2, <2>3, <2>4, <3>1, ToldFresh
  <2>5. ASSUME NEW j \in 1..Len(toGui') PROVE ToldBefore(gui', toGui', j)
    <3>1. /\ toGui'[j] = toGui[m + j] /\ m + j \in 1..Len(toGui) /\ m + j \in (m + 1)..(Len(toGui) + 1)
          /\ (m + j) - m = j
      BY <1>0, <2>3
    <3>2. ToldBefore(gui, toGui, m + j)
      BY <3>1 DEF ToldAll
    <3>3. ASSUME NEW x, Told(gui, toGui, x, m + j) PROVE Told(gui', toGui', x, j)
      BY <2>4, <3>1, <3>3
    <3> QED
      BY <3>1, <3>2, <3>3 DEF ToldBefore
  <2>6. active # None => Told(gui', toGui', active, Len(toGui') + 1)
    <3>1. /\ Len(toGui) + 1 \in (m + 1)..(Len(toGui) + 1)
          /\ (Len(toGui) + 1) - m = Len(toGui') + 1
      BY <1>0, <2>3
    <3> QED
      BY <2>4, <3>1 DEF ToldAll
  <2> QED
    BY <2>2, <2>5, <2>6 DEF ToldAll, IsOwn, FreshGui
<1>8. CASE UNCHANGED vars
  BY <1>8 DEF vars, ToldAll, IsOwn
<1> QED
  BY <1>1, <1>2, <1>3, <1>4, <1>5, <1>6, <1>7, <1>8 DEF Next, GuiWorker, Buttons

-----------------------------------------------------------------------------
(* What the GUI has asked the worker for *)

Listed(i) == \E k \in (i + 1)..Len(toWorker) : toWorker[k].kind = "ListPresets"

\* A preset that is to be saved is followed by a listing.
SavesListed ==
  gui.asked => \A i \in 1..Len(toWorker) : toWorker[i].kind = "SavePreset" => Listed(i)

\* The GUI shows x, and what it is told of next does not change that.
Steady(x) ==
  /\ gui.active_slot = x
  /\ \A k \in 1..Len(toGui) : toGui[k].kind # "PresetList" => toGui[k].slot = x

Activates(i, x) == toWorker[i].kind = "ActivateSlot" /\ toWorker[i].slot = x

\* The slot shown is activated again after a listing was asked for, or after it
\* was deactivated, of which the GUI will be told.
ActivationsListed ==
  gui.asked /\ gui.active_slot # None /\ Steady(gui.active_slot) =>
    \A i \in 1..Len(toWorker) : Activates(i, gui.active_slot) =>
      Listed(i) \/ \E k \in 1..(i - 1) : toWorker[k].kind = "DeactivateSlot"

\* What is appended to the queue.
LEMMA AddsOne ==
  ASSUME QueuesTyped, NEW a \in Actions, toWorker' = toWorker \o <<a>>
  PROVE  /\ Len(toWorker) \in Nat /\ Len(toWorker') = Len(toWorker) + 1
         /\ \A i \in 1..Len(toWorker) : toWorker'[i] = toWorker[i]
         /\ toWorker'[Len(toWorker) + 1] = a
  BY ActionAdded DEF QueuesTyped

\* Two requests more.
LEMMA AddsTwo ==
  ASSUME QueuesTyped, NEW a \in Actions, NEW b \in Actions, toWorker' = toWorker \o <<a, b>>
  PROVE  /\ Len(toWorker) \in Nat /\ Len(toWorker') = Len(toWorker) + 2
         /\ \A i \in 1..Len(toWorker) : toWorker'[i] = toWorker[i]
         /\ toWorker'[Len(toWorker) + 1] = a /\ toWorker'[Len(toWorker) + 2] = b
  BY ActionsAdded DEF QueuesTyped

\* The worker takes one action, and reports of it at most once.
Took(a) ==
  /\ Len(toWorker) \in Nat /\ Len(toWorker') \in Nat /\ a = toWorker[1] /\ a \in Actions
  /\ Len(toWorker) = Len(toWorker') + 1
  /\ \A i \in 1..Len(toWorker') : toWorker'[i] = toWorker[i + 1]

\* Every handler takes one request.
LEMMA HandlerTook ==
  ASSUME QueuesTyped, AudioWorker, ~PollCrash
  PROVE  Took(toWorker[1])
<1>1. toWorker # <<>> /\ toWorker' = Tail(toWorker) /\ toWorker \in Seq(Actions)
  BY HandlerTakes DEF QueuesTyped
<1>2. /\ Len(toWorker) \in Nat /\ Len(toWorker) >= 1 /\ toWorker[1] \in Actions
      /\ Len(toWorker') = Len(toWorker) - 1
      /\ \A i \in 1..(Len(toWorker) - 1) : toWorker'[i] = toWorker[i + 1]
  BY <1>1, ActionTaken
<1> QED
  BY <1>2 DEF Took

\* What the GUI was told of stays under way.
Keeps == Len(toGui') \in Nat /\ Len(toGui') >= Len(toGui) /\ \A k \in 1..Len(toGui) : toGui'[k] = toGui[k]

\* A report is put behind the others.
LEMMA ReportsKeep ==
  ASSUME QueuesTyped, NEW u \in Updates, Reports(u)
  PROVE  /\ Keeps /\ Len(toGui) \in Nat
         /\ Len(toGui') = Len(toGui) + 1 /\ toGui'[Len(toGui) + 1] = u
  BY UpdateAdded DEF Reports, QueuesTyped, Keeps

\* No handler takes back what was reported.
LEMMA HandlerKeeps ==
  ASSUME HostTyped, GuiTyped, FilesTyped, QueuesTyped, IsOwn, AudioWorker, ~PollCrash
  PROVE  Keeps
<1>1. active \in Slots \cup {None} /\ active' \in Slots \cup {None}
  BY HostTypedStep DEF HostTyped, Next
<1>2. list_user_presets(files, active) \in SUBSET Entries
  BY ListTyped
<1>3. CASE toGui' = toGui
  BY <1>3 DEF Keeps, QueuesTyped
<1>4. CASE \E u \in Updates : Reports(u)
  BY <1>4, ReportsKeep
<1> QED
  BY <1>1, <1>2, <1>3, <1>4, HandlerTakes, MessagesTyped

\* The worker's steps after which the GUI still shows x.
LEMMA WorkerSteady ==
  ASSUME HostTyped, GuiTyped, FilesTyped, QueuesTyped, IsOwn, AudioWorker \/ WorkerDies,
         NEW x, x # None, Steady(x)'
  PROVE  Steady(x) /\ gui' = gui /\ ~PollCrash /\ ~WorkerDies /\ ~HandleDeactivate
<1>0. gui' = gui
  BY HandlerTakes DEF PollCrash, WorkerDies
<1>1. ASSUME NEW u \in Updates, u.kind # "PresetList", NEW l \in Nat, Len(toGui') = l + 1, toGui'[l + 1] = u
      PROVE  u.slot = x
  <2>1. l + 1 \in 1..Len(toGui')
    BY <1>1
  <2> QED
    BY <1>1, <2>1 DEF Steady
<1>2. PICK off \in Updates : off = RackUpdated(None)
  BY MessagesTyped
<1>3. ~PollCrash
  <2>1. ASSUME PollCrash PROVE Reports(off)
    BY <1>2, <2>1, UpdateAdded DEF PollCrash, Reports, QueuesTyped
  <2> QED
    BY <1>1, <1>2, <2>1, ReportsKeep DEF RackUpdated
<1>4. ~HandleDeactivate
  <2>1. ASSUME HandleDeactivate PROVE Reports(off)
    BY <1>2, <2>1 DEF HandleDeactivate, Handled, Reports
  <2> QED
    BY <1>1, <1>2, <2>1, ReportsKeep DEF RackUpdated
<1>5. ~WorkerDies
  <2>0. SUFFICES ASSUME WorkerDies PROVE FALSE
    OBVIOUS
  <2>1. PICK m \in 0..Len(toGui) : toGui' = Append(Prefix(toGui, m), FullState(None))
    BY <2>0 DEF WorkerDies
  <2>2. PICK u \in Updates : u = FullState(None)
    BY MessagesTyped
  <2>3. PICK s \in Seq(Updates) : s = Prefix(toGui, m)
    BY UpdatesCut DEF QueuesTyped
  <2>4. Len(s) \in Nat /\ Len(toGui') = Len(s) + 1 /\ toGui'[Len(s) + 1] = u
    BY <2>1, <2>2, <2>3, UpdateAdded
  <2> QED
    BY <1>1, <2>2, <2>4 DEF FullState
<1>6. Keeps
  BY <1>3, <1>5, HandlerKeeps
<1>7. \A k \in 1..Len(toGui) : k \in 1..Len(toGui') /\ toGui'[k] = toGui[k]
  BY <1>6 DEF Keeps, QueuesTyped
<1> QED
  BY <1>0, <1>3, <1>4, <1>5, <1>7 DEF Steady

\* The updates after which the GUI shows x and will go on to.
LEMMA GuiSteady ==
  ASSUME HostTyped, GuiTyped, QueuesTyped, ToldAll, GuiReceives, NEW x, x # None, Steady(x)'
  PROVE  \/ /\ Steady(x) /\ gui'.asked = gui.asked
            /\ gui'.current_preset_name = gui.current_preset_name
            /\ ~AsksForList
            /\ toGui[1].kind # "PresetList" => gui'.user_presets = gui.user_presets
            /\ toGui[1].kind = "PresetList" => gui'.user_presets = toGui[1].list
         \/ AsksForList /\ gui'.current_preset_name = None
         \/ ~gui'.asked /\ gui'.current_preset_name = None
<1>1. toGui # <<>> /\ toGui' = Tail(toGui) /\ Applied(gui, toGui[1], gui') /\ GuiTyped'
  BY GuiApplies
<1>2. /\ Len(toGui) \in Nat /\ Len(toGui) >= 1 /\ Len(toGui') = Len(toGui) - 1
      /\ \A i \in 1..(Len(toGui) - 1) : toGui'[i] = toGui[i + 1]
  BY <1>1, UpdateTaken DEF QueuesTyped
<1>3. ASSUME NEW k \in 2..Len(toGui), toGui[k].kind # "PresetList" PROVE toGui[k].slot = x
  <2>1. PICK i \in 1..(Len(toGui) - 1) : k = i + 1
    <3>1. k - 1 \in 1..(Len(toGui) - 1) /\ k = (k - 1) + 1
      BY <1>2
    <3> QED
      BY <3>1
  <2>2. i \in 1..Len(toGui') /\ toGui'[i] = toGui[k]
    BY <1>2, <2>1
  <2> QED
    BY <1>3, <2>2 DEF Steady
<1>4. ASSUME gui.active_slot = x, toGui[1].kind # "PresetList" => toGui[1].slot = x PROVE Steady(x)
  <2>1. \A k \in 1..Len(toGui) : k = 1 \/ k \in 2..Len(toGui)
    BY <1>2
  <2> QED
    BY <1>3, <1>4, <2>1 DEF Steady
<1>5. gui'.active_slot = x
  BY DEF Steady
<1>6. CASE toGui[1].kind = "RackUpdated"
  <2>1. CASE toGui[1].slot = gui.active_slot
    BY <1>1, <1>4, <1>5, <1>6, <2>1 DEF Applied, AsksForList
  <2>2. CASE toGui[1].slot # gui.active_slot
    BY <1>1, <1>5, <1>6, <2>2 DEF Applied, AsksForList
  <2> QED
    BY <2>1, <2>2
<1>7. CASE toGui[1].kind = "FullState"
  <2>1. toGui[1].slot = x
    BY <1>1, <1>5, <1>7 DEF Applied
  <2>2. CASE gui.active_slot = x
    BY <1>1, <1>4, <1>5, <1>7, <2>1, <2>2 DEF Applied, AsksForList
  <2>3. CASE gui.active_slot # x
    <3>1. 1 \in 1..Len(toGui) /\ 1..(1 - 1) = {}
      BY <1>2
    <3>2. Told(gui, toGui, x, 1)
      BY <1>7, <2>1, <3>1 DEF ToldAll, ToldBefore
    <3>3. ~gui.asked /\ gui.current_preset_name = None
      BY <2>3, <3>1, <3>2 DEF Told
    <3> QED
      BY <1>1, <1>7, <3>3 DEF Applied
  <2> QED
    BY <2>2, <2>3
<1>8. CASE toGui[1].kind = "PresetList"
  BY <1>1, <1>4, <1>5, <1>8 DEF Applied, AsksForList
<1> QED
  BY <1>1, <1>6, <1>7, <1>8 DEF Applied

\* The save button asks for a listing; a relaunched worker finds the rest of the queue.
LEMMA SavesListedStep ==
  ASSUME HostTyped, GuiTyped, FilesTyped, QueuesTyped, IsOwn, ToldAll, SavesListed, [Next]_vars
  PROVE  SavesListed'
<1>0. Len(toWorker) \in Nat
  BY DEF QueuesTyped
<1>1. CASE HostApp
  <2>1. host' = "process" /\ HostTyped'
    BY <1>1, HostTypedStep DEF HostApp, AppActivate, AppDeactivate, AppInitPreset, AppSavePreset,
       AppLoad, AppLoadPreset, AppNextPreset, AppPrevPreset, InProcess
  <2>2. Len(toWorker') = 0 /\ 1..0 = {}
    BY <2>1 DEF HostTyped
  <2> QED
    BY <2>2 DEF SavesListed
<1>2. ASSUME gui.asked, Len(toWorker') \in Nat, Len(toWorker') >= Len(toWorker),
             \A i \in 1..Len(toWorker) : toWorker'[i] = toWorker[i],
             \A i \in (Len(toWorker) + 1)..Len(toWorker') : toWorker'[i].kind = "SavePreset" => Listed(i)'
      PROVE  SavesListed'
  <2>1. ASSUME NEW i \in 1..Len(toWorker), toWorker'[i].kind = "SavePreset" PROVE Listed(i)'
    <3>1. Listed(i)
      BY <1>2, <2>1 DEF SavesListed
    <3>2. \A k \in (i + 1)..Len(toWorker) : k \in (i + 1)..Len(toWorker') /\ k \in 1..Len(toWorker)
      BY <1>0, <1>2
    <3> QED
      BY <1>2, <3>1, <3>2 DEF Listed
  <2>2. \A i \in 1..Len(toWorker') : i \in 1..Len(toWorker) \/ i \in (Len(toWorker) + 1)..Len(toWorker')
    BY <1>0, <1>2
  <2> QED
    BY <1>2, <2>1, <2>2 DEF SavesListed
<1>3. CASE Buttons
  <2>0. gui'.asked = gui.asked /\ gui.active_slot \in Slots \cup {None}
    BY <1>3, ButtonsSend DEF SameButName, GuiTyped
  <2>1. ASSUME NEW a \in Actions, a.kind # "SavePreset", toWorker' = toWorker \o <<a>>
        PROVE  SavesListed'
    <3>1. /\ Len(toWorker') = Len(toWorker) + 1 /\ toWorker'[Len(toWorker) + 1] = a
          /\ \A i \in 1..Len(toWorker) : toWorker'[i] = toWorker[i]
      BY <2>1, AddsOne
    <3>2. \A i \in (Len(toWorker) + 1)..Len(toWorker') : i = Len(toWorker) + 1
      BY <1>0, <3>1
    <3> QED
      BY <1>0, <1>2, <2>0, <2>1, <3>1, <3>2 DEF SavesListed
  <2>2. ASSUME NEW a \in Actions, NEW b \in Actions, toWorker' = toWorker \o <<a, b>>,
               b.kind # "SavePreset", a.kind = "SavePreset" => b.kind = "ListPresets"
        PROVE  SavesListed'
    <3>1. /\ Len(toWorker') = Len(toWorker) + 2
          /\ toWorker'[Len(toWorker) + 1] = a /\ toWorker'[Len(toWorker) + 2] = b
          /\ \A i \in 1..Len(toWorker) : toWorker'[i] = toWorker[i]
      BY <2>2, AddsTwo
    <3>2. /\ \A i \in (Len(toWorker) + 1)..Len(toWorker') : i = Len(toWorker) + 1 \/ i = Len(toWorker) + 2
          /\ Len(toWorker) + 2 \in ((Len(toWorker) + 1) + 1)..Len(toWorker')
      BY <1>0, <3>1
    <3>3. PICK i \in Nat : i = Len(toWorker) + 1
      BY <1>0
    <3>4. a.kind = "SavePreset" => Listed(i)'
      BY <2>2, <3>1, <3>2, <3>3 DEF Listed
    <3>5. \A k \in (Len(toWorker) + 1)..Len(toWorker') : toWorker'[k].kind = "SavePreset" => Listed(k)'
      BY <2>2, <3>1, <3>2, <3>3, <3>4
    <3> QED
      BY <1>0, <1>2, <2>0, <3>1, <3>5 DEF SavesListed
  <2>3. ASSUME NEW slot \in Slots, SendsActivate(slot) PROVE SavesListed'
    <3>1. PICK a \in Actions : a = Activate(slot)
      BY MessagesTyped
    <3> QED
      BY <2>1, <2>3, <3>1 DEF SendsActivate, Activate
  <2>4. CASE SendsDeactivate
    <3>1. PICK a \in Actions : a = Deactivate
      BY MessagesTyped
    <3> QED
      BY <2>1, <2>4, <3>1 DEF SendsDeactivate, Deactivate
  <2>5. CASE SendsInit
    <3>1. PICK a \in Actions, b \in Actions : a = Deactivate /\ b = Activate(gui.active_slot)
      BY <2>5, MessagesTyped DEF SendsInit
    <3> QED
      BY <2>2, <2>5, <3>1 DEF SendsInit, Deactivate, Activate
  <2>6. ASSUME NEW name \in Names, SendsSave(name) PROVE SavesListed'
    <3>1. PICK a \in Actions, b \in Actions :
            a = SavePreset(PresetPath(gui.active_slot, name), name) /\ b = ListPresets
      BY <2>6, MessagesTyped DEF SendsSave
    <3> QED
      BY <2>2, <2>6, <3>1 DEF SendsSave, SavePreset, ListPresets
  <2>7. ASSUME NEW path \in Paths, SendsLoad(path) PROVE SavesListed'
    <3>1. PICK a \in Actions : a = LoadPreset(path)
      BY MessagesTyped
    <3> QED
      BY <2>1, <2>7, <3>1 DEF SendsLoad, LoadPreset
  <2> QED
    BY <1>3, <2>3, <2>4, <2>5, <2>6, <2>7, ButtonsSend
<1>4. CASE GuiReceives
  <2>1. CASE AsksForList
    <3>1. PICK a \in Actions : a = ListPresets /\ a.kind = "ListPresets"
      BY MessagesTyped DEF ListPresets
    <3>2. toWorker' = toWorker \o <<a>>
      BY <1>4, <2>1, <3>1, GuiApplies
    <3>3. /\ Len(toWorker') = Len(toWorker) + 1 /\ toWorker'[Len(toWorker) + 1] = a
          /\ \A i \in 1..Len(toWorker) : toWorker'[i] = toWorker[i]
      BY <3>2, AddsOne
    <3>4. ASSUME NEW i \in 1..Len(toWorker'), toWorker'[i].kind = "SavePreset" PROVE Listed(i)'
      <4>1. i # Len(toWorker) + 1
        BY <3>1, <3>3, <3>4
      <4>2. Len(toWorker) + 1 \in (i + 1)..Len(toWorker')
        BY <1>0, <3>3, <4>1
      <4> QED
        BY <3>1, <3>3, <4>2 DEF Listed
    <3> QED
      BY <3>4 DEF SavesListed
  <2>2. CASE ~AsksForList
    <3>1. toWorker' = toWorker /\ Applied(gui, toGui[1], gui')
      BY <1>4, <2>2, GuiApplies
    <3>2. ASSUME toGui[1].kind = "RackUpdated", toGui[1].slot # gui.active_slot,
                 gui' = [active_slot |-> toGui[1].slot, user_presets |-> {}, current_preset_name |-> None,
                         asked |-> gui.asked \/ toGui[1].slot # None]
          PROVE  gui'.asked => gui.asked
      <4>1. ~(toGui[1].slot # None)
        BY <2>2, <3>2 DEF AsksForList
      <4>2. gui'.asked = (gui.asked \/ toGui[1].slot # None)
        BY <3>2
      <4> QED
        BY <4>1, <4>2
    <3>3. gui'.asked => gui.asked
      BY <3>1, <3>2 DEF Applied
    <3> QED
      BY <3>1, <3>3 DEF SavesListed, Listed
  <2> QED
    BY <2>1, <2>2
<1>5. ASSUME NEW n \in Nat, gui' = gui, Len(toWorker') \in Nat, Len(toWorker) = Len(toWorker') + n,
             \A i \in 1..Len(toWorker') : toWorker'[i] = toWorker[n + i]
      PROVE  SavesListed'
  <2>1. ASSUME gui.asked, NEW i \in 1..Len(toWorker'), toWorker'[i].kind = "SavePreset" PROVE Listed(i)'
    <3>1. n + i \in 1..Len(toWorker)
      BY <1>5
    <3>2. Listed(n + i)
      BY <1>5, <2>1, <3>1 DEF SavesListed
    <3>3. PICK k \in ((n + i) + 1)..Len(toWorker) : toWorker[k].kind = "ListPresets"
      BY <3>2 DEF Listed
    <3>4. PICK p \in (i + 1)..Len(toWorker') : k = n + p
      <4>1. k - n \in (i + 1)..Len(toWorker') /\ k = n + (k - n)
        BY <1>0, <1>5
      <4> QED
        BY <4>1
    <3>5. p \in 1..Len(toWorker')
      BY <1>5
    <3>6. toWorker'[p].kind = "ListPresets"
      BY <1>5, <3>3, <3>4, <3>5
    <3> QED
      BY <3>6 DEF Listed
  <2> QED
    BY <1>5, <2>1 DEF SavesListed
<1>6. CASE AudioWorker /\ ~PollCrash
  <2>1. Took(toWorker[1]) /\ gui' = gui
    BY <1>6, HandlerTook, HandlerTakes
  <2>2. \A i \in 1..Len(toWorker') : i + 1 = 1 + i
    BY <2>1 DEF Took
  <2> QED
    BY <1>5, <2>1, <2>2 DEF Took
<1>7. CASE WorkerDies
  <2>1. PICK n \in 0..Len(toWorker) : toWorker' = Suffix(toWorker, n) /\ gui' = gui
    BY <1>7 DEF WorkerDies
  <2>2. Len(toWorker') = Len(toWorker) - n /\ \A i \in 1..(Len(toWorker) - n) : toWorker'[i] = toWorker[n + i]
    BY <2>1, ActionsCut DEF QueuesTyped
  <2>3. n \in Nat /\ Len(toWorker') \in Nat /\ Len(toWorker) = Len(toWorker') + n
    BY <1>0, <2>2
  <2> QED
    BY <1>5, <2>1, <2>2, <2>3
<1>8. CASE GuiDies
  BY <1>8 DEF GuiDies, FreshGui, SavesListed
<1>9. CASE PollCrash \/ UNCHANGED vars
  BY <1>9 DEF PollCrash, vars, SavesListed, Listed
<1> QED
  BY <1>1, <1>3, <1>4, <1>6, <1>7, <1>8, <1>9 DEF Next, GuiWorker, Buttons

\* What was asked for stays in the queue, in its place.
Grown ==
  /\ Len(toWorker) \in Nat /\ Len(toWorker') \in Nat /\ Len(toWorker') >= Len(toWorker)
  /\ \A i \in 1..Len(toWorker) : toWorker'[i] = toWorker[i]

\* A slot is activated by its button, for another one, and by the reset of the
\* preset, which deactivates it first.
LEMMA ButtonsGrow ==
  ASSUME GuiTyped, QueuesTyped, IsOwn, Buttons
  PROVE  /\ Grown
         /\ \A i \in (Len(toWorker) + 1)..Len(toWorker') :
              toWorker'[i].kind = "ActivateSlot" =>
                \/ toWorker'[i].slot # gui.active_slot
                \/ i - 1 \in 1..Len(toWorker') /\ toWorker'[i - 1].kind = "DeactivateSlot"
<1>1. ASSUME NEW a \in Actions, toWorker' = toWorker \o <<a>>
      PROVE  /\ Grown /\ toWorker'[Len(toWorker) + 1] = a
             /\ \A i \in (Len(toWorker) + 1)..Len(toWorker') : i = Len(toWorker) + 1
  BY <1>1, AddsOne DEF Grown
<1>2. ASSUME NEW a \in Actions, NEW b \in Actions, toWorker' = toWorker \o <<a, b>>
      PROVE  /\ Grown /\ toWorker'[Len(toWorker) + 1] = a /\ toWorker'[Len(toWorker) + 2] = b
             /\ Len(toWorker) + 1 \in 1..Len(toWorker')
             /\ \A i \in (Len(toWorker) + 1)..Len(toWorker') :
                  i = Len(toWorker) + 1 \/ (i = Len(toWorker) + 2 /\ i - 1 = Len(toWorker) + 1)
  BY <1>2, AddsTwo DEF Grown
<1>3. ASSUME NEW slot \in Slots, SendsActivate(slot)
      PROVE  /\ toWorker' = toWorker \o <<Activate(slot)>> /\ Activate(slot) \in Actions
             /\ Activate(slot).slot # gui.active_slot
  BY <1>3, MessagesTyped DEF SendsActivate, Activate
<1>4. CASE SendsDeactivate
  <2>1. PICK a \in Actions : a = Deactivate
    BY MessagesTyped
  <2> QED
    BY <1>1, <1>4, <2>1 DEF SendsDeactivate, Deactivate
<1>5. CASE SendsInit
  <2>1. PICK a \in Actions, b \in Actions : a = Deactivate /\ b = Activate(gui.active_slot)
    BY <1>5, MessagesTyped DEF SendsInit
  <2>2. toWorker' = toWorker \o <<a, b>> /\ a.kind = "DeactivateSlot"
    BY <1>5, <2>1 DEF SendsInit, Deactivate
  <2>3. a.kind # "ActivateSlot"
    BY <2>2
  <2> QED
    BY <1>2, <2>2, <2>3
<1>6. ASSUME NEW name \in Names, SendsSave(name)
      PROVE  \E a, b \in Actions : /\ toWorker' = toWorker \o <<a, b>>
                                   /\ a.kind # "ActivateSlot" /\ b.kind # "ActivateSlot"
  <2>1. PICK a \in Actions, b \in Actions :
          a = SavePreset(PresetPath(gui.active_slot, name), name) /\ b = ListPresets
    BY <1>6, MessagesTyped DEF SendsSave
  <2>2. a.kind # "ActivateSlot" /\ b.kind # "ActivateSlot"
    BY <2>1 DEF SavePreset, ListPresets
  <2> QED
    BY <1>6, <2>1, <2>2 DEF SendsSave
<1>7. ASSUME NEW path \in Paths, SendsLoad(path)
      PROVE  \E a \in Actions : toWorker' = toWorker \o <<a>> /\ a.kind # "ActivateSlot"
  <2>1. PICK a \in Actions : a = LoadPreset(path)
    BY MessagesTyped
  <2> QED
    BY <1>7, <2>1 DEF SendsLoad, LoadPreset
<1>8. CASE \E slot \in Slots : SendsActivate(slot)
  BY <1>1, <1>3, <1>8
<1>9. CASE \E name \in Names : SendsSave(name)
  BY <1>2, <1>6, <1>9
<1>10. CASE \E path \in Paths : SendsLoad(path)
  BY <1>1, <1>7, <1>10
<1> QED
  BY <1>4, <1>5, <1>8, <1>9, <1>10, ButtonsSend

\* A new slot is asked to be listed, after all that was asked for before.
LEMMA GuiGrows ==
  ASSUME GuiTyped, QueuesTyped, GuiReceives
  PROVE  /\ Grown
         /\ ~AsksForList => toWorker' = toWorker
         /\ AsksForList => /\ Len(toWorker') = Len(toWorker) + 1
                           /\ toWorker'[Len(toWorker')].kind = "ListPresets"
<1>1. Len(toWorker) \in Nat
  BY DEF QueuesTyped
<1>2. CASE AsksForList
  <2>1. PICK a \in Actions : a = ListPresets /\ a.kind = "ListPresets"
    BY MessagesTyped DEF ListPresets
  <2>2. toWorker' = toWorker \o <<a>>
    BY <1>2, <2>1, GuiApplies
  <2> QED
    BY <1>1, <1>2, <2>1, <2>2, AddsOne DEF Grown
<1>3. CASE ~AsksForList
  BY <1>1, <1>3, GuiApplies DEF Grown
<1> QED
  BY <1>2, <1>3

\* A listing asked for stays asked for, until the worker takes it.
LEMMA ListedGrown ==
  ASSUME Grown, NEW i \in 1..Len(toWorker), Listed(i)
  PROVE  Listed(i)'
<1>1. PICK k \in (i + 1)..Len(toWorker) : toWorker[k].kind = "ListPresets"
  BY DEF Listed
<1>2. k \in 1..Len(toWorker) /\ k \in (i + 1)..Len(toWorker')
  BY DEF Grown
<1> QED
  BY <1>1, <1>2 DEF Listed, Grown

\* A listing that comes later than what is taken stays asked for.
LEMMA ListedTook ==
  ASSUME NEW a, Took(a), NEW i \in Nat, Listed(i + 1)
  PROVE  Listed(i)'
<1>1. PICK k \in ((i + 1) + 1)..Len(toWorker) : toWorker[k].kind = "ListPresets"
  BY DEF Listed
<1>2. PICK p \in (i + 1)..Len(toWorker') : k = p + 1
  <2>1. k - 1 \in (i + 1)..Len(toWorker') /\ k = (k - 1) + 1
    BY DEF Took
  <2> QED
    BY <2>1
<1>3. p \in 1..Len(toWorker') /\ toWorker'[p] = toWorker[k]
  BY <1>2 DEF Took
<1> QED
  BY <1>1, <1>3 DEF Listed

\* No process host has anything under way.
LEMMA AppHasNoQueues ==
  ASSUME HostTyped, GuiTyped, QueuesTyped, IsOwn, HostApp
  PROVE  /\ toWorker = <<>> /\ toGui = <<>> /\ gui.active_slot = active
         /\ toWorker' = <<>> /\ toGui' = <<>> /\ gui'.active_slot = active'
<1>1. host = "process" /\ host' = "process"
  BY DEF HostApp, AppActivate, AppDeactivate, AppInitPreset, AppSavePreset,
     AppLoad, AppLoadPreset, AppNextPreset, AppPrevPreset, InProcess
<1>2. HostTyped'
  BY HostTypedStep DEF Next
<1> QED
  BY <1>1, <1>2 DEF HostTyped

\* A new slot asks for its list; a reset deactivates first.
LEMMA ActivationsListedStep ==
  ASSUME HostTyped, GuiTyped, FilesTyped, QueuesTyped, IsOwn, ToldAll, ActivationsListed, [Next]_vars
  PROVE  ActivationsListed'
<1> SUFFICES ASSUME gui'.asked, NEW x, x = gui'.active_slot, x # None, Steady(x)',
                    NEW i \in 1..Len(toWorker'), Activates(i, x)'
             PROVE  Listed(i)' \/ \E k \in 1..(i - 1) : toWorker'[k].kind = "DeactivateSlot"
  BY DEF ActivationsListed
<1>0. Len(toWorker) \in Nat
  BY DEF QueuesTyped
<1>1. CASE HostApp
  <2>1. Len(toWorker') = 0 /\ 1..0 = {}
    BY <1>1, AppHasNoQueues
  <2> QED
    BY <2>1
<1>2. ASSUME NEW j \in 1..Len(toWorker), Activates(j, x), Steady(x), gui.asked
      PROVE  Listed(j) \/ \E k \in 1..(j - 1) : toWorker[k].kind = "DeactivateSlot"
  BY <1>2 DEF ActivationsListed, Steady
<1>3. ASSUME Grown, i \in 1..Len(toWorker), Steady(x), gui.asked
      PROVE  Listed(i)' \/ \E k \in 1..(i - 1) : toWorker'[k].kind = "DeactivateSlot"
  <2>1. Activates(i, x)
    BY <1>3 DEF Activates, Grown
  <2>2. CASE Listed(i)
    BY <1>3, <2>2, ListedGrown
  <2>3. CASE \E k \in 1..(i - 1) : toWorker[k].kind = "DeactivateSlot"
    <3>1. \A k \in 1..(i - 1) : k \in 1..Len(toWorker)
      BY <1>3, <1>0
    <3> QED
      BY <1>3, <2>3, <3>1 DEF Grown
  <2> QED
    BY <1>2, <1>3, <2>1, <2>2, <2>3
<1>4. CASE Buttons
  <2>1. toGui' = toGui /\ SameButName(gui, gui') /\ Grown
    BY <1>4, ButtonsSend, ButtonsGrow
  <2>2. Steady(x) /\ gui.asked /\ gui.active_slot = x
    BY <2>1 DEF Steady, SameButName
  <2>3. CASE i \in (Len(toWorker) + 1)..Len(toWorker')
    <3>1. i - 1 \in 1..Len(toWorker') /\ toWorker'[i - 1].kind = "DeactivateSlot"
      BY <1>4, <2>2, <2>3, ButtonsGrow DEF Activates
    <3>2. i - 1 \in 1..(i - 1)
      BY <3>1
    <3> QED
      BY <3>1, <3>2
  <2>4. i \in 1..Len(toWorker) \/ i \in (Len(toWorker) + 1)..Len(toWorker')
    BY <2>1 DEF Grown
  <2> QED
    BY <1>3, <2>1, <2>2, <2>3, <2>4
<1>5. CASE GuiReceives
  <2>1. Grown
    BY <1>5, GuiGrows
  <2>2. CASE AsksForList
    <3>1. Len(toWorker') = Len(toWorker) + 1 /\ toWorker'[Len(toWorker')].kind = "ListPresets"
      BY <1>5, <2>2, GuiGrows
    <3>2. i # Len(toWorker')
      BY <3>1 DEF Activates
    <3>3. Len(toWorker') \in (i + 1)..Len(toWorker')
      BY <1>0, <3>1, <3>2
    <3> QED
      BY <3>1, <3>3 DEF Listed
  <2>3. CASE ~AsksForList
    <3>1. Steady(x) /\ gui.asked /\ toWorker' = toWorker
      BY <1>5, <2>3, GuiSteady, GuiGrows
    <3> QED
      BY <1>3, <2>1, <3>1
  <2> QED
    BY <2>2, <2>3
<1>6. CASE AudioWorker \/ WorkerDies
  <2>1. Steady(x) /\ gui' = gui /\ ~PollCrash /\ ~WorkerDies /\ ~HandleDeactivate
    BY <1>6, WorkerSteady
  <2>2. Took(toWorker[1])
    BY <1>6, <2>1, HandlerTook
  <2>3. i + 1 \in 1..Len(toWorker) /\ toWorker[i + 1] = toWorker'[i] /\ i \in Nat
    BY <2>2 DEF Took
  <2>4. Activates(i + 1, x)
    BY <2>3 DEF Activates
  <2>5. CASE Listed(i + 1)
    BY <2>2, <2>3, <2>5, ListedTook
  <2>6. ASSUME NEW k \in 1..((i + 1) - 1), toWorker[k].kind = "DeactivateSlot"
        PROVE  \E p \in 1..(i - 1) : toWorker'[p].kind = "DeactivateSlot"
    <3>1. k # 1
      <4>1. Head(toWorker) = toWorker[1]
        BY <1>6, <2>1, HandlerTakes, ActionTaken DEF QueuesTyped
      <4> QED
        BY <1>6, <2>1, <2>6, <4>1 DEF AudioWorker, HandleActivate, HandleSavePreset, HandleLoadPreset,
           HandleListPresets, HandleRequestFullState, Handles
    <3>2. PICK p \in 1..(i - 1) : k = p + 1
      <4>1. k - 1 \in 1..(i - 1) /\ k = (k - 1) + 1
        BY <3>1
      <4> QED
        BY <4>1
    <3>3. p \in 1..Len(toWorker') /\ toWorker'[p] = toWorker[k]
      BY <2>2, <3>2 DEF Took
    <3> QED
      BY <2>6, <3>3
  <2> QED
    BY <1>2, <2>1, <2>3, <2>4, <2>5, <2>6
<1>7. CASE GuiDies
  BY <1>7 DEF GuiDies, FreshGui
<1>8. CASE UNCHANGED vars
  <2>1. Grown /\ Steady(x) /\ gui.asked /\ i \in 1..Len(toWorker)
    BY <1>0, <1>8 DEF vars, Grown, Steady
  <2> QED
    BY <1>3, <2>1
<1> QED
  BY <1>1, <1>4, <1>5, <1>6, <1>7, <1>8 DEF Next, GuiWorker, Buttons

-----------------------------------------------------------------------------
(* The name shown is that of the preset asked for last *)

\* What changes neither the preset of the instance on x nor that instance.
Quiet(i, x) == toWorker[i].kind \notin {"SavePreset", "LoadPreset"} /\ ~Activates(i, x)

\* The instance on x has the preset called n, or will have it.
Stands(x, n) ==
  \/ \E i \in 1..Len(toWorker) :
       /\ toWorker[i].kind \in {"SavePreset", "LoadPreset"} /\ toWorker[i].path = PresetPath(x, n)
       /\ \A k \in (i + 1)..Len(toWorker) : Quiet(k, x)
  \/ /\ \A k \in 1..Len(toWorker) : Quiet(k, x)
     /\ active = x => last = PresetPath(x, n)

NamesStand ==
  gui.active_slot # None /\ gui.current_preset_name # None /\ Steady(gui.active_slot) =>
    Stands(gui.active_slot, gui.current_preset_name)

\* What is added does not touch the instance.
LEMMA StandsGrown ==
  ASSUME NEW x, NEW n, Stands(x, n), Grown, active' = active, last' = last,
         \A i \in (Len(toWorker) + 1)..Len(toWorker') : Quiet(i, x)'
  PROVE  Stands(x, n)'
<1>1. ASSUME NEW i \in 1..Len(toWorker), Quiet(i, x) PROVE Quiet(i, x)'
  BY <1>1 DEF Quiet, Activates, Grown
<1>2. CASE \E i \in 1..Len(toWorker) :
             /\ toWorker[i].kind \in {"SavePreset", "LoadPreset"} /\ toWorker[i].path = PresetPath(x, n)
             /\ \A k \in (i + 1)..Len(toWorker) : Quiet(k, x)
  <2>1. PICK i \in 1..Len(toWorker) :
             /\ toWorker[i].kind \in {"SavePreset", "LoadPreset"} /\ toWorker[i].path = PresetPath(x, n)
             /\ \A k \in (i + 1)..Len(toWorker) : Quiet(k, x)
    BY <1>2
  <2>2. i \in 1..Len(toWorker') /\ toWorker'[i] = toWorker[i]
    BY DEF Grown
  <2>3. ASSUME NEW k \in (i + 1)..Len(toWorker') PROVE Quiet(k, x)'
    <3>1. \/ k \in (i + 1)..Len(toWorker) /\ k \in 1..Len(toWorker)
          \/ k \in (Len(toWorker) + 1)..Len(toWorker')
      BY DEF Grown
    <3> QED
      BY <1>1, <2>1, <3>1
  <2>4. /\ toWorker'[i].kind \in {"SavePreset", "LoadPreset"} /\ toWorker'[i].path = PresetPath(x, n)
        /\ \A k \in (i + 1)..Len(toWorker') : Quiet(k, x)'
    BY <2>1, <2>2, <2>3
  <2> QED
    BY <2>2, <2>4 DEF Stands
<1>3. CASE /\ \A k \in 1..Len(toWorker) : Quiet(k, x)
           /\ active = x => last = PresetPath(x, n)
  <2>1. ASSUME NEW k \in 1..Len(toWorker') PROVE Quiet(k, x)'
    <3>1. k \in 1..Len(toWorker) \/ k \in (Len(toWorker) + 1)..Len(toWorker')
      BY DEF Grown
    <3> QED
      BY <1>1, <1>3, <3>1
  <2> QED
    BY <1>3, <2>1 DEF Stands
<1> QED
  BY <1>2, <1>3 DEF Stands

\* The worker has done what was asked for first.
LEMMA StandsTook ==
  ASSUME NEW x, NEW n, Stands(x, n), NEW a, Took(a), x # None,
         a.kind \in {"SavePreset", "LoadPreset"} => active' = active /\ (active # None => last' = a.path),
         Quiet(1, x) => active' # x \/ (active' = active /\ last' = last)
  PROVE  Stands(x, n)'
<1>1. ASSUME NEW k \in 1..Len(toWorker'), Quiet(k + 1, x) PROVE Quiet(k, x)'
  BY <1>1 DEF Quiet, Activates, Took
<1>2. ASSUME NEW i \in 1..Len(toWorker),
             toWorker[i].kind \in {"SavePreset", "LoadPreset"}, toWorker[i].path = PresetPath(x, n),
             \A k \in (i + 1)..Len(toWorker) : Quiet(k, x)
      PROVE  Stands(x, n)'
  <2>1. CASE i = 1
    <3>1. ASSUME NEW k \in 1..Len(toWorker') PROVE Quiet(k, x)'
      <4>1. k + 1 \in (i + 1)..Len(toWorker)
        BY <2>1 DEF Took
      <4> QED
        BY <1>1, <1>2, <4>1
    <3>2. active' = x => last' = PresetPath(x, n)
      BY <1>2, <2>1 DEF Took
    <3> QED
      BY <3>1, <3>2 DEF Stands
  <2>2. CASE i # 1
    <3>1. PICK p \in 1..Len(toWorker') : i = p + 1
      <4>1. i - 1 \in 1..Len(toWorker') /\ i = (i - 1) + 1
        BY <2>2 DEF Took
      <4> QED
        BY <4>1
    <3>2. toWorker'[p] = toWorker[i]
      BY <3>1 DEF Took
    <3>3. ASSUME NEW k \in (p + 1)..Len(toWorker') PROVE Quiet(k, x)'
      <4>1. k \in 1..Len(toWorker') /\ k + 1 \in (i + 1)..Len(toWorker)
        BY <3>1 DEF Took
      <4> QED
        BY <1>1, <1>2, <4>1
    <3>4. /\ toWorker'[p].kind \in {"SavePreset", "LoadPreset"} /\ toWorker'[p].path = PresetPath(x, n)
          /\ \A k \in (p + 1)..Len(toWorker') : Quiet(k, x)'
      BY <1>2, <3>2, <3>3
    <3> QED
      BY <3>4 DEF Stands
  <2> QED
    BY <2>1, <2>2
<1>3. CASE /\ \A k \in 1..Len(toWorker) : Quiet(k, x)
           /\ active = x => last = PresetPath(x, n)
  <2>1. 1 \in 1..Len(toWorker)
    BY DEF Took
  <2>2. Quiet(1, x)
    BY <1>3, <2>1
  <2>3. ASSUME NEW k \in 1..Len(toWorker') PROVE Quiet(k, x)'
    <3>1. k + 1 \in 1..Len(toWorker)
      BY DEF Took
    <3> QED
      BY <1>1, <1>3, <3>1
  <2>4. active' = x => last' = PresetPath(x, n)
    BY <1>3, <2>2
  <2> QED
    BY <2>3, <2>4 DEF Stands
<1> QED
  BY <1>2, <1>3 DEF Stands

\* A button that changes the name asks for the preset.
LEMMA ButtonsStand ==
  ASSUME HostTyped, GuiTyped, QueuesTyped, IsOwn, NamesStand, Buttons,
         NEW x, x = gui'.active_slot, x # None, NEW n, n = gui'.current_preset_name, n # None, Steady(x)'
  PROVE  Stands(x, n)'
<1>0. Len(toWorker) \in Nat
  BY DEF QueuesTyped
<1>1. toGui' = toGui /\ active' = active /\ last' = last /\ SameButName(gui, gui')
  BY ButtonsSend
<1>2. gui.active_slot = x /\ Steady(x)
  BY <1>1 DEF Steady, SameButName
<1>3. ASSUME gui' = gui, NEW a \in Actions, toWorker' = toWorker \o <<a>>,
             a.kind \notin {"SavePreset", "LoadPreset"}, a.kind = "ActivateSlot" => a.slot # x
      PROVE  Stands(x, n)'
  <2>1. Stands(x, n)
    BY <1>2, <1>3 DEF NamesStand
  <2>2. /\ Len(toWorker') = Len(toWorker) + 1 /\ toWorker'[Len(toWorker) + 1] = a
        /\ \A i \in 1..Len(toWorker) : toWorker'[i] = toWorker[i]
    BY <1>3, AddsOne
  <2>3. Grown /\ \A i \in (Len(toWorker) + 1)..Len(toWorker') : i = Len(toWorker) + 1
    BY <1>0, <2>2 DEF Grown
  <2>4. \A i \in (Len(toWorker) + 1)..Len(toWorker') : Quiet(i, x)'
    BY <1>3, <2>2, <2>3 DEF Quiet, Activates
  <2> QED
    BY <1>1, <2>1, <2>3, <2>4, StandsGrown
<1>4. ASSUME NEW slot \in Slots, SendsActivate(slot) PROVE Stands(x, n)'
  <2>1. PICK a \in Actions : a = Activate(slot)
    BY MessagesTyped
  <2>2. a.kind = "ActivateSlot" /\ a.slot # x /\ gui' = gui /\ toWorker' = toWorker \o <<a>>
    BY <1>2, <1>4, <2>1 DEF SendsActivate, Activate
  <2> QED
    BY <1>3, <2>2
<1>5. CASE SendsDeactivate
  <2>1. PICK a \in Actions : a = Deactivate
    BY MessagesTyped
  <2>2. a.kind = "DeactivateSlot" /\ gui' = gui /\ toWorker' = toWorker \o <<a>>
    BY <1>5, <2>1 DEF SendsDeactivate, Deactivate
  <2> QED
    BY <1>3, <2>2
<1>6. CASE SendsInit
  BY <1>6 DEF SendsInit
<1>7. ASSUME NEW i \in 1..Len(toWorker'), toWorker'[i].kind \in {"SavePreset", "LoadPreset"},
             toWorker'[i].path = PresetPath(x, n),
             \A k \in (i + 1)..Len(toWorker') : toWorker'[k].kind = "ListPresets"
      PROVE  Stands(x, n)'
  <2>1. \A k \in (i + 1)..Len(toWorker') : Quiet(k, x)'
    BY <1>7 DEF Quiet, Activates
  <2> QED
    BY <1>7, <2>1 DEF Stands
<1>8. ASSUME NEW name \in Names, SendsSave(name) PROVE Stands(x, n)'
  <2>1. PICK a \in Actions, b \in Actions :
          a = SavePreset(PresetPath(gui.active_slot, name), name) /\ b = ListPresets
    BY <1>8, MessagesTyped DEF SendsSave
  <2>2. /\ a.kind = "SavePreset" /\ a.path = PresetPath(x, n) /\ b.kind = "ListPresets"
        /\ toWorker' = toWorker \o <<a, b>>
    BY <1>2, <1>8, <2>1 DEF SendsSave, SavePreset, ListPresets
  <2>3. PICK i \in Nat : i = Len(toWorker) + 1
    BY <1>0
  <2>4. toWorker'[i] = a /\ toWorker'[i + 1] = b /\ Len(toWorker') = i + 1 /\ i >= 1
    BY <1>0, <2>2, <2>3, AddsTwo
  <2>5. i \in 1..Len(toWorker') /\ \A k \in (i + 1)..Len(toWorker') : k = i + 1
    BY <2>4
  <2> QED
    BY <1>7, <2>2, <2>4, <2>5
<1>9. ASSUME NEW path \in Paths, SendsLoad(path) PROVE Stands(x, n)'
  <2>1. PICK a \in Actions : a = LoadPreset(path)
    BY MessagesTyped
  <2>2. a.kind = "LoadPreset" /\ a.path = PresetPath(x, n) /\ toWorker' = toWorker \o <<a>>
    BY <1>2, <1>9, <2>1 DEF SendsLoad, LoadPreset
  <2>3. PICK i \in Nat : i = Len(toWorker) + 1
    BY <1>0
  <2>4. toWorker'[i] = a /\ Len(toWorker') = i /\ i >= 1
    BY <1>0, <2>2, <2>3, AddsOne
  <2>5. i \in 1..Len(toWorker') /\ (i + 1)..Len(toWorker') = {}
    BY <2>4
  <2> QED
    BY <1>7, <2>2, <2>4, <2>5
<1> QED
  BY <1>4, <1>5, <1>6, <1>8, <1>9, ButtonsSend

\* In process the name follows the file applied.
LEMMA AppStands ==
  ASSUME HostTyped, GuiTyped, FilesTyped, QueuesTyped, IsOwn, NamesStand, HostApp,
         NEW x, x = gui'.active_slot, x # None, NEW n, n = gui'.current_preset_name, n # None
  PROVE  Stands(x, n)'
<1>1. /\ toWorker = <<>> /\ toGui = <<>> /\ gui.active_slot = active
      /\ toWorker' = <<>> /\ toGui' = <<>> /\ active' = x
  BY AppHasNoQueues
<1>2. /\ Len(toWorker) = 0 /\ Len(toGui) = 0 /\ Len(toWorker') = 0 /\ 1..0 = {}
  BY <1>1
<1>3. ASSUME last' = PresetPath(x, n) PROVE Stands(x, n)'
  BY <1>2, <1>3 DEF Stands
<1>4. ASSUME active' = active, last' = last, gui' = gui PROVE Stands(x, n)'
  <2>1. Steady(x)
    BY <1>1, <1>2, <1>4 DEF Steady
  <2>2. Stands(x, n)
    BY <1>1, <1>4, <2>1 DEF NamesStand
  <2>3. active = x => last = PresetPath(x, n)
    BY <1>2, <2>2 DEF Stands
  <2> QED
    BY <1>1, <1>3, <1>4, <2>3
<1>5. CASE (\E slot \in Slots : AppActivate(slot)) \/ AppDeactivate \/ AppInitPreset
  BY <1>1, <1>5 DEF AppActivate, AppDeactivate, AppInitPreset, AppActivated, AppStopped
<1>6. ASSUME NEW name \in Names, AppSavePreset(name) PROVE Stands(x, n)'
  <2>1. CASE last' = last /\ gui' = gui
    BY <1>4, <1>6, <2>1 DEF AppSavePreset
  <2>2. CASE last' = PresetPath(active, name) /\ gui'.current_preset_name = name
    BY <1>1, <1>3, <1>6, <2>2 DEF AppSavePreset
  <2> QED
    BY <1>6, <2>1, <2>2 DEF AppSavePreset
<1>7. CASE AppLoadPreset \/ AppNextPreset \/ AppPrevPreset
  <2>1. PICK e \in gui.user_presets : AppLoad(e.path)
    BY <1>7 DEF AppLoadPreset, AppNextPreset, AppPrevPreset, NextEntry, PrevEntry, Stepped
  <2>2. active' = active
    BY <2>1 DEF AppLoad
  <2>3. e.path \in Paths /\ e.path[1] = x
    BY <1>1, <2>2, EntryPath DEF IsOwn, OfSlot
  <2>4. last' = e.path /\ n = files[e.path] /\ files[e.path] \in Names
    BY <2>1 DEF AppLoad, GuiTyped
  <2>5. e.path = PresetPath(x, n)
    BY <2>3, <2>4 DEF FilesTyped
  <2> QED
    BY <1>3, <2>4, <2>5
<1> QED
  BY <1>5, <1>6, <1>7 DEF HostApp

\* No step leaves the name of a preset to an instance without it.
LEMMA NamesStandStep ==
  ASSUME HostTyped, GuiTyped, FilesTyped, QueuesTyped, IsOwn, ToldAll, NamesStand, [Next]_vars
  PROVE  NamesStand'
<1> SUFFICES ASSUME NEW x, x = gui'.active_slot, x # None, NEW n, n = gui'.current_preset_name, n # None,
                    Steady(x)'
             PROVE  Stands(x, n)'
  BY DEF NamesStand
<1>1. CASE HostApp
  BY <1>1, AppStands
<1>2. CASE Buttons
  BY <1>2, ButtonsStand
<1>3. ASSUME Steady(x), gui.current_preset_name = n PROVE Stands(x, n)
  BY <1>3 DEF NamesStand, Steady
<1>4. CASE GuiReceives
  <2>1. Steady(x) /\ gui.current_preset_name = n /\ ~AsksForList
    BY <1>4, GuiSteady
  <2>2. toWorker' = toWorker /\ active' = active /\ last' = last /\ Grown
    BY <1>4, <2>1, GuiGrows, GuiApplies
  <2>3. (Len(toWorker) + 1)..Len(toWorker') = {}
    BY <2>2 DEF Grown
  <2> QED
    BY <1>3, <2>1, <2>2, <2>3, StandsGrown
<1>5. CASE AudioWorker \/ WorkerDies
  <2>1. Steady(x) /\ gui' = gui /\ ~PollCrash /\ ~WorkerDies /\ ~HandleDeactivate
    BY <1>5, WorkerSteady
  <2>2. PICK a \in Actions : a = toWorker[1] /\ Took(a)
    BY <1>5, <2>1, HandlerTook DEF Took
  <2>3. Head(toWorker) = a
    BY <1>5, <2>1, <2>2, HandlerTakes, ActionTaken DEF QueuesTyped
  <2>4. Stands(x, n)
    BY <1>3, <2>1
  <2>5. Quiet(1, x) => a.kind \notin {"SavePreset", "LoadPreset"} /\ ~(a.kind = "ActivateSlot" /\ a.slot = x)
    BY <2>2 DEF Quiet, Activates
  <2>6. CASE HandleActivate
    <3>1. a.kind = "ActivateSlot" /\ active' \in {a.slot, None}
      BY <2>3, <2>6 DEF HandleActivate, Handles
    <3>2. Quiet(1, x) => active' # x
      BY <2>5, <3>1
    <3> QED
      BY <2>2, <2>4, <3>1, <3>2, StandsTook
  <2>7. CASE HandleSavePreset \/ HandleLoadPreset
    <3>1. /\ a.kind \in {"SavePreset", "LoadPreset"} /\ active' = active
          /\ active # None => last' = a.path
      BY <2>3, <2>7 DEF HandleSavePreset, HandleLoadPreset, Handles
    <3> QED
      BY <2>2, <2>4, <2>5, <3>1, StandsTook
  <2>8. CASE HandleListPresets \/ HandleRequestFullState
    <3>1. a.kind \in {"ListPresets", "RequestFullState"} /\ active' = active /\ last' = last
      BY <2>3, <2>8 DEF HandleListPresets, HandleRequestFullState, Handles
    <3> QED
      BY <2>2, <2>4, <2>5, <3>1, StandsTook
  <2> QED
    BY <1>5, <2>1, <2>6, <2>7, <2>8 DEF AudioWorker
<1>6. CASE GuiDies
  BY <1>6 DEF GuiDies, FreshGui
<1>7. CASE UNCHANGED vars
  <2>1. Steady(x) /\ gui.current_preset_name = n
    BY <1>7 DEF vars, Steady
  <2> QED
    BY <1>3, <1>7, <2>1 DEF vars, Stands, Quiet, Activates
<1> QED
  BY <1>1, <1>2, <1>4, <1>5, <1>6, <1>7 DEF Next, GuiWorker, Buttons

-----------------------------------------------------------------------------
(* The list shown is that of the files, or will be *)

\* The list has the presets of x and nothing but them and what a save lost.
Good(list, x) ==
  /\ list_user_presets(files, x) \subseteq list
  /\ \A entry \in list \ list_user_presets(files, x) : files[entry.path] = Torn

\* The list the GUI will show when all it is told of has come: its own, for 0,
\* or the one in the last PresetList.
ListAt(j) == IF j = 0 THEN gui.user_presets ELSE toGui[j].list
Latest(j) ==
  /\ j # 0 => toGui[j].kind = "PresetList"
  /\ \A i \in (j + 1)..Len(toGui) : toGui[i].kind # "PresetList"

ListGood(x) == \E j \in 0..Len(toGui) : Latest(j) /\ Good(ListAt(j), x)

ListStands ==
  gui.asked /\ active # None /\ Steady(active) => Listed(0) \/ ListGood(active)

\* A save in the same process lists at once, or loses one preset.
LEMMA AppListStands ==
  ASSUME HostTyped, GuiTyped, FilesTyped, QueuesTyped, IsOwn, ListStands, HostApp,
         gui'.asked, NEW x, x = active', x # None
  PROVE  ListGood(x)'
<1>1. /\ toWorker = <<>> /\ toGui = <<>> /\ gui.active_slot = active
      /\ toWorker' = <<>> /\ toGui' = <<>>
  BY AppHasNoQueues
<1>2. /\ Len(toWorker) = 0 /\ Len(toGui) = 0 /\ Len(toGui') = 0 /\ 1..0 = {} /\ 0..0 = {0} /\ 0 + 1 = 1
  BY <1>1
<1>3. ASSUME Good(gui.user_presets, x)' PROVE ListGood(x)'
  BY <1>2, <1>3 DEF ListGood, Latest, ListAt, Good
<1>4. ASSUME gui.asked, active # None PROVE Good(gui.user_presets, active)
  <2>1. Steady(active) /\ ~Listed(0)
    BY <1>1, <1>2 DEF Steady, Listed
  <2> QED
    BY <1>2, <1>4, <2>1 DEF ListStands, ListGood, ListAt
<1>5. CASE (\E slot \in Slots : AppActivate(slot)) \/ AppDeactivate \/ AppInitPreset
  <2>1. PICK slot : AppActivated(slot) /\ files' = files
    BY <1>5 DEF AppActivate, AppDeactivate, AppInitPreset, AppStopped
  <2> QED
    BY <1>3, <2>1 DEF AppActivated, Good
<1>6. ASSUME NEW name \in Names, AppSavePreset(name) PROVE ListGood(x)'
  <2>1. active' = active /\ active \in Slots
    BY <1>6 DEF AppSavePreset, AppToolbar, HostTyped
  <2>2. PICK path \in Paths : path = PresetPath(active, name)
    BY <2>1, PathTyped
  <2>3. CASE gui'.user_presets = list_user_presets(files', active)
    BY <1>3, <2>1, <2>3 DEF Good
  <2>4. CASE files' = files /\ gui' = gui
    BY <1>3, <1>4, <2>1, <2>4 DEF Good
  <2>5. CASE files' = [files EXCEPT ![path] = Torn] /\ gui' = gui
    <3>1. \A p \in Paths : files'[p] = IF p = path THEN Torn ELSE files[p]
      BY <2>5 DEF FilesTyped
    <3>2. \A e \in list_user_presets(files', active) : e \in list_user_presets(files, active)
      BY <3>1, PresetsAssumption DEF list_user_presets
    <3>3. \A e \in gui.user_presets : e.path \in Paths
      BY DEF GuiTyped, Entries
    <3>4. ASSUME NEW e \in list_user_presets(files, active), e.path # path
          PROVE  e \in list_user_presets(files', active)
      BY <3>1, <3>4 DEF list_user_presets
    <3>5. Good(gui.user_presets, active)
      BY <1>4, <2>1, <2>5, NoneIsNone
    <3>6. ASSUME NEW e \in gui.user_presets, e \notin list_user_presets(files', active)
          PROVE  files'[e.path] = Torn
      BY <3>1, <3>3, <3>4, <3>5, <3>6 DEF Good
    <3> QED
      BY <1>3, <2>1, <2>5, <3>2, <3>5, <3>6 DEF Good
  <2> QED
    BY <1>6, <2>2, <2>3, <2>4, <2>5 DEF AppSavePreset, save_to_file, Outcomes
<1>7. CASE AppLoadPreset \/ AppNextPreset \/ AppPrevPreset
  <2>1. PICK path : AppLoad(path)
    BY <1>7 DEF AppLoadPreset, AppNextPreset, AppPrevPreset
  <2>2. /\ files' = files /\ active' = active /\ gui'.user_presets = gui.user_presets
        /\ gui'.asked = gui.asked
    BY <2>1 DEF AppLoad, GuiTyped
  <2> QED
    BY <1>3, <1>4, <2>2 DEF Good
<1> QED
  BY <1>5, <1>6, <1>7 DEF HostApp

\* A report that is no list, and a list of what the files hold now.
LEMMA WorkerListStands ==
  ASSUME HostTyped, GuiTyped, FilesTyped, QueuesTyped, IsOwn, ToldAll, SavesListed, ActivationsListed,
         ListStands, AudioWorker \/ WorkerDies, gui'.asked, NEW x, x = active', x # None, Steady(x)'
  PROVE  Listed(0)' \/ ListGood(x)'
<1>1. Steady(x) /\ gui' = gui /\ ~PollCrash /\ ~WorkerDies /\ ~HandleDeactivate /\ gui.active_slot = x
  BY WorkerSteady DEF Steady
<1>2. PICK a \in Actions : a = toWorker[1] /\ Took(a)
  BY <1>1, HandlerTook DEF Took
<1>3. Head(toWorker) = a
  BY <1>1, <1>2, HandlerTakes, ActionTaken DEF QueuesTyped
<1>4. 1 \in 1..Len(toWorker) /\ 1..(1 - 1) = {} /\ 0 \in Nat /\ 0 + 1 = 1
  BY <1>2 DEF Took
<1>5. Listed(1) => Listed(0)'
  BY <1>2, <1>4, ListedTook
<1>6. CASE HandleActivate
  <2>1. Activates(1, x)
    BY <1>1, <1>2, <1>3, <1>6 DEF HandleActivate, Handles, Activates
  <2> QED
    BY <1>1, <1>4, <1>5, <2>1 DEF ActivationsListed
<1>7. CASE HandleSavePreset
  <2>1. toWorker[1].kind = "SavePreset"
    BY <1>2, <1>3, <1>7 DEF HandleSavePreset, Handles
  <2> QED
    BY <1>1, <1>4, <1>5, <2>1 DEF SavesListed
<1>8. CASE HandleListPresets
  <2>1. active' = active /\ files' = files /\ Reports(PresetList(list_user_presets(files, active)))
    BY <1>8 DEF HandleListPresets, Handled, Reports
  <2>2. PICK u \in Updates : u = PresetList(list_user_presets(files, active))
    BY ListTyped, MessagesTyped
  <2>3. PICK j \in Nat : j = Len(toGui')
    BY <2>1, <2>2, ReportsKeep
  <2>4. toGui'[j] = u /\ j # 0 /\ j \in 0..Len(toGui') /\ (j + 1)..Len(toGui') = {}
    BY <2>1, <2>2, <2>3, ReportsKeep
  <2>5. u.kind = "PresetList" /\ u.list = list_user_presets(files', x)
    BY <2>1, <2>2 DEF PresetList
  <2>6. Good(u.list, x)'
    BY <2>5, <2>2, <2>1 DEF Good, PresetList
  <2> QED
    BY <2>4, <2>5, <2>6 DEF ListGood, Latest, ListAt, Good
<1>9. ASSUME a.kind # "ListPresets", active' = active, files' = files, Keeps,
             \A k \in (Len(toGui) + 1)..Len(toGui') : toGui'[k].kind # "PresetList"
      PROVE  Listed(0)' \/ ListGood(x)'
  <2>1. Listed(0) \/ ListGood(x)
    BY <1>1, <1>9 DEF ListStands
  <2>2. CASE Listed(0)
    <3>1. PICK k \in 1..Len(toWorker) : toWorker[k].kind = "ListPresets"
      BY <1>4, <2>2 DEF Listed
    <3>2. k # 1
      BY <1>2, <1>9, <3>1
    <3>3. k \in 2..Len(toWorker) /\ 1 + 1 = 2
      BY <3>2
    <3> QED
      BY <1>5, <3>1, <3>3 DEF Listed
  <2>3. CASE ListGood(x)
    <3>1. PICK j \in 0..Len(toGui) : Latest(j) /\ Good(ListAt(j), x)
      BY <2>3 DEF ListGood
    <3>2. Len(toGui) \in Nat
      BY DEF QueuesTyped
    <3>3. j \in 0..Len(toGui') /\ j \in Nat /\ (j # 0 => toGui'[j] = toGui[j])
      BY <1>9, <3>2 DEF Keeps
    <3>4. ASSUME NEW i \in (j + 1)..Len(toGui') PROVE toGui'[i].kind # "PresetList"
      <4>1. i \in (j + 1)..Len(toGui) \/ i \in (Len(toGui) + 1)..Len(toGui')
        BY <1>9, <3>2, <3>3 DEF Keeps
      <4>2. i \in (j + 1)..Len(toGui) => toGui'[i] = toGui[i]
        BY <1>9, <3>2, <3>3 DEF Keeps
      <4> QED
        BY <1>9, <3>1, <4>1, <4>2 DEF Latest
    <3>5. Latest(j)'
      BY <3>1, <3>3, <3>4 DEF Latest
    <3>6. Good(ListAt(j), x)'
      BY <1>1, <1>9, <3>1, <3>3 DEF Good, ListAt
    <3> QED
      BY <3>3, <3>5, <3>6 DEF ListGood
  <2> QED
    BY <2>1, <2>2, <2>3
<1>10. Keeps
  BY <1>1, HandlerKeeps
<1>11. CASE HandleLoadPreset
  <2>1. a.kind = "LoadPreset" /\ toGui' = toGui /\ active' = active /\ files' = files
    BY <1>1, <1>3, <1>11, HandlerTakes DEF HandleLoadPreset, Handles, HandleActivate, HandleDeactivate,
       HandleListPresets, HandleRequestFullState
  <2>2. (Len(toGui) + 1)..Len(toGui') = {}
    BY <2>1 DEF QueuesTyped
  <2> QED
    BY <1>9, <1>10, <2>1, <2>2
<1>12. CASE HandleRequestFullState
  <2>1. a.kind = "RequestFullState" /\ Reports(FullState(active)) /\ active' = active /\ files' = files
    BY <1>3, <1>12 DEF HandleRequestFullState, Handles, Handled, Reports
  <2>2. PICK u \in Updates : u = FullState(active) /\ u.kind = "FullState"
    BY MessagesTyped DEF HostTyped, FullState
  <2>3. \A k \in (Len(toGui) + 1)..Len(toGui') : toGui'[k] = u
    BY <2>1, <2>2, ReportsKeep
  <2> QED
    BY <1>9, <1>10, <2>1, <2>2, <2>3
<1> QED
  BY <1>1, <1>6, <1>7, <1>8, <1>11, <1>12 DEF AudioWorker

\* A list is taken over, and asked for when the slot is another.
LEMMA GuiListStands ==
  ASSUME HostTyped, GuiTyped, QueuesTyped, ToldAll, ListStands, GuiReceives,
         gui'.asked, NEW x, x = active', x # None, Steady(x)'
  PROVE  Listed(0)' \/ ListGood(x)'
<1>1. /\ toGui # <<>> /\ toGui' = Tail(toGui) /\ files' = files /\ active' = active
  BY GuiApplies
<1>2. PICK l \in Nat : Len(toGui) = l + 1 /\ Len(toGui') = l /\ \A i \in 1..l : toGui'[i] = toGui[i + 1]
  <2>1. /\ Len(toGui) - 1 \in Nat /\ Len(toGui) = (Len(toGui) - 1) + 1
        /\ Len(toGui') = Len(toGui) - 1 /\ \A i \in 1..(Len(toGui) - 1) : toGui'[i] = toGui[i + 1]
    BY <1>1, UpdateTaken DEF QueuesTyped
  <2> QED
    BY <2>1
<1>3. CASE AsksForList
  <2>1. /\ Len(toWorker') = Len(toWorker) + 1 /\ toWorker'[Len(toWorker')].kind = "ListPresets"
        /\ Len(toWorker) \in Nat
    BY <1>3, GuiGrows DEF Grown
  <2>2. Len(toWorker') \in (0 + 1)..Len(toWorker')
    BY <2>1
  <2> QED
    BY <2>1, <2>2 DEF Listed
<1>4. CASE ~AsksForList
  <2>1. /\ Steady(x) /\ gui.asked /\ toWorker' = toWorker
        /\ toGui[1].kind # "PresetList" => gui'.user_presets = gui.user_presets
        /\ toGui[1].kind = "PresetList" => gui'.user_presets = toGui[1].list
    BY <1>4, GuiSteady, GuiGrows
  <2>2. Listed(0) \/ ListGood(x)
    BY <1>1, <2>1 DEF ListStands
  <2>3. Listed(0) => Listed(0)'
    BY <2>1 DEF Listed
  <2>4. ASSUME NEW j \in 0..Len(toGui), Latest(j), Good(ListAt(j), x) PROVE ListGood(x)'
    <3>1. ASSUME NEW p \in 0..l, ListAt(p)' = ListAt(j), p # 0 => j = p + 1,
                 p = 0 => j \in {0, 1}
          PROVE  ListGood(x)'
      <4>1. ASSUME NEW i \in (p + 1)..l PROVE toGui'[i].kind # "PresetList"
        <5>1. toGui'[i] = toGui[i + 1] /\ i + 1 \in (j + 1)..Len(toGui)
          BY <1>2, <3>1
        <5> QED
          BY <2>4, <5>1 DEF Latest
      <4>2. p # 0 => toGui'[p].kind = "PresetList"
        BY <1>2, <2>4, <3>1 DEF Latest
      <4>3. Latest(p)'
        BY <1>2, <4>1, <4>2 DEF Latest
      <4>4. Good(ListAt(p), x)'
        BY <1>1, <2>4, <3>1 DEF Good
      <4> QED
        BY <1>2, <4>3, <4>4 DEF ListGood
    <3>2. CASE j = 0
      <4>1. 1 \in (j + 1)..Len(toGui)
        BY <1>2, <3>2
      <4>2. gui'.user_presets = gui.user_presets
        BY <2>1, <2>4, <4>1 DEF Latest
      <4> QED
        BY <3>1, <3>2, <4>2 DEF ListAt
    <3>3. CASE j = 1
      <4>1. gui'.user_presets = toGui[1].list
        BY <2>1, <2>4, <3>3 DEF Latest
      <4> QED
        BY <3>1, <3>3, <4>1 DEF ListAt
    <3>4. CASE j \in 2..(l + 1)
      <4>1. PICK p \in 1..l : j = p + 1
        <5>1. j - 1 \in 1..l /\ j = (j - 1) + 1
          BY <3>4
        <5> QED
          BY <5>1
      <4>2. ListAt(p)' = ListAt(j)
        BY <1>2, <4>1 DEF ListAt
      <4> QED
        BY <3>1, <4>1, <4>2
    <3> QED
      BY <1>2, <3>2, <3>3, <3>4
  <2> QED
    BY <2>2, <2>3, <2>4 DEF ListGood
<1> QED
  BY <1>3, <1>4

\* No step leaves the GUI with a list nobody will mend.
LEMMA ListStandsStep ==
  ASSUME HostTyped, GuiTyped, FilesTyped, QueuesTyped, IsOwn, ToldAll, SavesListed, ActivationsListed,
         ListStands, [Next]_vars
  PROVE  ListStands'
<1> SUFFICES ASSUME gui'.asked, NEW x, x = active', x # None, Steady(x)'
             PROVE  Listed(0)' \/ ListGood(x)'
  BY DEF ListStands
<1>1. CASE HostApp
  BY <1>1, AppListStands
<1>2. CASE Buttons
  <2>1. /\ toGui' = toGui /\ active' = active /\ files' = files /\ SameButName(gui, gui') /\ Grown
    BY <1>2, ButtonsSend, ButtonsGrow
  <2>2. Steady(x) /\ gui.asked /\ gui'.user_presets = gui.user_presets
    BY <2>1 DEF Steady, SameButName
  <2>3. Listed(0) \/ ListGood(x)
    BY <2>1, <2>2 DEF ListStands
  <2>4. ListGood(x) => ListGood(x)'
    BY <2>1, <2>2 DEF ListGood, Latest, ListAt, Good
  <2>5. Listed(0) => Listed(0)'
    <3>1. \A k \in (0 + 1)..Len(toWorker) : k \in (0 + 1)..Len(toWorker') /\ k \in 1..Len(toWorker)
      BY <2>1 DEF Grown
    <3> QED
      BY <2>1, <3>1 DEF Listed, Grown
  <2> QED
    BY <2>3, <2>4, <2>5
<1>3. CASE GuiReceives
  BY <1>3, GuiListStands
<1>4. CASE AudioWorker \/ WorkerDies
  BY <1>4, WorkerListStands
<1>5. CASE GuiDies
  BY <1>5 DEF GuiDies, FreshGui
<1>6. CASE UNCHANGED vars
  <2>1. Steady(x) /\ gui.asked /\ active = x
    BY <1>6 DEF vars, Steady
  <2> QED
    BY <1>6, <2>1 DEF vars, ListStands, Listed, ListGood, Latest, ListAt, Good
<1> QED
  BY <1>1, <1>2, <1>3, <1>4, <1>5, <1>6 DEF Next, GuiWorker, Buttons

-----------------------------------------------------------------------------
(* Theorems *)

TypesHold == HostTyped /\ GuiTyped /\ FilesTyped /\ QueuesTyped

IInv ==
  /\ TypesHold
  /\ IsOwn /\ ToldAll
  /\ SavesListed /\ ActivationsListed
  /\ ListStands /\ NamesStand

\* A host with nothing active and nothing under way has it all.
LEMMA IInvInit ==
  ASSUME Init
  PROVE  IInv
<1>1. /\ host \in {"process", "workers"}
      /\ active = None /\ gui = FreshGui /\ toWorker = <<>> /\ toGui = <<>>
      /\ files = [path \in Paths |-> None]
  BY PresetsAssumption DEF Init
<1>2. /\ gui.active_slot = None /\ gui.user_presets = {} /\ gui.current_preset_name = None /\ ~gui.asked
      /\ GuiTyped
  BY <1>1 DEF FreshGui, GuiTyped
<1>3. HostTyped
  BY <1>1, <1>2 DEF HostTyped
<1>4. FilesTyped
  BY <1>1, NoneIsNone DEF FilesTyped
<1>5. QueuesTyped /\ Len(toGui) = 0 /\ Len(toWorker) = 0
  BY <1>1 DEF QueuesTyped
<1>6. IsOwn /\ ToldAll
  BY <1>1, <1>2, <1>5 DEF IsOwn, ToldAll
<1>7. SavesListed /\ ActivationsListed /\ ListStands /\ NamesStand
  BY <1>1, <1>2 DEF SavesListed, ActivationsListed, ListStands, NamesStand
<1> QED
  BY <1>2, <1>3, <1>4, <1>5, <1>6, <1>7 DEF IInv, TypesHold

\* Every step of either host, and every death, keeps it.
LEMMA IInvStep ==
  ASSUME IInv, [Next]_vars
  PROVE  IInv'
<1>1. /\ HostTyped /\ GuiTyped /\ FilesTyped /\ QueuesTyped /\ IsOwn /\ ToldAll
      /\ SavesListed /\ ActivationsListed /\ ListStands /\ NamesStand
  BY DEF IInv, TypesHold
<1>2. TypesHold'
  BY <1>1, HostTypedStep, GuiTypedStep, FilesTypedStep, QueuesTypedStep DEF TypesHold
<1>3. IsOwn' /\ ToldAll'
  BY <1>1, ToldStep
<1>4. SavesListed' /\ ActivationsListed'
  BY <1>1, SavesListedStep, ActivationsListedStep
<1>5. ListStands' /\ NamesStand'
  BY <1>1, ListStandsStep, NamesStandStep
<1> QED
  BY <1>2, <1>3, <1>4, <1>5 DEF IInv

\* In every reachable state.
LEMMA IInvHolds == Spec => []IInv
<1>1. Init => IInv
  BY IInvInit
<1>2. IInv /\ [Next]_vars => IInv'
  BY IInvStep
<1> QED
  BY <1>1, <1>2, PTL DEF Spec

\* Every message is one the other side knows, a file's name is made of the name
\* in it, and what the GUI offers is named as the file is.
THEOREM TypeCorrect == Spec => []TypesHold
<1>1. IInv => TypesHold
  BY DEF IInv
<1> QED
  BY <1>1, IInvHolds, PTL

\* What is offered below the toolbar is the active plugin's own, whatever
\* updates are under way and however often the processes die.
THEOREM OwnPresetsOffered == Spec => []ListIsOwn
<1>1. IInv => ListIsOwn
  BY DEF IInv, IsOwn, OfSlot, ListIsOwn, Toolbar
<1> QED
  BY <1>1, IInvHolds, PTL

\* Once no message is under way, every preset that can be loaded is offered.
THEOREM AllPresetsOffered == Spec => []ListComplete
<1>1. ASSUME IInv PROVE ListComplete
  <2> SUFFICES ASSUME Settled, gui.asked
               PROVE  Good(gui.user_presets, active)
    BY DEF ListComplete, Good
  <2>1. /\ Len(toWorker) = 0 /\ Len(toGui) = 0 /\ gui.active_slot = active /\ active # None
        /\ (0 + 1)..0 = {} /\ 1..0 = {} /\ 0..0 = {0}
    BY DEF Settled, Toolbar
  <2>2. Steady(active) /\ ~Listed(0)
    BY <2>1 DEF Steady, Listed
  <2>3. ListGood(active)
    BY <1>1, <2>1, <2>2 DEF IInv, ListStands
  <2> QED
    BY <2>1, <2>3 DEF ListGood, ListAt
<1> QED
  BY <1>1, IInvHolds, PTL

\* Once no message is under way, the preset named is the one the instance that
\* runs was last asked to load or save.
THEOREM NameShownIsApplied == Spec => []NameIsOfInstance
<1>1. ASSUME IInv PROVE NameIsOfInstance
  <2> SUFFICES ASSUME Settled, gui.current_preset_name # None
               PROVE  last = PresetPath(active, gui.current_preset_name)
    BY DEF NameIsOfInstance
  <2>1. /\ Len(toWorker) = 0 /\ Len(toGui) = 0 /\ gui.active_slot = active /\ active # None /\ 1..0 = {}
    BY DEF Settled, Toolbar
  <2>2. Steady(active)
    BY <2>1 DEF Steady
  <2>3. Stands(active, gui.current_preset_name)
    BY <1>1, <2>1, <2>2 DEF IInv, NamesStand
  <2> QED
    BY <2>1, <2>3 DEF Stands
<1> QED
  BY <1>1, IInvHolds, PTL

-----------------------------------------------------------------------------
(* HostFiles: the configuration survives its writers, for any number of    *)
(* processes and directories.                                              *)

\* A process that updates the configuration does nothing else until it ends, and
\* no other process writes that file; what is to be written is known by then.
TasksInv ==
  \A p \in Procs :
    /\ Updating(p) => /\ task[p].step \in {"load", "open", "write"}
                      /\ task[p].dir \in Spellings
                      /\ task[p].file = "config"
    /\ ~Updating(p) => task[p].file # "config" /\ task[p].step # "load"
    /\ task[p].step \in {"scanning", "open", "write"} =>
         task[p].file \in {"config", "cache"} /\ task[p].content \in SUBSET Spellings

\* As long as no update was lost or disturbed: at most one is under way, the file
\* has what was kept, and the update is about to make it what will be kept.
KeptInv ==
  kept # Nothing =>
    /\ \A p, q \in Procs : Updating(p) /\ Updating(q) => p = q
    /\ \A p \in Procs : Updating(p) => normalize_path(task[p].dir) = canonical[task[p].dir]
    /\ (\A p \in Procs : ~(Updating(p) /\ IsAt(p, "write"))) => store.config # Unparsable /\ load = kept
    /\ \A p \in Procs : Updating(p) /\ IsAt(p, "open") => task[p].content = KeptBy(p)
    /\ \A p \in Procs : Updating(p) /\ IsAt(p, "write") =>
         store.config = Unparsable /\ task[p].content = KeptBy(p)

FilesInv == FilesTypeOK /\ TasksInv
-----------------------------------------------------------------------------

LEMMA NoTaskType == NoTask \in Tasks /\ GuiShown \in Tasks /\ ~(NoTask.command \in {"add", "remove"})
  /\ GuiShown.command = "gui" /\ GuiShown.file = "none" /\ GuiShown.step = "shown"
  /\ NoTask.file = "none" /\ NoTask.step = "idle" /\ NoTask.command = "none"
BY DEF NoTask, GuiShown, Task, Tasks

LEMMA LoadType == ASSUME FilesTypeOK PROVE load \in SUBSET Spellings
BY HostFilesAssumption DEF FilesTypeOK, load, Spellings

LEMMA NormalType ==
  ASSUME NEW s \in Spellings
  PROVE  normalize_path(s) \in Spellings /\ canonical[s] \in Dirs
BY HostFilesAssumption DEF normalize_path, Spellings

\* A process that changes to an idle or shown task.
LEMMA EndsKeeps ==
  ASSUME FilesInv, NEW p \in Procs, Ends(p)
  PROVE  task' \in [Procs -> Tasks] /\ TasksInv'
<1>1. task'[p] \in {NoTask, GuiShown} /\ \A q \in Procs \ {p} : task'[q] = task[q]
  BY DEF Ends, FilesInv, FilesTypeOK
<1>2. task' \in [Procs -> Tasks]
  BY NoTaskType DEF Ends, FilesInv, FilesTypeOK
<1>3. ASSUME NEW q \in Procs PROVE task'[q] = task[q] \/ task'[q] \in {NoTask, GuiShown}
  BY <1>1
<1> QED
  BY <1>2, <1>3, NoTaskType DEF TasksInv, Updating, FilesInv

\* A process that goes on to another step of the same command.
LEMMA GoesKeeps ==
  ASSUME FilesInv, NEW p \in Procs, NEW step \in {"open", "write"},
         NEW content \in SUBSET Spellings, Goes(p, step, content),
         task[p].file \in {"config", "cache"}
  PROVE  task' \in [Procs -> Tasks] /\ TasksInv'
<1>1. /\ task'[p].step = step /\ task'[p].content = content
      /\ task'[p].command = task[p].command /\ task'[p].dir = task[p].dir
      /\ task'[p].file = task[p].file
      /\ task'[p] \in Tasks
  BY DEF Goes, Task, FilesInv, FilesTypeOK, Tasks
<1>2. \A q \in Procs \ {p} : task'[q] = task[q]
  BY DEF Goes, FilesInv, FilesTypeOK
<1>3. task' \in [Procs -> Tasks]
  BY <1>1 DEF Goes, FilesInv, FilesTypeOK
<1>4. ASSUME NEW q \in Procs
      PROVE  /\ Updating(q)' <=> Updating(q)
             /\ q = p \/ task'[q] = task[q]
  BY <1>1, <1>2 DEF Updating
<1>5. TasksInv'
  <2> SUFFICES ASSUME NEW q \in Procs
               PROVE  /\ Updating(q)' => /\ task'[q].step \in {"load", "open", "write"}
                                         /\ task'[q].dir \in Spellings
                                         /\ task'[q].file = "config"
                      /\ ~Updating(q)' => task'[q].file # "config" /\ task'[q].step # "load"
                      /\ task'[q].step \in {"scanning", "open", "write"} =>
                           task'[q].file \in {"config", "cache"} /\ task'[q].content \in SUBSET Spellings
    BY DEF TasksInv
  <2>1. CASE q = p
    BY <1>1, <1>4, <2>1 DEF FilesInv, TasksInv
  <2>2. CASE q # p
    BY <1>4, <2>2 DEF FilesInv, TasksInv
  <2> QED
    BY <2>1, <2>2
<1> QED
  BY <1>3, <1>5

\* A process that starts something.
LEMMA StartKeeps ==
  ASSUME FilesInv, NEW p \in Procs, NEW t \in Tasks, task' = [task EXCEPT ![p] = t],
         t.command \in {"add", "remove"} => t.step = "load" /\ t.dir \in Spellings /\ t.file = "config",
         t.command \notin {"add", "remove"} => t.file # "config" /\ t.step # "load",
         t.step \in {"scanning", "open", "write"} =>
           t.file \in {"config", "cache"} /\ t.content \in SUBSET Spellings
  PROVE  task' \in [Procs -> Tasks] /\ TasksInv'
<1>1. task'[p] = t /\ \A q \in Procs \ {p} : task'[q] = task[q]
  BY DEF FilesInv, FilesTypeOK
<1>2. task' \in [Procs -> Tasks]
  BY DEF FilesInv, FilesTypeOK
<1>3. TasksInv'
  BY <1>1 DEF FilesInv, TasksInv, Updating
<1> QED
  BY <1>2, <1>3

LEMMA KeptByType ==
  ASSUME FilesInv, NEW p \in Procs
  PROVE  KeptBy(p) \in (SUBSET Dirs) \cup {Nothing}
<1>1. Updating(p) => canonical[task[p].dir] \in Dirs
  BY NormalType DEF FilesInv, TasksInv
<1> QED
  BY <1>1 DEF KeptBy, Updating, FilesInv, FilesTypeOK

LEMMA UpdatedType ==
  ASSUME FilesInv, NEW s \in Spellings
  PROVE  add_scan_path(s) \in SUBSET Spellings /\ remove_scan_path(s) \in SUBSET Spellings
BY LoadType, NormalType DEF FilesInv, add_scan_path, remove_scan_path, Same

LEMMA BundlesType ==
  ASSUME FilesInv, NEW paths \in SUBSET Spellings
  PROVE  discover_bundles(paths) \in SUBSET Spellings /\ SearchPaths(paths) \in SUBSET Spellings
<1>1. discover_bundles(paths) \subseteq Dirs
  BY DEF discover_bundles, FilesInv, FilesTypeOK
<1>2. SearchPaths(paths) \in SUBSET Spellings
  BY LoadType, HostFilesAssumption DEF SearchPaths, Spellings, FilesInv
<1> QED
  BY <1>1, <1>2 DEF Spellings

-----------------------------------------------------------------------------
(* Types, and who writes what *)

LEMMA FilesStart == ASSUME FilesInit PROVE FilesInv /\ KeptInv
<1>1. FilesTypeOK
  BY NoTaskType DEF FilesInit, FilesTypeOK
<1>2. TasksInv /\ \A p \in Procs : ~Updating(p)
  BY NoTaskType DEF FilesInit, TasksInv, Updating
<1>3. load = {} /\ store.config # Unparsable
  BY HostFilesAssumption DEF FilesInit, load
<1> QED
  BY <1>1, <1>2, <1>3 DEF FilesInv, KeptInv, FilesInit

LEMMA TaskType ==
  ASSUME NEW command \in {"add", "remove", "scan", "gui"}, NEW step \in {"load", "scanning"},
         NEW dir \in Spellings \cup {Nothing}, NEW file \in {"config", "cache"},
         NEW content \in (SUBSET Spellings) \cup {Nothing}
  PROVE  /\ Task(command, step, dir, file, content) \in Tasks
         /\ Task(command, step, dir, file, content).command = command
         /\ Task(command, step, dir, file, content).step = step
         /\ Task(command, step, dir, file, content).dir = dir
         /\ Task(command, step, dir, file, content).file = file
         /\ Task(command, step, dir, file, content).content = content
BY DEF Task, Tasks

LEMMA FilesStep == ASSUME FilesInv, [FilesNext]_files_vars PROVE FilesInv'
<1> USE DEF FilesInv
<1>1. CASE UNCHANGED files_vars
  BY <1>1 DEF files_vars, FilesTypeOK, TasksInv, Updating
<1>2. ASSUME NEW p \in Procs, SaveRefused(p) PROVE FilesInv'
  <2>1. task' \in [Procs -> Tasks] /\ TasksInv'
    BY <1>2, EndsKeeps DEF SaveRefused
  <2> QED
    BY <1>2, <2>1 DEF SaveRefused, FilesTypeOK
<1>3. ASSUME NEW p \in Procs, Open(p) PROVE FilesInv'
  <2>1. task[p].file \in {"config", "cache"} /\ task[p].content \in SUBSET Spellings
    BY <1>3 DEF Open, IsAt, TasksInv
  <2>2. task' \in [Procs -> Tasks] /\ TasksInv'
    BY <1>3, <2>1, GoesKeeps DEF Open
  <2>3. store' \in [{"config", "cache"} -> (SUBSET Spellings) \cup {Nothing, Unparsable}]
    BY <1>3, <2>1 DEF Open, FilesTypeOK
  <2> QED
    BY <1>3, <2>2, <2>3 DEF Open, FilesTypeOK
<1>4. ASSUME NEW p \in Procs, Write(p) PROVE FilesInv'
  <2>1. task[p].file \in {"config", "cache"} /\ task[p].content \in SUBSET Spellings
    BY <1>4 DEF Write, IsAt, TasksInv
  <2>2. task' \in [Procs -> Tasks] /\ TasksInv'
    BY <1>4, EndsKeeps DEF Write
  <2>3. PICK content \in (SUBSET Spellings) \cup {Unparsable} :
          store' = [store EXCEPT ![task[p].file] = content]
    BY <1>4, <2>1 DEF Write
  <2>4. store' \in [{"config", "cache"} -> (SUBSET Spellings) \cup {Nothing, Unparsable}]
    BY <2>1, <2>3 DEF FilesTypeOK
  <2>5. kept' \in (SUBSET Dirs) \cup {Nothing}
    BY <1>4, KeptByType DEF Write
  <2> QED
    BY <1>4, <2>2, <2>4, <2>5 DEF Write, FilesTypeOK
<1>5. ASSUME NEW p \in Procs, NEW command \in {"add", "remove"}, NEW dir \in Dirs \cup Aliases,
             StartUpdate(p, command, dir)
      PROVE  FilesInv'
  <2> DEFINE t == Task(command, "load", dir, "config", Nothing)
  <2>1. /\ t \in Tasks /\ t.command = command /\ t.step = "load" /\ t.dir = dir
       /\ t.file = "config" /\ t.content = Nothing
    BY TaskType DEF Spellings
  <2>2. task' = [task EXCEPT ![p] = t]
    BY <1>5 DEF StartUpdate
  <2> HIDE DEF t
  <2>3. task' \in [Procs -> Tasks] /\ TasksInv'
    BY <2>1, <2>2, StartKeeps DEF Spellings
  <2> QED
    BY <1>5, <2>3 DEF StartUpdate, FilesTypeOK
<1>6. ASSUME NEW p \in Procs, LoadConfig(p) PROVE FilesInv'
  <2> DEFINE updated == IF task[p].command = "add" THEN add_scan_path(task[p].dir)
                        ELSE remove_scan_path(task[p].dir)
  <2>1. task[p].file = "config" /\ updated \in SUBSET Spellings
    BY <1>6, UpdatedType DEF LoadConfig, TasksInv
  <2>2. task' \in [Procs -> Tasks] /\ TasksInv'
    <3>1. Ends(p) \/ Goes(p, "open", updated)
      BY <1>6 DEF LoadConfig
    <3> QED
      BY <2>1, <3>1, EndsKeeps, GoesKeeps
  <2>3. kept' \in (SUBSET Dirs) \cup {Nothing}
    BY <1>6, KeptByType DEF LoadConfig, FilesTypeOK
  <2> QED
    BY <1>6, <2>2, <2>3 DEF LoadConfig, FilesTypeOK
<1>7. ASSUME NEW p \in Procs, NEW paths \in SUBSET Dirs, Scan(p, paths) PROVE FilesInv'
  <2>1. discover_bundles(SearchPaths(paths)) \in SUBSET Spellings
    BY BundlesType DEF Spellings
  <2> DEFINE bundles == discover_bundles(SearchPaths(paths))
  <2> DEFINE t == Task("scan", "scanning", Nothing, "cache", bundles)
  <2>2. /\ t \in Tasks /\ t.command = "scan" /\ t.step = "scanning" /\ t.dir = Nothing
       /\ t.file = "cache" /\ t.content = bundles
    BY <2>1, TaskType DEF Spellings
  <2>3. task' = [task EXCEPT ![p] = t]
    BY <1>7 DEF Scan
  <2> HIDE DEF t
  <2>4. task' \in [Procs -> Tasks] /\ TasksInv'
    BY <2>1, <2>2, <2>3, StartKeeps
  <2> QED
    BY <1>7, <2>4 DEF Scan, FilesTypeOK
<1>8. ASSUME NEW p \in Procs, NEW paths \in SUBSET Dirs, ScanPlugins(p, paths) PROVE FilesInv'
  <2> DEFINE bundles == discover_bundles(IF paths = {} THEN Defaults ELSE paths)
  <2>1. bundles \in SUBSET Spellings
    BY BundlesType, HostFilesAssumption DEF Spellings
  <2> DEFINE t == Task("gui", "scanning", Nothing, "cache", bundles)
  <2>2. /\ t \in Tasks /\ t.command = "gui" /\ t.step = "scanning" /\ t.dir = Nothing
       /\ t.file = "cache" /\ t.content = bundles
    BY <2>1, TaskType DEF Spellings
  <2>3. task' = [task EXCEPT ![p] = t]
    BY <1>8 DEF ScanPlugins
  <2> HIDE DEF t
  <2>4. task' \in [Procs -> Tasks] /\ TasksInv'
    BY <2>1, <2>2, <2>3, StartKeeps
  <2> QED
    BY <1>8, <2>4 DEF ScanPlugins, FilesTypeOK
<1>9. ASSUME NEW p \in Procs, LoadBundles(p) PROVE FilesInv'
  <2>1. task[p].file \in {"config", "cache"} /\ task[p].content \in SUBSET Spellings
    BY <1>9 DEF LoadBundles, IsAt, TasksInv
  <2>2. task[p].content \ Broken \in SUBSET Spellings
    BY <2>1
  <2>3. task' \in [Procs -> Tasks] /\ TasksInv'
    BY <1>9, <2>1, <2>2, GoesKeeps DEF LoadBundles
  <2> QED
    BY <1>9, <2>2, <2>3 DEF LoadBundles, FilesTypeOK
<1>10. ASSUME NEW p \in Procs, StartGui(p) PROVE FilesInv'
  <2>1. task' \in [Procs -> Tasks] /\ TasksInv'
    BY <1>10, StartKeeps, NoTaskType DEF StartGui
  <2>2. modules' \in [Procs -> SUBSET Spellings]
    BY <1>10 DEF StartGui, FilesTypeOK
  <2> QED
    BY <1>10, <2>1, <2>2 DEF StartGui, FilesTypeOK
<1>11. ASSUME NEW p \in Procs, Dies(p) PROVE FilesInv'
  <2>1. task' \in [Procs -> Tasks] /\ TasksInv'
    BY <1>11, StartKeeps, NoTaskType DEF Dies
  <2>2. modules' \in [Procs -> SUBSET Spellings]
    BY <1>11 DEF Dies, FilesTypeOK
  <2> QED
    BY <1>11, <2>1, <2>2 DEF Dies, FilesTypeOK
<1>12. ASSUME NEW dir \in Dirs, DirectoryChanges(dir) PROVE FilesInv'
  <2>1. exists' \subseteq Dirs
    BY <1>12 DEF DirectoryChanges, FilesTypeOK
  <2> QED
    BY <1>12, <2>1 DEF DirectoryChanges, FilesTypeOK, TasksInv, Updating
<1>13. \A dir \in Dirs : {dir} \in SUBSET Dirs
  OBVIOUS
<1> QED
  BY <1>1, <1>2, <1>3, <1>4, <1>5, <1>6, <1>7, <1>8, <1>9, <1>10, <1>11, <1>12, <1>13
  DEF FilesNext, Process

-----------------------------------------------------------------------------
(* What is kept *)

\* A file that has the canonical paths kept is changed as it should be.
LEMMA UpdateMeansKept ==
  ASSUME load \subseteq Dirs, NEW s \in Spellings, normalize_path(s) = canonical[s]
  PROVE  /\ add_scan_path(s) = load \cup {canonical[s]}
         /\ remove_scan_path(s) = load \ {canonical[s]}
<1>1. \A spelling \in load : normalize_path(spelling) = spelling
  BY HostFilesAssumption DEF normalize_path
<1>2. Same(s) = load \cap {canonical[s]}
  BY <1>1 DEF Same
<1> QED
  BY <1>2 DEF add_scan_path, remove_scan_path

\* A step that neither disturbs an update nor touches the configuration.
LEMMA KeptUntouched ==
  ASSUME FilesInv, KeptInv, kept' = kept, store'.config = store.config, exists' = exists,
         \A q \in Procs : Updating(q)' => Updating(q) /\ task'[q] = task[q],
         \A q \in Procs : Updating(q) /\ ~Updating(q)' => ~IsAt(q, "write")
  PROVE  KeptInv'
<1>1. load' = load /\ (\A s : normalize_path(s)' = normalize_path(s))
  BY DEF load, normalize_path
<1>2. \A q \in Procs : Updating(q)' => KeptBy(q)' = KeptBy(q) /\ task'[q] = task[q]
  BY DEF KeptBy
<1>3. \A q \in Procs : Updating(q) /\ IsAt(q, "write") => Updating(q)' /\ IsAt(q, "write")'
  BY DEF IsAt
<1> QED
  BY <1>1, <1>2, <1>3 DEF KeptInv, IsAt

\* Another process than the one that updates takes a step.
LEMMA OtherTask ==
  ASSUME FilesInv, NEW p \in Procs, ~Updating(p), NEW t, task' = [task EXCEPT ![p] = t],
         t.command \notin {"add", "remove"}
  PROVE  /\ \A q \in Procs : Updating(q)' => Updating(q) /\ task'[q] = task[q]
         /\ \A q \in Procs : Updating(q) => Updating(q)'
BY DEF FilesInv, FilesTypeOK, Updating

\* Whoever ends is not updating any more.
LEMMA EndsUpdate ==
  ASSUME FilesInv, NEW p \in Procs, Ends(p)
  PROVE  /\ ~Updating(p)'
         /\ \A q \in Procs \ {p} : task'[q] = task[q] /\ (Updating(q)' <=> Updating(q))
<1>1. task'[p] \in {NoTask, GuiShown} /\ \A q \in Procs \ {p} : task'[q] = task[q]
  BY DEF Ends, FilesInv, FilesTypeOK
<1> QED
  BY <1>1, NoTaskType DEF Updating

LEMMA GoesUpdate ==
  ASSUME FilesInv, NEW p \in Procs, NEW step, NEW content, Goes(p, step, content)
  PROVE  /\ Updating(p)' <=> Updating(p)
         /\ task'[p] = Task(task[p].command, step, task[p].dir, task[p].file, content)
         /\ task'[p].command = task[p].command /\ task'[p].dir = task[p].dir
         /\ task'[p].step = step /\ task'[p].content = content
         /\ \A q \in Procs \ {p} : task'[q] = task[q] /\ (Updating(q)' <=> Updating(q))
BY DEF Goes, Task, Updating, FilesInv, FilesTypeOK

LEMMA KeptStep == ASSUME FilesInv, KeptInv, [FilesNext]_files_vars PROVE KeptInv'
<1> SUFFICES ASSUME kept' # Nothing PROVE KeptInv'
  BY DEF KeptInv
<1> USE DEF FilesInv
<1>1. CASE UNCHANGED files_vars
  BY <1>1, KeptUntouched DEF files_vars, Updating
<1>2. ASSUME NEW p \in Procs, SaveRefused(p) PROVE KeptInv'
  BY <1>2, EndsUpdate, KeptUntouched DEF SaveRefused, IsAt
<1>3. ASSUME NEW p \in Procs, Open(p) PROVE KeptInv'
  <2>1. CASE ~Updating(p)
    <3>1. task[p].file # "config" /\ store'.config = store.config
      BY <1>3, <2>1 DEF Open, TasksInv, FilesTypeOK
    <3> QED
      BY <1>3, <2>1, <3>1, GoesUpdate, KeptUntouched DEF Open
  <2>2. CASE Updating(p)
    <3>1. store'.config = Unparsable
      BY <1>3, <2>2 DEF Open, TasksInv, FilesTypeOK
    <3>2. task[p].content = KeptBy(p) /\ kept # Nothing /\ kept' = kept
      BY <1>3, <2>2 DEF Open, KeptInv
    <3>3. KeptBy(p)' = KeptBy(p) /\ task'[p].content = KeptBy(p) /\ IsAt(p, "write")'
      BY <1>3, <3>2, GoesUpdate DEF Open, KeptBy, IsAt
    <3>4. \A q \in Procs : Updating(q)' => q = p
      BY <1>3, <2>2, <3>2, GoesUpdate DEF Open, KeptInv
    <3>5. normalize_path(task[p].dir)' = canonical[task'[p].dir]
      BY <1>3, <2>2, <3>2, GoesUpdate DEF Open, KeptInv, normalize_path
    <3> QED
      BY <1>3, <2>2, <3>1, <3>3, <3>4, <3>5, GoesUpdate DEF Open, KeptInv, IsAt
  <2> QED
    BY <2>1, <2>2
<1>4. ASSUME NEW p \in Procs, Write(p) PROVE KeptInv'
  <2>1. CASE ~Updating(p)
    <3>1. task[p].file # "config" /\ store'.config = store.config
      BY <1>4, <2>1 DEF Write, TasksInv, FilesTypeOK
    <3>2. kept' = kept
      BY <1>4, <2>1 DEF Write, KeptBy, Updating
    <3> QED
      BY <1>4, <2>1, <3>1, <3>2, EndsUpdate, KeptUntouched DEF Write
  <2>2. CASE Updating(p)
    <3>1. kept # Nothing /\ kept' = KeptBy(p)
      BY <1>4 DEF Write, KeptBy
    <3>2. store.config = Unparsable /\ task[p].content = kept' /\ task[p].file = "config"
      BY <1>4, <2>2, <3>1 DEF Write, KeptInv, TasksInv
    <3>3. store'.config = kept'
      BY <1>4, <3>2 DEF Write, FilesTypeOK
    <3>4. kept' \in SUBSET Dirs
      BY <3>1, KeptByType
    <3>5. load' = kept' /\ store'.config # Unparsable
      BY <3>3, <3>4, HostFilesAssumption DEF load
    <3>6. \A q \in Procs : ~Updating(q)'
      BY <1>4, <2>2, <3>1, EndsUpdate DEF Write, KeptInv
    <3> QED
      BY <3>5, <3>6 DEF KeptInv
  <2> QED
    BY <2>1, <2>2
<1>5. ASSUME NEW p \in Procs, NEW command \in {"add", "remove"}, NEW dir \in Dirs \cup Aliases,
             StartUpdate(p, command, dir)
      PROVE  KeptInv'
  <2>1. /\ kept' = kept /\ kept # Nothing
        /\ normalize_path(dir) = canonical[dir]
        /\ \A q \in Procs : ~Updating(q)
    BY <1>5 DEF StartUpdate
  <2>2. store.config # Unparsable /\ load = kept
    BY <2>1 DEF KeptInv
  <2>3. /\ task'[p].dir = dir /\ task'[p].step = "load"
        /\ \A q \in Procs : Updating(q)' => q = p
    <3> DEFINE t == Task(command, "load", dir, "config", Nothing)
    <3>1. t.dir = dir /\ t.step = "load"
      BY DEF Task
    <3>2. task'[p] = t /\ \A q \in Procs \ {p} : task'[q] = task[q]
      BY <1>5 DEF StartUpdate, FilesTypeOK
    <3> HIDE DEF t
    <3> QED
      BY <2>1, <3>1, <3>2 DEF Updating
  <2>4. load' = load /\ store' = store /\ normalize_path(dir)' = normalize_path(dir)
    BY <1>5 DEF StartUpdate, load, normalize_path
  <2> QED
    BY <2>1, <2>2, <2>3, <2>4 DEF KeptInv, IsAt
<1>6. ASSUME NEW p \in Procs, LoadConfig(p) PROVE KeptInv'
  <2> DEFINE updated == IF task[p].command = "add" THEN add_scan_path(task[p].dir)
                        ELSE remove_scan_path(task[p].dir)
  <2>1. Updating(p) /\ IsAt(p, "load") /\ kept # Nothing
    BY <1>6 DEF LoadConfig, KeptBy
  <2>2. \A q \in Procs : Updating(q) => q = p
    BY <2>1 DEF KeptInv
  <2>3. store.config # Unparsable /\ load = kept
    BY <2>1, <2>2 DEF KeptInv, IsAt
  <2>4. load \subseteq Dirs
    BY <2>1, <2>3 DEF FilesTypeOK
  <2>5. task[p].dir \in Spellings /\ normalize_path(task[p].dir) = canonical[task[p].dir]
    BY <2>1 DEF KeptInv, TasksInv
  <2>6. updated = KeptBy(p)
    BY <2>1, <2>3, <2>4, <2>5, UpdateMeansKept DEF KeptBy, Updating
  <2>7. UNCHANGED <<store, exists>> /\ load' = load
    BY <1>6 DEF LoadConfig, load
  <2>8. CASE updated = load /\ Ends(p) /\ kept' = KeptBy(p)
    <3>1. \A q \in Procs : ~Updating(q)'
      BY <2>2, <2>8, EndsUpdate
    <3> QED
      BY <2>3, <2>6, <2>7, <2>8, <3>1 DEF KeptInv
  <2>9. CASE Goes(p, "open", updated) /\ kept' = kept
    <3> HIDE DEF updated
    <3>1. /\ \A q \in Procs : Updating(q)' => q = p
          /\ task'[p].content = updated /\ task'[p].step = "open" /\ task'[p].dir = task[p].dir
          /\ task'[p].command = task[p].command
      BY <2>2, <2>9, GoesUpdate
    <3>2. KeptBy(p)' = KeptBy(p)
      BY <2>9, <3>1 DEF KeptBy
    <3>3. normalize_path(task[p].dir)' = canonical[task'[p].dir]
      BY <2>5, <2>7, <3>1 DEF normalize_path
    <3> QED
      BY <2>3, <2>6, <2>7, <2>9, <3>1, <3>2, <3>3 DEF KeptInv, IsAt
  <2> QED
    BY <1>6, <2>3, <2>8, <2>9 DEF LoadConfig, Unreadable
<1>7. ASSUME NEW p \in Procs, NEW paths, Scan(p, paths) PROVE KeptInv'
  <2> DEFINE t == Task("scan", "scanning", Nothing, "cache", discover_bundles(SearchPaths(paths)))
  <2>1. t.command = "scan" /\ ~Updating(p) /\ task' = [task EXCEPT ![p] = t]
    BY <1>7, NoTaskType DEF Scan, Task, Updating
  <2> HIDE DEF t
  <2> QED
    BY <1>7, <2>1, OtherTask, KeptUntouched DEF Scan
<1>8. ASSUME NEW p \in Procs, NEW paths, ScanPlugins(p, paths) PROVE KeptInv'
  <2> DEFINE t == Task("gui", "scanning", Nothing, "cache",
                       discover_bundles(IF paths = {} THEN Defaults ELSE paths))
  <2>1. t.command = "gui" /\ ~Updating(p) /\ task' = [task EXCEPT ![p] = t]
    BY <1>8, NoTaskType DEF ScanPlugins, Task, Updating
  <2> HIDE DEF t
  <2> QED
    BY <1>8, <2>1, OtherTask, KeptUntouched DEF ScanPlugins
<1>9. ASSUME NEW p \in Procs, LoadBundles(p) PROVE KeptInv'
  <2>1. ~Updating(p)
    BY <1>9 DEF LoadBundles, IsAt, TasksInv
  <2>2. PICK loaded : Goes(p, "open", loaded)
    BY <1>9 DEF LoadBundles
  <2> QED
    BY <1>9, <2>1, <2>2, GoesUpdate, KeptUntouched DEF LoadBundles
<1>10. ASSUME NEW p \in Procs, StartGui(p) PROVE KeptInv'
  <2>1. GuiShown.command = "gui" /\ ~Updating(p) /\ task' = [task EXCEPT ![p] = GuiShown]
    BY <1>10, NoTaskType DEF StartGui, Updating
  <2> QED
    BY <1>10, <2>1, OtherTask, KeptUntouched DEF StartGui
<1>11. ASSUME NEW p \in Procs, Dies(p) PROVE KeptInv'
  <2>1. kept' = kept /\ ~(Updating(p) /\ IsAt(p, "write"))
    BY <1>11 DEF Dies
  <2>2. task'[p] = NoTask /\ \A q \in Procs \ {p} : task'[q] = task[q]
    BY <1>11 DEF Dies, FilesTypeOK
  <2>3. \A q \in Procs : Updating(q)' => Updating(q) /\ task'[q] = task[q]
    BY <2>2, NoTaskType DEF Updating
  <2>4. \A q \in Procs : Updating(q) /\ ~Updating(q)' => ~IsAt(q, "write")
    BY <2>1, <2>2 DEF Updating
  <2> QED
    BY <1>11, <2>1, <2>3, <2>4, KeptUntouched DEF Dies
<1>12. ASSUME NEW dir \in Dirs, DirectoryChanges(dir) PROVE KeptInv'
  BY <1>12 DEF DirectoryChanges
<1> QED
  BY <1>1, <1>2, <1>3, <1>4, <1>5, <1>6, <1>7, <1>8, <1>9, <1>10, <1>11, <1>12 DEF FilesNext, Process

-----------------------------------------------------------------------------

\* Every file, task and listing has its type, and each file its own writers.
THEOREM FilesTypeCorrect == FilesSpec => []FilesTypeOK
<1>1. FilesInit => FilesInv
  BY FilesStart
<1>2. FilesInv /\ [FilesNext]_files_vars => FilesInv'
  BY FilesStep
<1>3. FilesInv => FilesTypeOK
  BY DEF FilesInv
<1> QED
  BY <1>1, <1>2, <1>3, PTL DEF FilesSpec

\* For any number of processes and directories, the configuration names what was
\* added and not removed since, once each, unless updates overlap, are killed in
\* the write, or directories come and go.
THEOREM ScanPathsAreKept == FilesSpec => []ScanPathsKept
<1>1. FilesInit => FilesInv /\ KeptInv
  BY FilesStart
<1>2. FilesInv /\ KeptInv /\ [FilesNext]_files_vars => (FilesInv /\ KeptInv)'
  BY FilesStep, KeptStep
<1>3. ASSUME FilesInv, KeptInv PROVE ScanPathsKept
  <2> SUFFICES ASSUME kept # Nothing, \A p \in Procs : ~Updating(p)
               PROVE  /\ store.config # Unparsable
                      /\ {canonical[spelling] : spelling \in load} = kept
                      /\ Cardinality(load) = Cardinality(kept)
    BY DEF ScanPathsKept
  <2>1. store.config # Unparsable /\ load = kept /\ kept \subseteq Dirs
    BY <1>3 DEF KeptInv, FilesInv, FilesTypeOK
  <2>2. \A spelling \in load : canonical[spelling] = spelling
    BY <2>1, HostFilesAssumption
  <2> QED
    BY <2>1, <2>2
<1> QED
  BY <1>1, <1>2, <1>3, PTL DEF FilesSpec

\* No step makes a file that can be parsed, let alone an empty one, of a
\* configuration that a killed process left behind unfinished.
THEOREM WreckIsKept == FilesSpec => UnreadableConfigKept
<1>1. FilesInit => FilesInv
  BY FilesStart
<1>2. FilesInv /\ [FilesNext]_files_vars => FilesInv'
  BY FilesStep
<1>3. ASSUME FilesInv, [FilesNext]_files_vars, Wrecked PROVE Wrecked'
  <2> USE DEF FilesInv, Wrecked
  <2>1. CASE UNCHANGED files_vars
    BY <1>3, <2>1 DEF files_vars, Updating, IsAt
  <2>2. ASSUME NEW p \in Procs, SaveRefused(p) PROVE Wrecked'
    BY <1>3, <2>2, EndsUpdate DEF SaveRefused, IsAt
  <2>3. ASSUME NEW p \in Procs, Open(p) PROVE Wrecked'
    <3>1. ~Updating(p) /\ task[p].file # "config"
      BY <1>3, <2>3 DEF Open, IsAt, TasksInv
    <3>2. store'.config = store.config
      BY <1>3, <2>3, <3>1 DEF Open, FilesTypeOK
    <3> QED
      BY <1>3, <2>3, <3>1, <3>2, GoesUpdate DEF Open, IsAt
  <2>4. ASSUME NEW p \in Procs, Write(p) PROVE Wrecked'
    <3>1. ~Updating(p) /\ task[p].file # "config"
      BY <1>3, <2>4 DEF Write, IsAt, TasksInv
    <3>2. store'.config = store.config
      BY <1>3, <2>4, <3>1 DEF Write, FilesTypeOK
    <3> QED
      BY <1>3, <2>4, <3>1, <3>2, EndsUpdate DEF Write, IsAt
  <2>5. ASSUME NEW p \in Procs, NEW command, NEW dir, StartUpdate(p, command, dir) PROVE Wrecked'
    <3> DEFINE t == Task(command, "load", dir, "config", Nothing)
    <3>1. t.step = "load"
      BY DEF Task
    <3>2. task'[p] = t /\ \A q \in Procs \ {p} : task'[q] = task[q]
      BY <1>3, <2>5 DEF StartUpdate, FilesTypeOK
    <3> HIDE DEF t
    <3> QED
      BY <1>3, <2>5, <3>1, <3>2 DEF StartUpdate, Updating, IsAt
  <2>6. ASSUME NEW p \in Procs, LoadConfig(p) PROVE Wrecked'
    BY <1>3, <2>6, EndsUpdate DEF LoadConfig, Unreadable, IsAt
  <2>7. ASSUME NEW p \in Procs, NEW paths, Scan(p, paths) PROVE Wrecked'
    <3> DEFINE t == Task("scan", "scanning", Nothing, "cache", discover_bundles(SearchPaths(paths)))
    <3>1. t.command = "scan" /\ ~Updating(p) /\ task' = [task EXCEPT ![p] = t]
      BY <2>7, NoTaskType DEF Scan, Task, Updating
    <3> HIDE DEF t
    <3> QED
      BY <1>3, <2>7, <3>1, OtherTask DEF Scan, IsAt
  <2>8. ASSUME NEW p \in Procs, NEW paths, ScanPlugins(p, paths) PROVE Wrecked'
    <3> DEFINE t == Task("gui", "scanning", Nothing, "cache",
                         discover_bundles(IF paths = {} THEN Defaults ELSE paths))
    <3>1. t.command = "gui" /\ ~Updating(p) /\ task' = [task EXCEPT ![p] = t]
      BY <2>8, NoTaskType DEF ScanPlugins, Task, Updating
    <3> HIDE DEF t
    <3> QED
      BY <1>3, <2>8, <3>1, OtherTask DEF ScanPlugins, IsAt
  <2>9. ASSUME NEW p \in Procs, LoadBundles(p) PROVE Wrecked'
    <3>1. ~Updating(p)
      BY <1>3, <2>9 DEF LoadBundles, IsAt, TasksInv
    <3>2. PICK loaded : Goes(p, "open", loaded)
      BY <2>9 DEF LoadBundles
    <3> QED
      BY <1>3, <2>9, <3>1, <3>2, GoesUpdate DEF LoadBundles, IsAt
  <2>10. ASSUME NEW p \in Procs, StartGui(p) PROVE Wrecked'
    <3>1. GuiShown.command = "gui" /\ ~Updating(p) /\ task' = [task EXCEPT ![p] = GuiShown]
      BY <2>10, NoTaskType DEF StartGui, Updating
    <3> QED
      BY <1>3, <2>10, <3>1, OtherTask DEF StartGui, IsAt
  <2>11. ASSUME NEW p \in Procs, Dies(p) PROVE Wrecked'
    <3>1. task'[p] = NoTask /\ \A q \in Procs \ {p} : task'[q] = task[q]
      BY <1>3, <2>11 DEF Dies, FilesTypeOK
    <3> QED
      BY <1>3, <2>11, <3>1, NoTaskType DEF Dies, Updating, IsAt
  <2>12. ASSUME NEW dir \in Dirs, DirectoryChanges(dir) PROVE Wrecked'
    BY <1>3, <2>12 DEF DirectoryChanges, Updating, IsAt
  <2> QED
    BY <1>3, <2>1, <2>2, <2>3, <2>4, <2>5, <2>6, <2>7, <2>8, <2>9, <2>10, <2>11, <2>12 DEF FilesNext, Process
<1>4. FilesInv /\ [FilesNext]_files_vars => [Wrecked => Wrecked']_files_vars
  BY <1>3
<1> QED
  BY <1>1, <1>2, <1>4, PTL DEF FilesSpec, UnreadableConfigKept
=============================================================================
