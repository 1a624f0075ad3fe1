------------------------------ MODULE HostFiles ------------------------------
(***************************************************************************)
(* The files that all processes of the program share: the configuration    *)
(* with the user's scan paths (app/config.rs) and the plugin cache         *)
(* (vst3/cache.rs).  Commands (app/commands.rs) and GUI hosts run at the   *)
(* same time and know nothing of each other.  Each reads a file, computes  *)
(* what it is to hold and writes it in place: fs::write opens the file,    *)
(* which empties it, and then writes.  A process may be killed at any      *)
(* point, not least by a plugin it loads in order to scan it.              *)
(*                                                                         *)
(* A directory holds one bundle, which stands for the modules found in it. *)
(* Session and preset files are written the same way (see Presets).        *)
(***************************************************************************)
EXTENDS Naturals, FiniteSets

CONSTANTS
  Procs,      \* processes
  Dirs,       \* directories, each named by its canonical path
  Defaults,   \* default_vst3_paths
  Broken,     \* the directories whose bundle cannot be loaded
  Aliases,    \* other spellings of a directory
  canonical,  \* the directory a spelling stands for while it exists
  Nothing,    \* no file, nothing in hand
  Unparsable  \* the content of a file that cannot be parsed

ASSUME HostFilesAssumption ==
  /\ Defaults \subseteq Dirs /\ Broken \subseteq Dirs /\ Dirs \cap Aliases = {}
  /\ canonical \in [Dirs \cup Aliases -> Dirs]
  /\ \A dir \in Dirs : canonical[dir] = dir
  /\ Nothing # Unparsable
  /\ \A paths \in SUBSET (Dirs \cup Aliases) : paths \notin {Nothing, Unparsable}

VARIABLES
  store,     \* config.json and plugin-cache.json
  exists,    \* the directories there are
  task,      \* what each process does: its command and the step it is at, the
             \* directory it was given, the file it writes and what it will hold
  modules,   \* plugin_modules of each GUI host
  kept       \* history: the directories added and not removed since; Nothing once
             \* two updates overlapped, one was killed while it wrote or named a
             \* directory that is not there by another path, or one came or went

files_vars == <<store, exists, task, modules, kept>>

Spellings == Dirs \cup Aliases
Tasks == [command : {"none", "add", "remove", "scan", "gui"},
          step : {"idle", "shown", "load", "scanning", "open", "write"},
          dir : Spellings \cup {Nothing}, file : {"none", "config", "cache"},
          content : (SUBSET Spellings) \cup {Nothing}]

FilesTypeOK ==
  /\ store \in [{"config", "cache"} -> (SUBSET Spellings) \cup {Nothing, Unparsable}]
  /\ exists \subseteq Dirs
  /\ task \in [Procs -> Tasks]
  /\ modules \in [Procs -> SUBSET Spellings]
  /\ kept \in (SUBSET Dirs) \cup {Nothing}

Task(command, step, dir, file, content) ==
  [command |-> command, step |-> step, dir |-> dir, file |-> file, content |-> content]
NoTask == Task("none", "idle", Nothing, "none", Nothing)
GuiShown == Task("gui", "shown", Nothing, "none", Nothing)

FilesInit ==
  /\ store = [config |-> Nothing, cache |-> Nothing]
  /\ exists \in SUBSET Dirs
  /\ task = [p \in Procs |-> NoTask]
  /\ modules = [p \in Procs |-> {}]
  /\ kept = {}

IsAt(p, step) == task[p].step = step
Goes(p, step, content) ==
  task' = [task EXCEPT ![p] = Task(@.command, step, @.dir, @.file, content)]
\* A command ends with its process, a GUI host goes on.
Ends(p) == task' = [task EXCEPT ![p] = IF @.command = "gui" THEN GuiShown ELSE NoTask]

-----------------------------------------------------------------------------
(* fs::write, the step that ends config::save and cache::save *)

\* Saving fails before the file is touched: a command ends with the error, a
\* GUI host goes on with what it scanned.
SaveRefused(p) ==
  /\ IsAt(p, "open")
  /\ Ends(p)
  /\ UNCHANGED <<store, exists, modules, kept>>

Open(p) ==
  /\ IsAt(p, "open")
  /\ store' = [store EXCEPT ![task[p].file] = Unparsable]
  /\ Goes(p, "write", task[p].content)
  /\ UNCHANGED <<exists, modules, kept>>

KeptBy(p) ==
  IF kept = Nothing THEN Nothing
  ELSE CASE task[p].command = "add"    -> kept \cup {canonical[task[p].dir]}
         [] task[p].command = "remove" -> kept \ {canonical[task[p].dir]}
         [] OTHER -> kept

\* What another process wrote since the file was opened may stick out behind.
Write(p) ==
  LET file == task[p].file
  IN /\ IsAt(p, "write")
     /\ \E content \in {task[p].content} \cup
                       (IF store[file] = Unparsable THEN {} ELSE {Unparsable}) :
          store' = [store EXCEPT ![file] = content]
     /\ kept' = KeptBy(p)
     /\ Ends(p)
     /\ UNCHANGED <<exists, modules>>

-----------------------------------------------------------------------------
(* app/config.rs *)

normalize_path(spelling) ==
  IF canonical[spelling] \in exists THEN canonical[spelling] ELSE spelling

\* Mutant: a file that cannot be parsed is no error, it counts as a missing one.
NeverUnreadable(file) == FALSE

\* config::load and cache::load: no file is no error.
Unreadable(file) == store[file] = Unparsable
load == IF store.config \in {Nothing, Unparsable} THEN {} ELSE store.config
Same(dir) == {spelling \in load : normalize_path(spelling) = normalize_path(dir)}

\* Mutant: the configuration is made anew.
AddsToEmpty(dir) == IF Same(dir) # {} THEN load ELSE {normalize_path(dir)}

add_scan_path(dir) == IF Same(dir) # {} THEN load ELSE load \cup {normalize_path(dir)}
remove_scan_path(dir) == load \ Same(dir)

\* scan_paths_add, scan_paths_remove
Updating(p) == task[p].command \in {"add", "remove"}
StartUpdate(p, command, dir) ==
  /\ task[p] = NoTask
  /\ task' = [task EXCEPT ![p] = Task(command, "load", dir, "config", Nothing)]
  /\ kept' = IF normalize_path(dir) # canonical[dir] \/ \E q \in Procs : Updating(q)
             THEN Nothing ELSE kept
  /\ UNCHANGED <<store, exists, modules>>

\* A file that cannot be read is an error; one that would not change is kept.
LoadConfig(p) ==
  LET dir == task[p].dir
      updated == IF task[p].command = "add" THEN add_scan_path(dir) ELSE remove_scan_path(dir)
  IN /\ Updating(p) /\ IsAt(p, "load")
     /\ \/ Unreadable("config") /\ Ends(p) /\ UNCHANGED kept
        \/ ~Unreadable("config") /\ updated = load /\ Ends(p) /\ kept' = KeptBy(p)
        \/ ~Unreadable("config") /\ updated # load /\ Goes(p, "open", updated) /\ UNCHANGED kept
     /\ UNCHANGED <<store, exists, modules>>

-----------------------------------------------------------------------------
(* Scanning: app/commands.rs, gui/app.rs, gui/audio_worker.rs *)

\* discover_bundles, in the directories that are there.
discover_bundles(paths) == {canonical[path] : path \in paths} \cap exists

\* scan: the defaults and the configured directories, the latter left out when
\* the file cannot be read, or the given ones alone.
SearchPaths(explicit) ==
  IF explicit # {} THEN explicit
  ELSE IF Unreadable("config") THEN Defaults
  ELSE Defaults \cup load

\* Nothing found ends the command, and the cache stays as it is.
Scan(p, explicit) ==
  LET bundles == discover_bundles(SearchPaths(explicit))
  IN /\ task[p] = NoTask /\ bundles # {}
     /\ task' = [task EXCEPT ![p] = Task("scan", "scanning", Nothing, "cache", bundles)]
     /\ UNCHANGED <<store, exists, modules, kept>>

\* scan_plugins: a GUI host looks at the defaults or at its own --paths, never
\* at the configuration, and saves whatever it found.
ScanPlugins(p, custom) ==
  /\ task[p] = GuiShown
  /\ task' = [task EXCEPT ![p] = Task("gui", "scanning", Nothing, "cache",
                discover_bundles(IF custom = {} THEN Defaults ELSE custom))]
  /\ UNCHANGED <<store, exists, modules, kept>>

\* Each bundle is loaded into the process; those that fail are left out.
LoadBundles(p) ==
  /\ IsAt(p, "scanning")
  /\ LET loaded == task[p].content \ Broken
     IN /\ Goes(p, "open", loaded)
        /\ modules' = IF task[p].command = "gui" THEN [modules EXCEPT ![p] = loaded] ELSE modules
  /\ UNCHANGED <<store, exists, kept>>

\* A GUI host starts with the cached modules, or with none when the file cannot
\* be read or in safe mode.
StartGui(p) ==
  /\ task[p] = NoTask
  /\ task' = [task EXCEPT ![p] = GuiShown]
  /\ \E cached \in {{}} \cup ({store.cache} \ {Nothing, Unparsable}) :
       modules' = [modules EXCEPT ![p] = cached]
  /\ UNCHANGED <<store, exists, kept>>

-----------------------------------------------------------------------------
(* The environment *)

\* A process is closed or killed; a plugin that crashes while it is loaded, with
\* no handler around it, takes its process along.
Dies(p) ==
  /\ task[p] # NoTask
  /\ task' = [task EXCEPT ![p] = NoTask]
  /\ modules' = [modules EXCEPT ![p] = {}]
  /\ kept' = IF Updating(p) /\ IsAt(p, "write") THEN Nothing ELSE kept
  /\ UNCHANGED <<store, exists>>

\* A directory is made or removed, a volume mounted or unmounted.
DirectoryChanges(dir) ==
  /\ exists' = IF dir \in exists THEN exists \ {dir} ELSE exists \cup {dir}
  /\ kept' = Nothing
  /\ UNCHANGED <<store, task, modules>>

Process(p) ==
  \/ \E command \in {"add", "remove"}, dir \in Dirs \cup Aliases : StartUpdate(p, command, dir)
  \/ LoadConfig(p) \/ SaveRefused(p) \/ Open(p) \/ Write(p)
  \/ \E paths \in {{}} \cup {{dir} : dir \in Dirs} : Scan(p, paths) \/ ScanPlugins(p, paths)
  \/ LoadBundles(p) \/ StartGui(p) \/ Dies(p)

FilesNext == (\E p \in Procs : Process(p)) \/ (\E dir \in Dirs : DirectoryChanges(dir))

FilesSpec == FilesInit /\ [][FilesNext]_files_vars

-----------------------------------------------------------------------------
(* Properties *)

\* Updates of the configuration take effect as a whole and one after another,
\* unless they overlap or are killed while they write: the file names each
\* directory that was added and not removed since, once, and no other.  Other
\* commands may die, scan and write the cache at any time.  A directory that
\* comes or goes is excepted: a spelling written while there was nothing there
\* is not recognized later.
ScanPathsKept ==
  kept # Nothing /\ (\A p \in Procs : ~Updating(p)) =>
    /\ store.config # Unparsable
    /\ {canonical[spelling] : spelling \in load} = kept
    /\ Cardinality(load) = Cardinality(kept)

\* A configuration that a killed command left unreadable is never taken for an
\* empty one and written over: once the commands are gone that had read it
\* before, it stays as it is, for the user to repair.
Wrecked == store.config = Unparsable /\ \A p \in Procs : Updating(p) => IsAt(p, "load")
UnreadableConfigKept == [][Wrecked => Wrecked']_files_vars
=============================================================================
