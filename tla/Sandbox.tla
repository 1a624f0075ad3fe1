------------------------------- MODULE Sandbox -------------------------------
(***************************************************************************)
(* vst3/sandbox.rs: threads that call plugin code under signal handlers    *)
(* which are installed for the whole process.  A count of the calls under  *)
(* way decides who installs them and who restores the old ones; the count  *)
(* is atomic, the saved handlers are behind a mutex, and nothing holds the *)
(* two together.                                                           *)
(***************************************************************************)
EXTENDS Naturals

CONSTANT Threads

VARIABLES
  refcount,  \* HANDLER_REFCOUNT
  saved,     \* SAVED_HANDLERS, empty when they were taken
  handlers,  \* the process's signal handlers
  thread,    \* where each thread is in sandbox_call
  taken,     \* the handlers a thread is about to restore
  outcome,   \* what each thread's last call returned
  process    \* has a signal ended the process

vars == <<refcount, saved, handlers, thread, taken, outcome, process>>

Init ==
  /\ refcount = 0
  /\ saved = "empty"
  /\ handlers = "original"
  /\ thread = [t \in Threads |-> "outside"]
  /\ taken = [t \in Threads |-> "empty"]
  /\ outcome = [t \in Threads |-> "Ok"]
  /\ process = "running"

Goes(t, from, to) == thread[t] = from /\ thread' = [thread EXCEPT ![t] = to]

\* acquire_signal_handlers, fetch_add: the first caller is the one to install.
acquire_signal_handlers(t) ==
  /\ Goes(t, "outside", IF refcount = 0 THEN "installs" ELSE "calls")
  /\ refcount' = refcount + 1
  /\ UNCHANGED <<saved, handlers, taken, outcome>>

\* install_handlers_impl, under the lock: what was installed before is saved.
install_handlers(t) ==
  /\ Goes(t, "installs", "calls")
  /\ saved' = handlers
  /\ handlers' = "ours"
  /\ UNCHANGED <<refcount, taken, outcome>>

\* The closure returns or panics.  A call nested in it runs under the outer
\* one's jump buffer and touches nothing.
Return(t) ==
  /\ Goes(t, "calls", "returned")
  /\ \E result \in {"Ok", "Panicked"} : outcome' = [outcome EXCEPT ![t] = result]
  /\ UNCHANGED <<refcount, saved, handlers, taken>>

\* sandbox_signal_handler jumps back into the call of the thread that crashed.
Recover(t) ==
  /\ handlers = "ours"
  /\ Goes(t, "calls", "returned")
  /\ outcome' = [outcome EXCEPT ![t] = "Crashed"]
  /\ UNCHANGED <<refcount, saved, handlers, taken>>

\* release_signal_handlers, fetch_sub: the last caller is the one to restore.
release_signal_handlers(t) ==
  /\ Goes(t, "returned", IF refcount = 1 THEN "takes" ELSE "outside")
  /\ refcount' = refcount - 1
  /\ UNCHANGED <<saved, handlers, taken, outcome>>

\* The saved handlers are taken under the lock, which is let go of before they
\* are restored.
take_saved(t) ==
  /\ Goes(t, "takes", "restores")
  /\ taken' = [taken EXCEPT ![t] = saved]
  /\ saved' = "empty"
  /\ UNCHANGED <<refcount, handlers, outcome>>

\* restore_handlers_impl; with none taken it restores nothing.
restore_handlers(t) ==
  /\ Goes(t, "restores", "outside")
  /\ handlers' = IF taken[t] = "empty" THEN handlers ELSE taken[t]
  /\ taken' = [taken EXCEPT ![t] = "empty"]
  /\ UNCHANGED <<refcount, saved, outcome>>

\* The plugin crashes while the handlers are not ours.
Terminate(t) ==
  /\ thread[t] = "calls"
  /\ handlers # "ours"
  /\ process' = "terminated"
  /\ UNCHANGED <<refcount, saved, handlers, thread, taken, outcome>>

Step(t) ==
  \/ acquire_signal_handlers(t) \/ install_handlers(t)
  \/ Return(t) \/ Recover(t)
  \/ release_signal_handlers(t) \/ take_saved(t) \/ restore_handlers(t)

Next ==
  /\ process = "running"
  /\ \E t \in Threads : (Step(t) /\ UNCHANGED process) \/ Terminate(t)

Spec == Init /\ [][Next]_vars

-----------------------------------------------------------------------------

\* A crash in a sandboxed call does not end the process, whatever the other
\* threads call (the promise of sandbox_call and of HANDLER_REFCOUNT).
CrashesAreCaught == process = "running"
=============================================================================
