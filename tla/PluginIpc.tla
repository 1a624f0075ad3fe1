------------------------------ MODULE PluginIpc ------------------------------
(***************************************************************************)
(* A plugin in a process of its own: the proxy in the host (ipc/proxy.rs), *)
(* the worker that runs the plugin (ipc/worker.rs), the socket between     *)
(* them (ipc/messages.rs) and the shared audio memory (ipc/shm.rs), from   *)
(* spawn to the end of the process.  Two threads of the host call the      *)
(* worker through the mutex around the proxy: the main thread, and the     *)
(* audio callback, which only tries the lock.  call stands for the mutex:  *)
(* it is held for as long as a call is under way.                          *)
(*                                                                         *)
(* The plugin may take any time, fail, crash in the worker's sandbox or    *)
(* take the worker process with it.  A response may be partly written for  *)
(* any time.  Parameter changes are numbered in the order they are made;   *)
(* of a block's changes the worker drops what its queues have no room for. *)
(***************************************************************************)
EXTENDS Integers, Sequences, FiniteSets, SequencesExt

CONSTANTS
  Params,      \* the plugin's parameters
  MaxQueues,   \* MAX_PARAM_QUEUES: the parameters one block can change
  MaxPoints,   \* MAX_POINTS_PER_PARAM: the changes of one parameter in a block
  MaxChanges,  \* bound on the parameter changes made
  MaxRequests  \* bound on the state requests of the user

ASSUME PluginIpcAssumption ==
  /\ MaxChanges \in Nat /\ MaxRequests \in Nat
  /\ MaxQueues \in Nat \ {0} /\ MaxPoints \in Nat \ {0}

VARIABLES
  main,         \* the main thread: the request it makes next or waits for, or a state
  call,         \* the call under way: its kind and whether it was written
  crashed,      \* PluginProcess.crashed
  is_shutdown,  \* PluginProcess.is_shutdown
  mapped,       \* PluginProcess.shm is Some
  pending,      \* PluginProcess.pending_param_changes
  requests,     \* host -> worker
  responses,    \* worker -> host
  garbled,      \* the host's next read starts inside a frame
  worker,       \* the worker process, its plugin, and Vst3Instance.crashed
  busy,         \* the request the worker handles
  handed,       \* the changes handed to add_change, block by block
  refused,      \* those it refused, each with the first change of its block
  segment,      \* who made the shared memory object of the worker's pid
  ready,        \* its output is that of the block asked for last
  played,       \* what the device plays: silence, the block asked for or another
  ids,          \* the parameter of each change made
  asked,        \* number of state requests made
  history       \* as in PluginService

proxyVars  == <<main, call, crashed, is_shutdown, mapped, pending>>
socketVars == <<requests, responses, garbled>>
changeVars == <<handed, refused>>
workerVars == <<worker, busy, changeVars, segment>>
audioVars  == <<ready, played>>
boundVars  == <<ids, asked>>
vars == <<proxyVars, socketVars, workerVars, audioVars, boundVars, history>>

SpawnKinds == {"LoadPlugin", "Configure", "Activate", "QueryParameters"}
Kinds == SpawnKinds \cup {"GetState", "SetState", "Process", "Shutdown"}
Requests == [kind : Kinds, changes : Seq(1..MaxChanges)]
Responses == [to : Kinds, result : {"ok", "error", "crashed"}, whole : BOOLEAN]
NoRequest == [kind |-> "none", changes |-> <<>>]
NoCall == [kind |-> "none", sent |-> FALSE]

\* The number of changes made, and of the last one.
made == Len(ids)

MainStates ==
  {"accepting", "refused"}                        \* spawn, before there is a PluginProcess
  \cup (Kinds \ {"Process"})
  \cup {"building", "idle", "reaping", "done"}

TypeOK ==
  /\ main \in MainStates
  /\ call \in [kind : Kinds \cup {"none"}, sent : BOOLEAN]
  /\ crashed \in BOOLEAN /\ is_shutdown \in BOOLEAN /\ mapped \in BOOLEAN
  /\ pending \in Seq(1..MaxChanges)
  /\ requests \in Seq(Requests)
  /\ responses \in Seq(Responses)
  /\ garbled \in BOOLEAN
  /\ worker \in [process : {"starting", "running", "exited", "killed"},
                 plugin : {"none", "loaded", "configured", "active"}, crashed : BOOLEAN]
  /\ busy \in Requests \cup {NoRequest}
  /\ handed \in Seq(1..MaxChanges)
  /\ refused \subseteq [change : 1..MaxChanges, first : 1..MaxChanges]
  /\ segment \in {"none", "own", "stale"}
  /\ ready \in BOOLEAN
  /\ played \in {"silence", "own", "other"}
  /\ ids \in Seq(Params) /\ made <= MaxChanges
  /\ asked \in 0..MaxRequests
  /\ history \in [failed : BOOLEAN, asked : Kinds \cup {"none"}, got : Kinds \cup {"none"}]

\* A segment left by a killed worker that had the same pid is still there.
Init ==
  /\ main = "accepting"
  /\ call = NoCall
  /\ crashed = FALSE
  /\ is_shutdown = FALSE
  /\ mapped = FALSE
  /\ pending = <<>>
  /\ requests = <<>>
  /\ responses = <<>>
  /\ garbled = FALSE
  /\ worker = [process |-> "starting", plugin |-> "none", crashed |-> FALSE]
  /\ busy = NoRequest
  /\ handed = <<>>
  /\ refused = {}
  /\ segment \in {"none", "stale"}
  /\ ready = FALSE
  /\ played = "silence"
  /\ ids = <<>>
  /\ asked = 0
  /\ history = [failed |-> FALSE, asked |-> "none", got |-> "none"]

Gone == worker.process \in {"exited", "killed"}
Partial == responses # <<>> /\ ~Head(responses).whole
Writing == responses # <<>> /\ ~Last(responses).whole

-----------------------------------------------------------------------------
(* PluginProcess::spawn *)

\* The worker connects and is accepted.
Accept ==
  /\ main = "accepting"
  /\ worker.process = "starting"
  /\ worker' = [worker EXCEPT !.process = "running"]
  /\ main' = "LoadPlugin"
  /\ UNCHANGED <<call, crashed, is_shutdown, mapped, pending, socketVars,
                 busy, changeVars, segment, audioVars, boundVars, history>>

\* Ten seconds without a connection: there is no PluginProcess to drop, and
\* the child is neither killed nor waited for.
AcceptTimesOut ==
  /\ main = "accepting"
  /\ main' = "refused"
  /\ UNCHANGED <<call, crashed, is_shutdown, mapped, pending, socketVars,
                 workerVars, audioVars, boundVars, history>>

\* The stream is built from the activated proxy, which is dropped on failure.
BuildStream ==
  /\ main = "building"
  /\ main' \in {"idle", "Shutdown"}
  /\ UNCHANGED <<call, crashed, is_shutdown, mapped, pending, socketVars,
                 workerVars, audioVars, boundVars, history>>

-----------------------------------------------------------------------------
(* send_receive: the request *)

\* write_all: it fails when the worker has closed its end.
Send(kind, changes) ==
  /\ call = NoCall
  /\ call' = [kind |-> kind, sent |-> ~Gone]
  /\ requests' = IF Gone THEN requests
                 ELSE Append(requests, [kind |-> kind, changes |-> changes])

\* The main thread's next request; shutdown marks the proxy first.
Request ==
  /\ main \in Kinds
  /\ Send(main, <<>>)
  /\ is_shutdown' = (is_shutdown \/ main = "Shutdown")
  /\ UNCHANGED <<main, crashed, mapped, pending, responses, garbled, workerVars,
                 audioVars, boundVars, history>>

Playing == main \in {"idle", "GetState", "SetState"}

\* Mutant: the changes are copied, and sent again with the next block.
AudioCallbackCopies ==
  /\ Playing
  /\ ~is_shutdown /\ ~crashed /\ mapped
  /\ Send("Process", pending)
  /\ ready' = FALSE
  /\ UNCHANGED <<main, crashed, is_shutdown, mapped, pending, responses, garbled, workerVars,
                 played, boundVars, history>>

\* process, up to the call: nothing is sent to a crashed or closed plugin.  The
\* memory is no longer ready.
\* The changes are taken unless the main thread holds their lock.
AudioCallback ==
  /\ Playing
  /\ ~is_shutdown /\ ~crashed /\ mapped
  /\ \E taken \in {pending, <<>>} :
       /\ Send("Process", taken)
       /\ pending' = IF taken = pending THEN <<>> ELSE pending
  /\ ready' = FALSE
  /\ UNCHANGED <<main, crashed, is_shutdown, mapped, responses, garbled, workerVars,
                 played, boundVars, history>>

-----------------------------------------------------------------------------
(* send_receive: the answer *)

\* The main thread after its call.  A failed step of the activation drops the
\* proxy, and its Drop shuts it down; the parameters are not essential.
AfterCall(kind, ok) ==
  CASE kind \in {"GetState", "SetState"}     -> "idle"
    [] kind = "Shutdown"                     -> "reaping"
    [] kind = "QueryParameters"              -> "building"
    [] kind = "LoadPlugin" /\ ok             -> "Configure"
    [] kind = "Configure" /\ ok              -> "Activate"
    [] kind = "Activate" /\ ok               -> "QueryParameters"
    [] OTHER                                 -> "Shutdown"

\* ShmAudioBuffer::open: it may fail, and does without the object.
Opens == IF segment = "none" THEN {FALSE} ELSE BOOLEAN

\* Mutant: what is in the memory is played, whatever the answer.
PlayedUnsilenced(outcome) ==
  IF call.kind # "Process" THEN played ELSE IF ready THEN "own" ELSE "other"

\* The device plays what is in the memory if the answer is Processed, and silence
\* otherwise.  The memory's ready flag is not looked at.
Played(outcome) ==
  IF call.kind # "Process" THEN played
  ELSE IF outcome # "ok" THEN "silence"
  ELSE IF ready THEN "own" ELSE "other"

\* What the caller does with the outcome; the memory is opened after Configured.
Resume(outcome) ==
  /\ call' = NoCall
  /\ played' = Played(outcome)
  /\ crashed' = (crashed \/ (call.kind = "Process" /\ outcome \in {"crashed", "failed"}))
  /\ \E opened \in IF call.kind = "Configure" /\ outcome = "ok" THEN Opens ELSE {mapped} :
       /\ mapped' = opened
       /\ main' = IF call.kind = "Process" THEN main
                  ELSE AfterCall(call.kind, outcome = "ok" /\ (call.kind = "Configure" => opened))

Outcome(response) ==
  IF response.result = "crashed" THEN "crashed"
  ELSE IF response.result = "ok" /\ response.to = call.kind THEN "ok"
  ELSE "unexpected"

Failed == history' = [history EXCEPT !.failed = TRUE]

\* decode_message finds a whole frame: whatever it is, it is the answer.
Receive ==
  /\ call.sent /\ ~garbled
  /\ responses # <<>> /\ Head(responses).whole
  /\ Resume(Outcome(Head(responses)))
  /\ responses' = Tail(responses)
  /\ history' = [failed |-> history.failed, asked |-> call.kind, got |-> Head(responses).to]
  /\ UNCHANGED <<is_shutdown, pending, requests, garbled, workerVars, ready, boundVars>>

\* Mutant: only the audio callback gives a call up.
TimeOutAudioOnly ==
  /\ call.kind = "Process" /\ call.sent /\ ~Gone
  /\ responses = <<>>
  /\ Resume("failed")
  /\ Failed
  /\ UNCHANGED <<is_shutdown, pending, socketVars, workerVars, ready, boundVars>>

\* Mutant: a main thread's request that timed out is sent again.
TimeOutRetries ==
  /\ call.kind # "Process" /\ call.sent /\ ~Gone
  /\ responses = <<>> /\ Len(requests) < 2
  /\ requests' = Append(requests, [kind |-> call.kind, changes |-> <<>>])
  /\ UNCHANGED <<proxyVars, responses, garbled, workerVars, audioVars, boundVars, history>>

\* Thirty seconds without the rest of a frame.  What was read of it is lost.
TimeOut ==
  /\ call.sent /\ ~Gone
  /\ responses = <<>> \/ (~garbled /\ Partial)
  /\ Resume("failed")
  /\ garbled' = (garbled \/ responses # <<>>)
  /\ Failed
  /\ UNCHANGED <<is_shutdown, pending, requests, responses, workerVars, ready, boundVars>>

\* A read that starts inside a frame takes the bytes there for a length: it
\* fails, having passed over some of what there is; it may end at a frame.
ReadGarbled ==
  /\ call.sent /\ garbled
  /\ responses # <<>>
  /\ Resume("failed")
  /\ \E n \in 0..Len(responses) :
       /\ \A i \in 1..n : responses[i].whole
       /\ responses' = SubSeq(responses, n + 1, Len(responses))
       /\ garbled' \in IF n = 0 THEN {TRUE} ELSE BOOLEAN
  /\ Failed
  /\ UNCHANGED <<is_shutdown, pending, requests, workerVars, ready, boundVars>>

\* The write failed, or the stream ends before a whole frame.
Closed ==
  /\ call # NoCall
  /\ ~call.sent \/ (Gone /\ (responses = <<>> \/ Partial))
  /\ Resume("failed")
  /\ responses' = IF call.sent THEN <<>> ELSE responses
  /\ Failed
  /\ UNCHANGED <<is_shutdown, pending, requests, garbled, workerVars, ready, boundVars>>

CallEnds == Receive \/ TimeOut \/ ReadGarbled \/ Closed

-----------------------------------------------------------------------------
(* The user, through HostBackend *)

\* HostBackend::set_parameter: onto the shared queue, crashed or not.
SetParameter ==
  /\ main = "idle"
  /\ made < MaxChanges
  /\ \E p \in Params : ids' = Append(ids, p)
  /\ pending' = Append(pending, made')
  /\ UNCHANGED <<main, call, crashed, is_shutdown, mapped, socketVars, workerVars,
                 audioVars, asked, history>>

\* get_component_state and set_component_state
StateRequest ==
  /\ main = "idle"
  /\ asked < MaxRequests
  /\ asked' = asked + 1
  /\ main' \in {"GetState", "SetState"}
  /\ UNCHANGED <<call, crashed, is_shutdown, mapped, pending, socketVars, workerVars,
                 audioVars, ids, history>>

\* deactivate_plugin: the stream is stopped, then the proxy is shut down.
Deactivate ==
  /\ main = "idle"
  /\ main' = "Shutdown"
  /\ UNCHANGED <<call, crashed, is_shutdown, mapped, pending, socketVars, workerVars,
                 audioVars, boundVars, history>>

\* Mutant: the worker is only waited for.
ReapNoKill ==
  /\ main = "reaping"
  /\ main' = "done"
  /\ mapped' = FALSE
  /\ UNCHANGED <<call, crashed, is_shutdown, pending, socketVars, workerVars,
                 audioVars, boundVars, history>>

\* shutdown: the child is waited for; after five seconds it is killed.
Reap ==
  /\ main = "reaping"
  /\ main' = "done"
  /\ mapped' = FALSE
  /\ worker' = IF Gone THEN worker ELSE [worker EXCEPT !.process = "killed"]
  /\ UNCHANGED <<call, crashed, is_shutdown, pending, socketVars, busy, changeVars,
                 segment, audioVars, boundVars, history>>

-----------------------------------------------------------------------------
(* run_worker *)

\* The next request is read, once the last response is written.
Take ==
  /\ worker.process = "running"
  /\ busy = NoRequest /\ ~Writing
  /\ requests # <<>>
  /\ busy' = Head(requests)
  /\ requests' = Tail(requests)
  /\ UNCHANGED <<proxyVars, responses, garbled, worker, changeVars, segment, audioVars, boundVars, history>>

Serves(kind) == worker.process = "running" /\ busy.kind = kind

\* The block handled is the last one asked for.
LastBlock ==
  busy.kind = "Process" /\ \A i \in DOMAIN requests : requests[i].kind # "Process"

\* The output of a processed block is in the memory before the response is written.
Reply(result) ==
  /\ \E whole \in BOOLEAN :
       responses' = Append(responses, [to |-> busy.kind, result |-> result, whole |-> whole])
  /\ busy' = NoRequest
  /\ ready' = (ready \/ (result = "ok" /\ LastBlock))
  /\ UNCHANGED <<proxyVars, requests, garbled, played, boundVars, history>>

FinishWrite ==
  /\ worker.process = "running"
  /\ Writing
  /\ responses' = [responses EXCEPT ![Len(responses)] = [@ EXCEPT !.whole = TRUE]]
  /\ UNCHANGED <<proxyVars, requests, garbled, workerVars, audioVars, boundVars, history>>

load_plugin ==
  /\ Serves("LoadPlugin")
  /\ \/ Reply("ok") /\ worker' = [worker EXCEPT !.plugin = "loaded"]
     \/ Reply("error") /\ UNCHANGED worker
  /\ UNCHANGED <<changeVars, segment>>

\* Mutant: an existing object is taken over.
ConfigureTakesOver ==
  /\ Serves("Configure")
  /\ Reply("ok")
  /\ worker' = [worker EXCEPT !.plugin = "configured"]
  /\ segment' = IF segment = "none" THEN "own" ELSE segment
  /\ UNCHANGED changeVars

\* ShmAudioBuffer::create is exclusive: an object of that name is an error.
Creates == segment = "none" /\ segment' = "own"

\* Drop for ShmAudioBuffer in its owner: the object is unlinked.
Unlinks == segment' = IF segment = "own" THEN "none" ELSE segment

\* The memory is created, under a name that must be new, before the plugin is set up.
configure ==
  /\ Serves("Configure")
  /\ \/ /\ worker.plugin # "none"
        /\ Creates
        /\ Reply("ok")
        /\ worker' = [worker EXCEPT !.plugin = "configured"]
     \/ Reply("error") /\ UNCHANGED <<worker, segment>>
  /\ UNCHANGED changeVars

activate ==
  /\ Serves("Activate")
  /\ \/ Reply("ok") /\ worker.plugin # "none" /\ worker' = [worker EXCEPT !.plugin = "active"]
     \/ Reply("error") /\ UNCHANGED worker
     \/ Reply("error") /\ worker' = [worker EXCEPT !.crashed = TRUE]
  /\ UNCHANGED <<changeVars, segment>>

\* Mutant: the last queue of the list is never used.
HasRoomButLast(queued, n) ==
  LET points == {m \in queued : ids[m] = ids[n]}
  IN  IF points # {} THEN Cardinality(points) < MaxPoints
                     ELSE Cardinality({ids[m] : m \in queued}) < MaxQueues - 1

\* HostParameterChanges::add_change: is change n taken besides those that are queued?
HasRoom(queued, n) ==
  LET points == {m \in queued : ids[m] = ids[n]}
  IN  IF points # {} THEN Cardinality(points) < MaxPoints
                     ELSE Cardinality({ids[m] : m \in queued}) < MaxQueues

\* out is what is refused of a block's changes, added in turn to what is queued.
Overflow(queued, out) ==
  \A i \in DOMAIN busy.changes :
    LET before == {busy.changes[j] : j \in 1..(i - 1)}
    IN  busy.changes[i] \in out <=> ~HasRoom(queued \cup (before \ out), busy.changes[i])

\* The changes of out, each with the first change of its block.
Refuse(out) ==
  refused' = refused \cup {[change |-> n, first |-> busy.changes[1]] : n \in out}

\* Mutant: the queues are not cleared, and still hold what earlier blocks put there.
AddChangesUncleared ==
  /\ handed' = handed \o busy.changes
  /\ \E out \in SUBSET ToSet(busy.changes) :
       Overflow(ToSet(handed) \ {r.change : r \in refused}, out) /\ Refuse(out)

\* The queues are cleared, and the changes added one by one: that one is
\* refused is not looked at, and it is not tried again.
AddChanges ==
  /\ handed' = handed \o busy.changes
  /\ \E out \in SUBSET ToSet(busy.changes) : Overflow({}, out) /\ Refuse(out)

\* Mutant: a crashed plugin is an error like others.
ProcessReportsError ==
  /\ Serves("Process")
  /\ \/ /\ ~worker.crashed
        /\ AddChanges
        /\ \/ Reply("ok") /\ UNCHANGED worker
           \/ Reply("error") /\ worker' = [worker EXCEPT !.crashed = TRUE]
     \/ worker.crashed /\ Reply("error") /\ UNCHANGED <<changeVars, worker>>
  /\ UNCHANGED segment

\* A block: a crash of the plugin is caught, and reported from then on.
process ==
  /\ Serves("Process")
  /\ \/ /\ ~worker.crashed
        /\ AddChanges
        /\ \/ Reply("ok") /\ UNCHANGED worker
           \/ Reply("crashed") /\ worker' = [worker EXCEPT !.crashed = TRUE]
     \/ worker.crashed /\ Reply("crashed") /\ UNCHANGED <<changeVars, worker>>
  /\ UNCHANGED segment

query_parameters ==
  /\ Serves("QueryParameters")
  /\ Reply("ok")
  /\ UNCHANGED <<worker, changeVars, segment>>

\* A plugin that crashes here gives an empty state and is not marked.
get_state ==
  /\ Serves("GetState")
  /\ Reply("ok")
  /\ UNCHANGED <<worker, changeVars, segment>>

set_state ==
  /\ Serves("SetState")
  /\ \/ Reply("ok") /\ UNCHANGED worker
     \/ Reply("error") /\ UNCHANGED worker
     \/ Reply("error") /\ worker' = [worker EXCEPT !.crashed = TRUE]
  /\ UNCHANGED <<changeVars, segment>>

\* Mutant: the memory is unmapped and not unlinked.
ShutdownKeepsSegment ==
  /\ Serves("Shutdown")
  /\ Reply("ok")
  /\ worker' = [worker EXCEPT !.plugin = "none"]
  /\ UNCHANGED <<changeVars, segment>>

\* The plugin is dropped, then the memory, which its owner unlinks.
shutdown ==
  /\ Serves("Shutdown")
  /\ Reply("ok")
  /\ worker' = [worker EXCEPT !.plugin = "none"]
  /\ Unlinks
  /\ UNCHANGED changeVars

\* The loop is left after ShutdownAck, and when there is no host to connect to.
Exit ==
  /\ \/ /\ worker.process = "running" /\ responses # <<>> /\ ~Writing
        /\ Last(responses).to = "Shutdown"
     \/ worker.process = "starting" /\ main = "refused"
  /\ worker' = [worker EXCEPT !.process = "exited"]
  /\ UNCHANGED <<proxyVars, socketVars, busy, changeVars, segment, audioVars, boundVars, history>>

\* The plugin takes the process with it: a signal the sandbox does not catch,
\* or one on a thread of the plugin's own.
Die ==
  /\ worker.process \in {"starting", "running"}
  /\ worker' = [worker EXCEPT !.process = "killed"]
  /\ busy' = NoRequest
  /\ requests' = <<>>
  /\ UNCHANGED <<proxyVars, responses, garbled, changeVars, segment, audioVars, boundVars, history>>

-----------------------------------------------------------------------------
Handle == load_plugin \/ configure \/ activate \/ process \/ query_parameters
          \/ get_state \/ set_state \/ shutdown

Host == Accept \/ AcceptTimesOut \/ BuildStream \/ Request \/ Reap
User == SetParameter \/ StateRequest \/ Deactivate
Worker == Take \/ FinishWrite \/ Exit

Next == Host \/ AudioCallback \/ CallEnds \/ User \/ Worker \/ Handle \/ Die

\* The host's threads run, its timeouts expire, and the worker's own loop runs;
\* nothing is assumed of the plugin (Handle), of its death or of the user.
Fairness ==
  /\ WF_vars(Host)
  /\ WF_vars(AudioCallback)
  /\ WF_vars(CallEnds)
  /\ WF_vars(Worker)

Spec == Init /\ [][Next]_vars /\ Fairness

-----------------------------------------------------------------------------
(* Properties *)

\* The changes after number a, up to number b.
Numbered(a, b) == [i \in 1..(b - a) |-> a + i]

\* The requests the worker has read or will read, and has not answered.
unanswered == (IF busy = NoRequest THEN <<>> ELSE <<busy>>) \o requests

\* The two sides implement PluginService: requests are answered in order, at
\* most once each, and every call takes at most one answer (send_receive,
\* run_worker).
Service == INSTANCE PluginService WITH
  None    <- "none",
  calling <- call.kind,
  owed    <- [i \in DOMAIN responses |-> responses[i].to]
             \o [i \in DOMAIN unanswered |-> unanswered[i].kind]

ImplementsService == Service!Spec

\* The changes the plugin got before a refused one and with the same block.
GotWith(r) ==
  {n \in r.first..(r.change - 1) : \A other \in refused : other.change # n}

\* A change is kept from the plugin only by a limit of its own block.
RefusedAtLimit ==
  \A r \in refused :
    LET same == {n \in GotWith(r) : ids[n] = ids[r.change]}
    IN  \/ Cardinality(same) >= MaxPoints
        \/ same = {} /\ Cardinality({ids[n] : n \in GotWith(r)}) >= MaxQueues

\* While the plugin runs no change is lost on the way to its queues, made twice
\* or overtaken by a later one, timeouts included: the queues were handed them up
\* to a number, each unanswered request carries on from there, and the proxy has
\* the rest.  What the queues were handed the plugin gets, but for a change that
\* came in one block with MaxPoints others of its parameter, or with MaxQueues
\* other parameters, that it did get: earlier blocks never count
\* (PluginProcess::process, WorkerState::process, HostParameterChanges).
ChangesInOrder ==
  /\ ~Gone /\ ~worker.crashed =>
       \E upTo \in [0..Len(unanswered) -> 0..made] :
         /\ handed = Numbered(0, upTo[0])
         /\ \A i \in DOMAIN unanswered :
              /\ upTo[i - 1] <= upTo[i]
              /\ unanswered[i].changes = Numbered(upTo[i - 1], upTo[i])
         /\ pending = Numbered(upTo[Len(unanswered)], made)
  /\ RefusedAtLimit

\* The host never maps what a dead worker of the same pid has left behind, and a
\* worker that ends by itself leaves nothing behind for the next.  As long as no
\* call has failed the device plays the block it asked for, never one the memory
\* holds from before, though the ready flag that is to coordinate the two sides
\* is never read (ShmAudioBuffer create, open and drop; PluginProcess::spawn and
\* process, WorkerState::process and shutdown).
SharedMemoryIsOwn ==
  /\ mapped => segment # "stale"
  /\ worker.process = "exited" => segment # "own"
  /\ ~history.failed => played # "other"

\* Whatever the worker is doing, no process outlives the host's interest in
\* it: not after shutdown, not when it connects too late (shutdown, run_worker).
NoOrphan == main \in {"Shutdown", "reaping", "refused"} ~> Gone

\* Every activation ends in a playing plugin or with the worker shut down
\* (PluginProcess::spawn, activate_plugin_sandboxed).
SpawnEnds == main = "accepting" ~> main \in {"idle", "done", "refused"}

\* A plugin that crashed is found out by the audio callback, however many
\* answers the two threads have taken from each other (is_crashed).
CrashNoticed == worker.crashed ~> crashed \/ is_shutdown
=============================================================================
