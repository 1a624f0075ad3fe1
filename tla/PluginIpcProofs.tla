--------------------------- MODULE PluginIpcProofs ---------------------------
(***************************************************************************)
(* Proofs about PluginIpc, for any number of changes and of requests: its  *)
(* types, that the host and the worker use memory of their own, that the   *)
(* parameter changes keep their order, that the two sides implement        *)
(* PluginService, and what a caller gets from any such service.            *)
(*                                                                         *)
(* What a step does to the socket is stated for sequences first: Queue for *)
(* the requests that are not answered, Owes for the kinds that are owed.   *)
(* The inductive invariant adds to the types where the segment of a dead   *)
(* worker may be known (SegmentKnown), that nothing is left on the socket  *)
(* before a call has failed (InStep), that only a block has changes, and   *)
(* that what was refused came before all that is still to be handed.       *)
(***************************************************************************)
EXTENDS PluginIpc, FiniteSetTheorems, SequenceTheorems, TLAPS

\* The requests not answered yet, with the one that is handled.
Queue(b, q) == (IF b = NoRequest THEN <<>> ELSE <<b>>) \o q

\* TypeOK in parts; a call is only under way if it has a kind.
CallTyped ==
  /\ main \in MainStates
  /\ call \in [kind : Kinds \cup {"none"}, sent : BOOLEAN]
  /\ call.kind = "none" => ~call.sent
FlagsTyped ==
  /\ crashed \in BOOLEAN /\ is_shutdown \in BOOLEAN /\ mapped \in BOOLEAN /\ garbled \in BOOLEAN
  /\ ready \in BOOLEAN /\ played \in {"silence", "own", "other"}
SocketTyped ==
  /\ requests \in Seq(Requests)
  /\ responses \in Seq(Responses)
  /\ busy \in Requests \cup {NoRequest}
ChangesTyped ==
  /\ pending \in Seq(1..MaxChanges)
  /\ handed \in Seq(1..MaxChanges)
  /\ refused \subseteq [change : 1..MaxChanges, first : 1..MaxChanges]
  /\ ids \in Seq(Params) /\ made <= MaxChanges
  /\ asked \in 0..MaxRequests
WorkerTyped ==
  /\ worker \in [process : {"starting", "running", "exited", "killed"},
                 plugin : {"none", "loaded", "configured", "active"}, crashed : BOOLEAN]
  /\ segment \in {"none", "own", "stale"}
  /\ history \in [failed : BOOLEAN, asked : Kinds \cup {"none"}, got : Kinds \cup {"none"}]

\* Nobody knows the object a killed worker left behind, and an object made by
\* this worker is unlinked before its loop can be left.
SegmentKnown ==
  /\ segment = "stale" =>
       ~mapped /\ \A i \in DOMAIN responses :
                       ~(responses[i].to = "Configure" /\ responses[i].result = "ok")
  /\ segment = "own" =>
       /\ worker.process \notin {"starting", "exited"}
       /\ responses # <<>> => responses[Len(responses)].to # "Shutdown"

\* As long as no call has failed nothing is on its way but what the call under
\* way waits for, and a processed block that waits for it is in the memory.
InStep ==
  ~history.failed =>
    /\ Len(responses) + Len(Queue(busy, requests)) <= (IF call.kind = "none" THEN 0 ELSE 1)
    /\ responses # <<>> /\ responses[1].to = "Process" /\ responses[1].result = "ok" => ready
    /\ played # "other"

\* Only a block carries changes.
OnlyBlocksCarry ==
  /\ busy.kind # "Process" => busy.changes = <<>>
  /\ \A i \in DOMAIN requests : requests[i].kind # "Process" => requests[i].changes = <<>>

\* ChangesInOrder for a queue of requests, the changes given and those kept.
InOrder(us, given, kept, m) ==
  \E upTo \in [0..Len(us) -> 0..m] :
    /\ given = Numbered(0, upTo[0])
    /\ \A i \in DOMAIN us :
         /\ upTo[i - 1] <= upTo[i]
         /\ us[i].changes = Numbered(upTo[i - 1], upTo[i])
    /\ kept = Numbered(upTo[Len(us)], m)

\* While the plugin runs the changes are in order, whatever is on its way.
ChangesStand == ~Gone /\ ~worker.crashed => InOrder(Queue(busy, requests), handed, pending, made)

\* RefusedAtLimit for one change, the refused ones rs and parameters is.
AtLimit(r, rs, is) ==
  LET got  == {n \in r.first..(r.change - 1) : \A other \in rs : other.change # n}
      same == {n \in got : is[n] = is[r.change]}
  IN  \/ Cardinality(same) >= MaxPoints
      \/ same = {} /\ Cardinality({is[n] : n \in got}) >= MaxQueues

\* A change that was refused was at a limit, and came before those still to be handed.
RefusedStand ==
  /\ \A r \in refused : r.change <= Len(handed) /\ r.change <= made
  /\ \A r \in refused : AtLimit(r, refused, ids)

-----------------------------------------------------------------------------
(* The queue of requests and the socket *)

\* What is left of a sequence without its first n elements.
LEMMA Rest ==
  ASSUME NEW S, NEW s \in Seq(S), NEW n \in 0..Len(s)
  PROVE  /\ SubSeq(s, n + 1, Len(s)) \in Seq(S)
         /\ Len(SubSeq(s, n + 1, Len(s))) = Len(s) - n
         /\ \A i \in 1..(Len(s) - n) : SubSeq(s, n + 1, Len(s))[i] = s[n + i]
  OBVIOUS

\* No request is NoRequest.
LEMMA NoRequestIsNone == NoRequest \notin Requests /\ \A r \in Requests : r.kind # "none"
  BY DEF NoRequest, Requests, Kinds, SpawnKinds

\* A request that is sent goes to the end of the queue.
LEMMA QueueAppend ==
  ASSUME NEW b \in Requests \cup {NoRequest}, NEW q \in Seq(Requests), NEW r \in Requests
  PROVE  Queue(b, q) \in Seq(Requests) /\ Queue(b, Append(q, r)) = Append(Queue(b, q), r)
<1>1. CASE b = NoRequest
  BY <1>1, ConcatEmptySeq, AppendProperties DEF Queue
<1>2. CASE b # NoRequest
  <2>1. <<b>> \in Seq(Requests) /\ <<r>> \in Seq(Requests)
    BY <1>2
  <2>2. (<<b>> \o q) \o <<r>> = <<b>> \o (q \o <<r>>)
    BY <2>1, ConcatAssociative
  <2>3. <<b>> \o q \in Seq(Requests)
    BY <2>1, ConcatProperties
  <2>4. Append(<<b>> \o q, r) = (<<b>> \o q) \o <<r>> /\ Append(q, r) = q \o <<r>>
    BY <2>3, AppendIsConcat
  <2> QED
    BY <1>2, <2>2, <2>3, <2>4 DEF Queue
<1> QED
  BY <1>1, <1>2

\* Taking a request leaves the queue as it is.
LEMMA QueueTake ==
  ASSUME NEW q \in Seq(Requests), q # <<>>
  PROVE  Queue(Head(q), Tail(q)) = Queue(NoRequest, q)
<1>1. Head(q) \in Requests /\ Tail(q) \in Seq(Requests) /\ <<Head(q)>> \in Seq(Requests)
  BY HeadTailProperties
<1>2. Len(<<Head(q)>> \o Tail(q)) = 1 + Len(Tail(q)) /\ <<Head(q)>> \o Tail(q) \in Seq(Requests)
  BY <1>1, ConcatProperties
<1>3. Len(Tail(q)) = Len(q) - 1 /\ \A i \in 1..Len(Tail(q)) : Tail(q)[i] = q[i + 1]
  BY HeadTailProperties
<1>4. \A i \in 1..Len(q) : (<<Head(q)>> \o Tail(q))[i] = q[i]
  <2> SUFFICES ASSUME NEW i \in 1..Len(q) PROVE (<<Head(q)>> \o Tail(q))[i] = q[i]
    OBVIOUS
  <2>1. (<<Head(q)>> \o Tail(q))[i] = IF i <= 1 THEN <<Head(q)>>[i] ELSE Tail(q)[i - 1]
    BY <1>1, <1>3, ConcatProperties
  <2>2. CASE i = 1
    BY <2>1, <2>2
  <2>3. CASE i > 1
    BY <2>1, <2>3, <1>3
  <2> QED
    BY <2>2, <2>3
<1>5. Len(q) \in Nat
  OBVIOUS
<1>6. <<Head(q)>> \o Tail(q) = q
  BY <1>2, <1>3, <1>4, <1>5, SeqEqual
<1> QED
  BY <1>1, <1>6, NoRequestIsNone, ConcatEmptySeq DEF Queue

\* The request the worker handles is the oldest of the queue.
LEMMA QueueAnswer ==
  ASSUME NEW b \in Requests, NEW q \in Seq(Requests)
  PROVE  /\ Queue(b, q) # <<>> /\ Head(Queue(b, q)) = b
         /\ Tail(Queue(b, q)) = Queue(NoRequest, q)
<1>1. Queue(b, q) = <<b>> \o q /\ Queue(NoRequest, q) = q
  BY NoRequestIsNone, ConcatEmptySeq DEF Queue
<1>2. <<b>> \in Seq(Requests) /\ Len(<<b>>) = 1
  OBVIOUS
<1>3. /\ <<b>> \o q \in Seq(Requests)
      /\ Len(<<b>> \o q) = 1 + Len(q)
      /\ \A i \in 1..(1 + Len(q)) : (<<b>> \o q)[i] = IF i <= 1 THEN <<b>>[i] ELSE q[i - 1]
  BY <1>2, ConcatProperties
<1>4. <<b>> \o q # <<>>
  BY <1>3, EmptySeq
<1>5. Head(<<b>> \o q) = b
  BY <1>3, <1>4
<1>6. /\ Tail(<<b>> \o q) \in Seq(Requests) /\ Len(Tail(<<b>> \o q)) = Len(q)
      /\ \A i \in 1..Len(q) : Tail(<<b>> \o q)[i] = q[i]
  BY <1>3, <1>4, HeadTailProperties
<1> QED
  BY <1>1, <1>4, <1>5, <1>6, SeqEqual

\* The queue consists of requests.
LEMMA QueueTyped ==
  ASSUME NEW b \in Requests \cup {NoRequest}, NEW q \in Seq(Requests)
  PROVE  /\ Queue(b, q) \in Seq(Requests)
         /\ Len(Queue(b, q)) = Len(q) + (IF b = NoRequest THEN 0 ELSE 1)
<1>1. CASE b = NoRequest
  BY <1>1, ConcatEmptySeq DEF Queue
<1>2. CASE b # NoRequest
  <2>1. <<b>> \in Seq(Requests) /\ Len(<<b>>) = 1
    BY <1>2
  <2>2. <<b>> \o q \in Seq(Requests) /\ Len(<<b>> \o q) = 1 + Len(q)
    BY <2>1, ConcatProperties
  <2>3. Queue(b, q) = <<b>> \o q
    BY <1>2 DEF Queue
  <2> QED
    BY <1>2, <2>2, <2>3
<1> QED
  BY <1>1, <1>2

\* Send writes a request, if any, and holds the mutex.
LEMMA SendTyped ==
  ASSUME SocketTyped, CallTyped, NEW kind \in Kinds, NEW changes \in Seq(1..MaxChanges),
                                 Send(kind, changes)
  PROVE  /\ requests' \in Seq(Requests)
         /\ call' \in [kind : Kinds \cup {"none"}, sent : BOOLEAN]
         /\ call'.kind = kind /\ call.kind = "none"
<1>1. [kind |-> kind, changes |-> changes] \in Requests
  BY Zenon DEF Requests
<1>2. Append(requests, [kind |-> kind, changes |-> changes]) \in Seq(Requests)
  BY <1>1, AppendProperties DEF SocketTyped
<1>3. (~Gone) \in BOOLEAN
  OBVIOUS
<1>4. [kind |-> kind, sent |-> ~Gone] \in [kind : Kinds \cup {"none"}, sent : BOOLEAN]
  BY <1>3, Zenon
<1>5. call' = [kind |-> kind, sent |-> ~Gone]
  BY Zenon DEF Send
<1>6. call'.kind = kind
  BY <1>5, Zenon
<1> QED
  BY <1>2, <1>4, <1>5, <1>6 DEF Send, SocketTyped, NoCall

\* Reply writes a response and ends the handler.
LEMMA ReplyTyped ==
  ASSUME SocketTyped, NEW result \in {"ok", "error", "crashed"}, busy.kind \in Kinds, Reply(result)
  PROVE  responses' \in Seq(Responses) /\ busy' = NoRequest
<1>1. PICK whole \in BOOLEAN :
           responses' = Append(responses, [to |-> busy.kind, result |-> result, whole |-> whole])
  BY DEF Reply
<1>2. [to |-> busy.kind, result |-> result, whole |-> whole] \in Responses
  BY DEF Responses
<1> QED
  BY <1>1, <1>2, AppendProperties DEF SocketTyped, Reply

-----------------------------------------------------------------------------
(* Types *)

\* The main thread and the mutex stay typed.
LEMMA CallTypedStep ==
  ASSUME CallTyped, SocketTyped, ChangesTyped, [Next]_vars
  PROVE  CallTyped'
<1>0. ASSUME NEW kind \in Kinds, NEW changes \in Seq(1..MaxChanges), Send(kind, changes),
             main' \in MainStates PROVE CallTyped'
  BY <1>0, SendTyped DEF CallTyped, Kinds, SpawnKinds
<1>1. CASE Request
  BY <1>1, <1>0, EmptySeq DEF Request, CallTyped
<1>2. CASE AudioCallback
  <2>1. "Process" \in Kinds
    BY DEF Kinds
  <2>2. PICK taken \in {pending, <<>>} : Send("Process", taken)
    BY <1>2 DEF AudioCallback
  <2>3. taken \in Seq(1..MaxChanges)
    BY <2>2, EmptySeq DEF ChangesTyped
  <2> QED
    BY <1>2, <2>1, <2>2, <2>3, <1>0 DEF AudioCallback, CallTyped
<1>3. ASSUME NEW outcome, Resume(outcome) PROVE CallTyped'
  <2>1. main' \in MainStates
    BY <1>3 DEF Resume, AfterCall, CallTyped, MainStates, Kinds, SpawnKinds
  <2>2. NoCall \in [kind : Kinds \cup {"none"}, sent : BOOLEAN] /\ ~NoCall.sent
    BY DEF NoCall
  <2> QED
    BY <1>3, <2>1, <2>2 DEF Resume, CallTyped
<1>4. CASE CallEnds
  BY <1>4, <1>3 DEF CallEnds, Receive, TimeOut, ReadGarbled, Closed
<1>5. CASE UNCHANGED <<main, call>>
  BY <1>5 DEF CallTyped
<1>6. CASE Accept \/ AcceptTimesOut \/ BuildStream \/ Reap \/ User
  BY <1>6 DEF Accept, AcceptTimesOut, BuildStream, Reap, User, SetParameter, StateRequest,
     Deactivate, CallTyped, MainStates, Kinds, SpawnKinds
<1>7. CASE Worker \/ Die \/ Handle \/ UNCHANGED vars
  BY <1>7, <1>5 DEF Worker, Take, FinishWrite, Exit, Die, Handle, load_plugin, configure,
     activate, process, query_parameters, get_state, set_state, shutdown, Reply, vars, proxyVars
<1> QED
  BY <1>1, <1>2, <1>4, <1>6, <1>7 DEF Next, Host

\* What is on the socket stays typed.
LEMMA SocketTypedStep ==
  ASSUME CallTyped, SocketTyped, ChangesTyped, [Next]_vars
  PROVE  SocketTyped'
<1>1. CASE Request
  <2>1. <<>> \in Seq(1..MaxChanges)
    BY EmptySeq
  <2> QED
    BY <1>1, <2>1, SendTyped DEF Request, SocketTyped, workerVars
<1>2. CASE AudioCallback
  <2>1. "Process" \in Kinds
    BY DEF Kinds
  <2>2. PICK taken \in {pending, <<>>} : Send("Process", taken)
    BY <1>2 DEF AudioCallback
  <2>3. taken \in Seq(1..MaxChanges)
    BY <2>2, EmptySeq DEF ChangesTyped
  <2> QED
    BY <1>2, <2>1, <2>2, <2>3, SendTyped DEF AudioCallback, SocketTyped, workerVars
<1>3. CASE CallEnds
  <2>1. Tail(responses) \in Seq(Responses) \/ responses = <<>>
    BY HeadTailProperties DEF SocketTyped
  <2>2. <<>> \in Seq(Responses)
    BY EmptySeq
  <2>3. \A n \in 0..Len(responses) : SubSeq(responses, n + 1, Len(responses)) \in Seq(Responses)
    BY Rest DEF SocketTyped
  <2> QED
    BY <1>3, <2>1, <2>2, <2>3 DEF CallEnds, Receive, TimeOut, ReadGarbled, Closed, SocketTyped,
       socketVars, workerVars
<1>4. CASE Take
  BY <1>4, HeadTailProperties DEF Take, SocketTyped
<1>5. CASE FinishWrite
  <2>1. responses # <<>> /\ Len(responses) \in 1..Len(responses)
    BY <1>5, EmptySeq DEF FinishWrite, Writing, SocketTyped
  <2>2. responses[Len(responses)] \in Responses
    BY <2>1, ElementOfSeq DEF SocketTyped
  <2>3. [responses[Len(responses)] EXCEPT !.whole = TRUE] \in Responses
    BY <2>2 DEF Responses
  <2> QED
    BY <1>5, <2>1, <2>3, ExceptSeq DEF FinishWrite, SocketTyped, workerVars
<1>6. CASE Die
  BY <1>6, EmptySeq DEF Die, SocketTyped
<1>7. ASSUME NEW kind \in Kinds, Serves(kind), NEW result \in {"ok", "error", "crashed"},
             Reply(result)
      PROVE  SocketTyped'
  BY <1>7, ReplyTyped DEF Serves, Reply, SocketTyped
<1>8. CASE Handle
  BY <1>7, <1>8 DEF Handle, load_plugin, configure, activate, process, query_parameters,
     get_state, set_state, shutdown, Kinds, SpawnKinds
<1>9. CASE UNCHANGED <<socketVars, busy>>
  BY <1>9 DEF SocketTyped, socketVars
<1>10. CASE Accept \/ AcceptTimesOut \/ BuildStream \/ Reap \/ User \/ Exit \/ UNCHANGED vars
  BY <1>9, <1>10 DEF Accept, AcceptTimesOut, BuildStream, Reap, User, SetParameter,
     StateRequest, Deactivate, Exit, vars, workerVars
<1> QED
  BY <1>1, <1>2, <1>3, <1>4, <1>5, <1>6, <1>8, <1>10 DEF Next, Host, Worker

\* The changes are counted.
LEMMA MadeTyped ==
  ASSUME ChangesTyped
  PROVE  made \in Nat /\ made \in 0..MaxChanges
<1>1. Len(ids) \in Nat /\ Len(ids) <= MaxChanges
  BY DEF ChangesTyped, made
<1> QED
  BY <1>1, PluginIpcAssumption DEF made

\* One more change is made.
LEMMA OneMore ==
  ASSUME ChangesTyped, SetParameter
  PROVE  /\ ids' \in Seq(Params) /\ made' = made + 1 /\ made < MaxChanges
         /\ \A n \in 1..made : ids'[n] = ids[n]
<1>1. PICK p \in Params : ids' = Append(ids, p)
  BY DEF SetParameter
<1>2. ids \in Seq(Params)
  BY DEF ChangesTyped
<1>3. /\ ids' \in Seq(Params) /\ Len(ids') = Len(ids) + 1
      /\ \A n \in 1..Len(ids) : ids'[n] = ids[n]
  BY <1>1, <1>2, AppendProperties
<1> QED
  BY <1>3 DEF made, SetParameter

\* The changes of a block are handed on, and those of out refused.
LEMMA BlockTyped ==
  ASSUME ChangesTyped, busy.changes \in Seq(1..MaxChanges),
         NEW out \in SUBSET ToSet(busy.changes), Refuse(out), handed' = handed \o busy.changes
  PROVE  /\ handed' \in Seq(1..MaxChanges)
         /\ refused' \subseteq [change : 1..MaxChanges, first : 1..MaxChanges]
<1>1. handed' \in Seq(1..MaxChanges)
  BY ConcatProperties DEF ChangesTyped
<1>2. ASSUME NEW n \in out
      PROVE  [change |-> n, first |-> busy.changes[1]] \in [change : 1..MaxChanges, first : 1..MaxChanges]
  <2>1. PICK i \in DOMAIN busy.changes : n = busy.changes[i]
    BY DEF ToSet
  <2>2. PICK s \in Seq(1..MaxChanges) : s = busy.changes
    OBVIOUS
  <2>3. i \in 1..Len(s) /\ 1 \in 1..Len(s)
    BY <2>1, <2>2
  <2>4. s[i] \in 1..MaxChanges /\ s[1] \in 1..MaxChanges
    BY <2>3, ElementOfSeq
  <2> QED
    BY <2>1, <2>2, <2>4
<1> QED
  BY <1>1, <1>2 DEF Refuse, ChangesTyped

\* The changes and the bounds stay typed.
LEMMA ChangesTypedStep ==
  ASSUME SocketTyped, ChangesTyped, [Next]_vars
  PROVE  ChangesTyped'
<1>1. CASE AudioCallback
  BY <1>1, EmptySeq DEF AudioCallback, ChangesTyped, workerVars, changeVars, boundVars, made
<1>2. CASE SetParameter
  <2>1. ids' \in Seq(Params) /\ made' \in 1..MaxChanges
    BY <1>2, OneMore, MadeTyped, PluginIpcAssumption
  <2>2. pending' \in Seq(1..MaxChanges)
    BY <1>2, <2>1, AppendProperties DEF SetParameter, ChangesTyped
  <2>3. UNCHANGED <<handed, refused, asked>>
    BY <1>2 DEF SetParameter, workerVars, changeVars
  <2> QED
    BY <2>1, <2>2, <2>3, PluginIpcAssumption DEF ChangesTyped
<1>3. CASE process
  <2>1. busy.kind = "Process"
    BY <1>3 DEF process, Serves
  <2>2. busy.changes \in Seq(1..MaxChanges)
    BY <2>1 DEF SocketTyped, Requests, NoRequest
  <2>3. UNCHANGED <<pending, boundVars>>
    BY <1>3 DEF process, Reply, proxyVars
  <2>4. CASE UNCHANGED changeVars
    BY <2>3, <2>4 DEF ChangesTyped, changeVars, boundVars, made
  <2>5. CASE AddChanges
    <3>1. handed' \in Seq(1..MaxChanges)
          /\ refused' \subseteq [change : 1..MaxChanges, first : 1..MaxChanges]
      BY <2>2, <2>5, BlockTyped DEF AddChanges
    <3> QED
      BY <2>3, <3>1 DEF ChangesTyped, boundVars, made
  <2> QED
    BY <1>3, <2>4, <2>5 DEF process
<1>4. CASE UNCHANGED <<pending, changeVars, boundVars>>
  BY <1>4 DEF ChangesTyped, changeVars, boundVars, made
<1>5. CASE Host \/ CallEnds \/ Deactivate
  BY <1>4, <1>5 DEF Host, Accept, AcceptTimesOut, BuildStream, Request, Reap, CallEnds,
     Receive, TimeOut, ReadGarbled, Closed, Deactivate, workerVars
<1>6. CASE Worker \/ Die \/ UNCHANGED vars
  BY <1>4, <1>6 DEF Worker, Take, FinishWrite, Exit, Die, vars, proxyVars, workerVars
<1>7. CASE Handle /\ ~process
  BY <1>4, <1>7 DEF Handle, load_plugin, configure, activate, query_parameters, get_state,
     set_state, shutdown, Reply, proxyVars
<1>8. CASE StateRequest
  BY <1>8, PluginIpcAssumption DEF StateRequest, ChangesTyped, workerVars, changeVars, made
<1> QED
  BY <1>1, <1>2, <1>3, <1>5, <1>6, <1>7, <1>8 DEF Next, User

\* The worker and the history stay typed.
LEMMA WorkerTypedStep ==
  ASSUME CallTyped, SocketTyped, WorkerTyped, [Next]_vars
  PROVE  WorkerTyped'
<1> USE DEF WorkerTyped, workerVars
<1>1. CASE Host
  BY <1>1 DEF Host, Accept, AcceptTimesOut, BuildStream, Request, Reap
<1>2. CASE AudioCallback \/ User \/ UNCHANGED vars
  BY <1>2 DEF AudioCallback, User, SetParameter, StateRequest, Deactivate, vars
<1>3. CASE Receive
  <2>1. Head(responses).to \in Kinds
    <3>1. Head(responses) \in Responses
      BY <1>3, HeadTailProperties DEF Receive, SocketTyped
    <3> QED
      BY <3>1 DEF Responses
  <2>2. history' = [failed |-> history.failed, asked |-> call.kind, got |-> Head(responses).to]
    BY <1>3 DEF Receive
  <2>3. call.kind \in Kinds \cup {"none"}
    BY DEF CallTyped
  <2>4. history' \in [failed : BOOLEAN, asked : Kinds \cup {"none"}, got : Kinds \cup {"none"}]
    BY <2>1, <2>2, <2>3, Zenon
  <2> QED
    BY <1>3, <2>4 DEF Receive
<1>4. CASE TimeOut \/ ReadGarbled \/ Closed
  BY <1>4 DEF TimeOut, ReadGarbled, Closed, Failed
<1>5. CASE Worker \/ Die
  BY <1>5 DEF Worker, Take, FinishWrite, Exit, Die
<1>6. CASE Handle
  BY <1>6 DEF Handle, load_plugin, configure, activate, process, query_parameters, get_state,
     set_state, shutdown, Reply, Creates, Unlinks
<1> QED
  BY <1>1, <1>2, <1>3, <1>4, <1>5, <1>6 DEF Next, CallEnds

\* The flags stay typed.
LEMMA FlagsTypedStep ==
  ASSUME FlagsTyped, [Next]_vars
  PROVE  FlagsTyped'
<1> USE DEF FlagsTyped, proxyVars, socketVars, audioVars
<1>1. CASE Host
  BY <1>1 DEF Host, Accept, AcceptTimesOut, BuildStream, Request, Send, Reap
<1>2. CASE AudioCallback
  BY <1>2 DEF AudioCallback, Send
<1>3. CASE CallEnds
  BY <1>3 DEF CallEnds, Receive, TimeOut, ReadGarbled, Closed, Resume, Played, Opens
<1>4. CASE User
  BY <1>4 DEF User, SetParameter, StateRequest, Deactivate
<1>5. CASE Worker \/ Die
  BY <1>5 DEF Worker, Take, FinishWrite, Exit, Die
<1>6. CASE Handle
  BY <1>6 DEF Handle, load_plugin, configure, activate, process, query_parameters,
     get_state, set_state, shutdown, Reply
<1>7. CASE UNCHANGED vars
  BY <1>7 DEF vars
<1> QED
  BY <1>1, <1>2, <1>3, <1>4, <1>5, <1>6, <1>7 DEF Next

-----------------------------------------------------------------------------
(* The shared memory *)

\* The handler's answer goes to the end of the socket.
LEMMA ReplyAppends ==
  ASSUME SocketTyped, NEW result \in {"ok", "error", "crashed"}, busy.kind \in Kinds, Reply(result)
  PROVE  /\ responses' \in Seq(Responses) /\ Len(responses') = Len(responses) + 1
         /\ \A i \in 1..Len(responses) : responses'[i] = responses[i]
         /\ responses'[Len(responses) + 1].to = busy.kind
         /\ responses'[Len(responses) + 1].result = result
<1>1. PICK whole \in BOOLEAN :
           responses' = Append(responses, [to |-> busy.kind, result |-> result, whole |-> whole])
  BY DEF Reply
<1>2. PICK r : r = [to |-> busy.kind, result |-> result, whole |-> whole]
  OBVIOUS
<1>3. r \in Responses /\ r.to = busy.kind /\ r.result = result
  BY <1>2 DEF Responses
<1>4. responses' = Append(responses, r)
  BY <1>1, <1>2
<1>5. /\ responses' \in Seq(Responses) /\ Len(responses') = Len(responses) + 1
      /\ \A i \in 1..Len(responses) : responses'[i] = responses[i]
      /\ responses'[Len(responses) + 1] = r
  BY <1>3, <1>4, AppendProperties DEF SocketTyped
<1> QED
  BY <1>3, <1>5

\* A written response says what it said.
LEMMA WrittenTheSame ==
  ASSUME SocketTyped, FinishWrite
  PROVE  /\ responses' \in Seq(Responses) /\ Len(responses') = Len(responses)
         /\ \A i \in 1..Len(responses) :
                 responses'[i].to = responses[i].to /\ responses'[i].result = responses[i].result
<1>1. responses # <<>> /\ Len(responses) \in 1..Len(responses)
  BY EmptySeq DEF FinishWrite, Writing, SocketTyped
<1>2. responses[Len(responses)] \in Responses
  BY <1>1, ElementOfSeq DEF SocketTyped
<1>3. PICK r : r = [responses[Len(responses)] EXCEPT !.whole = TRUE]
  OBVIOUS
<1>4. r \in Responses /\ r.to = responses[Len(responses)].to
      /\ r.result = responses[Len(responses)].result
  BY <1>2, <1>3 DEF Responses
<1>5. responses' = [responses EXCEPT ![Len(responses)] = r]
  BY <1>3 DEF FinishWrite
<1>6. responses' \in Seq(Responses) /\ Len(responses') = Len(responses)
  BY <1>1, <1>4, <1>5, ExceptSeq DEF SocketTyped
<1>7. \A i \in 1..Len(responses) : responses'[i] = IF i = Len(responses) THEN r ELSE responses[i]
  BY <1>5 DEF SocketTyped
<1> QED
  BY <1>4, <1>6, <1>7

\* A call that ends takes nothing but the oldest responses.
LEMMA OldestTaken ==
  ASSUME SocketTyped, CallEnds
  PROVE  \E n \in 0..Len(responses) :
           /\ responses' \in Seq(Responses) /\ Len(responses') = Len(responses) - n
           /\ \A i \in 1..(Len(responses) - n) : responses'[i] = responses[n + i]
<1>1. Len(responses) \in Nat /\ responses \in Seq(Responses)
  BY DEF SocketTyped
<1>2. CASE Receive
  <2>1. responses # <<>> /\ responses' = Tail(responses)
    BY <1>2 DEF Receive
  <2>2. Len(responses) >= 1
    BY <1>1, <2>1, EmptySeq
  <2>3. /\ responses' \in Seq(Responses) /\ Len(responses') = Len(responses) - 1
        /\ \A i \in 1..(Len(responses) - 1) : responses'[i] = responses[1 + i]
    BY <1>1, <2>1, <2>2
  <2> QED
    BY <1>1, <2>2, <2>3
<1>3. CASE TimeOut
  BY <1>1, <1>3 DEF TimeOut
<1>4. CASE ReadGarbled
  BY <1>1, <1>4 DEF ReadGarbled
<1>5. CASE Closed
  <2>1. CASE responses' = responses
    BY <1>1, <2>1
  <2>2. CASE responses' = <<>>
    <3>1. Len(responses') = 0 /\ responses' \in Seq(Responses)
      BY <2>2, EmptySeq
    <3> QED
      BY <1>1, <3>1
  <2> QED
    BY <1>5, <2>1, <2>2 DEF Closed
<1> QED
  BY <1>2, <1>3, <1>4, <1>5 DEF CallEnds

\* SegmentKnown is inductive.
LEMMA SegmentStep ==
  ASSUME CallTyped, SocketTyped, WorkerTyped, SegmentKnown, [Next]_vars
  PROVE  SegmentKnown'
<1> USE DEF SegmentKnown, proxyVars, socketVars, workerVars, audioVars, boundVars
<1>0. /\ Len(responses) \in Nat /\ responses \in Seq(Responses)
      /\ DOMAIN responses = 1..Len(responses)
  BY DEF SocketTyped
<1>1. CASE AcceptTimesOut \/ BuildStream \/ Request \/ AudioCallback \/ User \/ Take \/ UNCHANGED vars
  BY <1>1 DEF AcceptTimesOut, BuildStream, Request, AudioCallback, User, SetParameter,
     StateRequest, Deactivate, Take, vars
<1>2. CASE Accept \/ Die
  BY <1>2 DEF Accept, Die, WorkerTyped
<1>3. CASE Reap
  BY <1>3 DEF Reap, WorkerTyped, Gone
<1>4. CASE Exit
  <2>1. CASE worker.process = "starting"
    BY <1>4, <2>1 DEF Exit, WorkerTyped
  <2>2. CASE responses # <<>> /\ Last(responses).to = "Shutdown"
    BY <1>0, <1>4, <2>2 DEF Exit, WorkerTyped, Last
  <2> QED
    BY <1>4, <2>1, <2>2 DEF Exit
<1>5. CASE FinishWrite
  <2>1. /\ responses' \in Seq(Responses) /\ Len(responses') = Len(responses)
        /\ \A i \in 1..Len(responses) :
                responses'[i].to = responses[i].to /\ responses'[i].result = responses[i].result
    BY <1>5, WrittenTheSame
  <2>2. DOMAIN responses' = 1..Len(responses) /\ responses # <<>>
    BY <1>5, <2>1 DEF FinishWrite, Writing
  <2>3. Len(responses) \in 1..Len(responses)
    BY <1>0, <2>2, EmptySeq
  <2> QED
    BY <1>0, <1>5, <2>1, <2>2, <2>3 DEF FinishWrite
<1>6. CASE CallEnds
  <2>1. PICK n \in 0..Len(responses) :
           /\ responses' \in Seq(Responses) /\ Len(responses') = Len(responses) - n
           /\ \A i \in 1..(Len(responses) - n) : responses'[i] = responses[n + i]
    BY <1>6, OldestTaken
  <2>2. UNCHANGED <<worker, segment>>
    BY <1>6 DEF CallEnds, Receive, TimeOut, ReadGarbled, Closed
  <2>3. ASSUME segment = "stale" PROVE ~mapped'
    <3>1. CASE Receive
      <4>1. Head(responses) = responses[1] /\ 1 \in DOMAIN responses
        BY <1>0, <3>1, EmptySeq DEF Receive
      <4>2. ~(call.kind = "Configure" /\ Outcome(Head(responses)) = "ok")
        BY <2>3, <4>1 DEF Outcome
      <4> QED
        BY <2>3, <3>1, <4>2 DEF Receive, Resume
    <3>2. CASE TimeOut \/ ReadGarbled \/ Closed
      <4>1. Resume("failed")
        BY <3>2 DEF TimeOut, ReadGarbled, Closed
      <4>2. mapped' = mapped
        BY <4>1 DEF Resume
      <4> QED
        BY <2>3, <4>2
    <3> QED
      BY <1>6, <3>1, <3>2 DEF CallEnds
  <2>4. DOMAIN responses' = 1..(Len(responses) - n)
    BY <1>0, <2>1
  <2>5. \A i \in DOMAIN responses' : n + i \in DOMAIN responses /\ responses'[i] = responses[n + i]
    BY <1>0, <2>1, <2>4
  <2>6. responses' # <<>> => responses'[Len(responses')] = responses[Len(responses)] /\ responses # <<>>
    <3> SUFFICES ASSUME responses' # <<>>
                 PROVE responses'[Len(responses')] = responses[Len(responses)] /\ responses # <<>>
      OBVIOUS
    <3>1. Len(responses) - n >= 1 /\ n + (Len(responses) - n) = Len(responses)
      BY <1>0, <2>1, EmptySeq
    <3> QED
      BY <1>0, <2>1, <3>1
  <2> QED
    BY <2>2, <2>3, <2>5, <2>6
<1>7. ASSUME NEW kind \in Kinds, Serves(kind), NEW result \in {"ok", "error", "crashed"},
             Reply(result),
             UNCHANGED worker.process,
             \/ segment' = segment /\ ~(kind = "Configure" /\ result = "ok") /\ kind # "Shutdown"
             \/ segment' = "own" /\ kind # "Shutdown"
             \/ segment' = "none"
             \/ segment' = segment /\ segment # "own" /\ kind # "Configure"
      PROVE  SegmentKnown'
  <2>0. busy.kind = kind /\ worker.process = "running" /\ mapped' = mapped
    BY <1>7 DEF Serves, Reply
  <2>1. /\ responses' \in Seq(Responses) /\ Len(responses') = Len(responses) + 1
        /\ \A i \in 1..Len(responses) : responses'[i] = responses[i]
        /\ responses'[Len(responses) + 1].to = kind
        /\ responses'[Len(responses) + 1].result = result
    BY <1>7, <2>0, ReplyAppends
  <2>2. DOMAIN responses' = 1..(Len(responses) + 1)
    BY <1>0, <2>1
  <2>3. \A i \in DOMAIN responses' : i \in DOMAIN responses \/ i = Len(responses) + 1
    BY <1>0, <2>2
  <2> QED
    BY <1>0, <1>7, <2>0, <2>1, <2>3
<1>8. CASE Handle
  <2>0. worker.process' = worker.process
    BY <1>8 DEF Handle, load_plugin, configure, activate, process, query_parameters,
       get_state, set_state, shutdown, WorkerTyped
  <2>1. CASE configure
    BY <1>7, <2>0, <2>1 DEF configure, Creates, Kinds, SpawnKinds
  <2>2. CASE shutdown
    BY <1>7, <2>0, <2>2 DEF shutdown, Unlinks, Kinds
  <2>3. CASE load_plugin \/ activate
    BY <1>7, <2>0, <2>3 DEF load_plugin, activate, Kinds, SpawnKinds
  <2>4. CASE process \/ query_parameters
    BY <1>7, <2>0, <2>4 DEF process, query_parameters, Kinds, SpawnKinds
  <2>5. CASE get_state \/ set_state
    BY <1>7, <2>0, <2>5 DEF get_state, set_state, Kinds, SpawnKinds
  <2> QED
    BY <1>8, <2>1, <2>2, <2>3, <2>4, <2>5 DEF Handle
<1> QED
  BY <1>1, <1>2, <1>3, <1>4, <1>5, <1>6, <1>8 DEF Next, Host, Worker

\* InStep is inductive.
LEMMA InStepStep ==
  ASSUME CallTyped, SocketTyped, ChangesTyped, WorkerTyped, FlagsTyped, InStep, [Next]_vars
  PROVE  InStep'
<1> DEFINE Count(b) == IF b = NoRequest THEN 0 ELSE 1
<1> DEFINE Wanted(c) == IF c.kind = "none" THEN 0 ELSE 1
<1>0. /\ Len(responses) \in Nat /\ responses \in Seq(Responses) /\ Len(requests) \in Nat
      /\ (responses = <<>>) = (Len(responses) = 0)
  BY EmptySeq DEF SocketTyped
<1>1. Len(Queue(busy, requests)) = Len(requests) + Count(busy)
  BY QueueTyped DEF SocketTyped
<1>2. SocketTyped'
  BY SocketTypedStep
<1>3. Len(Queue(busy, requests)') = Len(requests') + Count(busy')
  BY <1>2, QueueTyped DEF SocketTyped
<1>4. CASE history.failed
  <2>1. CASE Host \/ AudioCallback \/ User \/ Worker \/ Die \/ UNCHANGED vars
    <3>1. UNCHANGED history
      BY <2>1 DEF Host, Accept, AcceptTimesOut, BuildStream, Request, Reap, AudioCallback, User,
         SetParameter, StateRequest, Deactivate, Worker, Take, FinishWrite, Exit, Die, vars
    <3> QED
      BY <1>4, <3>1 DEF InStep
  <2>2. CASE Handle
    <3>1. UNCHANGED history
      BY <2>2 DEF Handle, load_plugin, configure, activate, process, query_parameters, get_state,
         set_state, shutdown, Reply
    <3> QED
      BY <1>4, <3>1 DEF InStep
  <2>3. CASE CallEnds
    <3>1. CASE Receive
      BY <1>4, <3>1 DEF Receive, InStep
    <3>2. CASE TimeOut \/ ReadGarbled \/ Closed
      <4>1. history'.failed
        BY <3>2 DEF TimeOut, ReadGarbled, Closed, Failed, WorkerTyped
      <4> QED
        BY <4>1 DEF InStep
    <3> QED
      BY <2>3, <3>1, <3>2 DEF CallEnds
  <2> QED
    BY <2>1, <2>2, <2>3 DEF Next
<1>5. CASE ~history.failed
  <2>0. /\ Len(responses) + (Len(requests) + Count(busy)) <= Wanted(call)
        /\ responses # <<>> /\ responses[1].to = "Process" /\ responses[1].result = "ok" => ready
        /\ played # "other"
    BY <1>1, <1>5 DEF InStep
  <2>1. ASSUME Len(responses') + (Len(requests') + Count(busy')) <= Wanted(call'),
               responses' # <<>> /\ responses'[1].to = "Process" /\ responses'[1].result = "ok"
                 => ready',
               played' # "other"
        PROVE  InStep'
    BY <1>3, <2>1 DEF InStep
  <2> HIDE DEF Count, Wanted
  <2>2. CASE UNCHANGED <<responses, requests, busy, call, ready, played>>
    <3>1. Len(responses') + (Len(requests') + Count(busy')) <= Wanted(call')
      BY <2>0, <2>2
    <3> QED
      BY <2>0, <2>1, <2>2, <3>1
  <2>3. CASE Accept \/ AcceptTimesOut \/ BuildStream \/ Reap \/ User \/ Exit \/ UNCHANGED vars
    BY <2>2, <2>3 DEF Accept, AcceptTimesOut, BuildStream, Reap, User, SetParameter, StateRequest,
       Deactivate, Exit, vars, proxyVars, socketVars, workerVars, audioVars
  <2>4. ASSUME NEW kind \in Kinds, NEW changes, Send(kind, changes),
               UNCHANGED <<responses, busy, played>>
        PROVE  InStep'
    <3>1. Wanted(call) = 0 /\ Wanted(call') = 1
      BY <2>4 DEF Send, NoCall, Wanted, Kinds, SpawnKinds
    <3>2. Len(responses) = 0 /\ Len(requests) = 0 /\ Count(busy) = 0
      BY <1>0, <2>0, <3>1 DEF Count
    <3>3. Len(requests') <= 1
      BY <2>4, <3>2, AppendProperties DEF Send, SocketTyped
    <3>4. Len(responses') + (Len(requests') + Count(busy')) <= Wanted(call')
      BY <1>2, <2>4, <3>1, <3>2, <3>3 DEF SocketTyped
    <3> QED
      BY <1>0, <2>0, <2>1, <2>4, <3>2, <3>4
  <2>5. CASE Request
    BY <2>4, <2>5 DEF Request, workerVars, audioVars
  <2>6. CASE AudioCallback
    BY <2>4, <2>6 DEF AudioCallback, workerVars, Kinds
  <2>7. CASE Receive
    <3>1. Len(responses) >= 1 /\ Head(responses) = responses[1]
      BY <1>0, <2>7 DEF Receive
    <3>2. Wanted(call) = 1
      BY <2>7 DEF Receive, CallTyped, Wanted
    <3>9. Count(busy) \in {0, 1}
      BY DEF Count
    <3>3. Len(responses) = 1 /\ Len(requests) = 0 /\ Count(busy) = 0
      <4>1. PICK p \in Nat, q \in Nat, c \in Nat :
                 p = Len(responses) /\ q = Len(requests) /\ c = Count(busy)
        BY <1>0, <3>9
      <4>2. p >= 1 /\ p + (q + c) <= 1
        BY <2>0, <3>1, <3>2, <4>1
      <4>3. p = 1 /\ q = 0 /\ c = 0
        BY <4>2
      <4> QED
        BY <4>1, <4>3
    <3>4. Len(responses') = 0 /\ responses' = <<>>
      BY <1>0, <2>7, <3>3, EmptySeq DEF Receive
    <3>5. played' # "other"
      BY <2>0, <2>7, <3>1 DEF Receive, Resume, Played, Outcome
    <3>6. Wanted(call') = 0
      BY <2>7 DEF Receive, Resume, Wanted, NoCall
    <3>7. UNCHANGED <<requests, busy>>
      BY <2>7 DEF Receive, workerVars
    <3>8. Len(responses') + (Len(requests') + Count(busy')) <= Wanted(call')
      BY <3>3, <3>4, <3>6, <3>7
    <3> QED
      BY <2>1, <3>4, <3>5, <3>8
  <2>8. CASE TimeOut \/ ReadGarbled \/ Closed
    <3>1. history'.failed
      BY <2>8 DEF TimeOut, ReadGarbled, Closed, Failed, WorkerTyped
    <3> QED
      BY <3>1 DEF InStep
  <2>9. CASE Take
    <3>1. Len(requests') = Len(requests) - 1 /\ Head(requests) \in Requests
      BY <2>9, HeadTailProperties DEF Take, SocketTyped
    <3>2. Count(busy) = 0 /\ Count(busy') = 1
      BY <2>9, <3>1, NoRequestIsNone DEF Take, Count
    <3>3. UNCHANGED <<responses, call, ready, played>>
      BY <2>9 DEF Take, proxyVars, audioVars
    <3>4. Len(responses') + (Len(requests') + Count(busy')) <= Wanted(call')
      BY <1>0, <2>0, <3>1, <3>2, <3>3
    <3> QED
      BY <2>0, <2>1, <3>3, <3>4
  <2>10. CASE FinishWrite
    <3>1. /\ responses' \in Seq(Responses) /\ Len(responses') = Len(responses)
          /\ \A i \in 1..Len(responses) :
                  responses'[i].to = responses[i].to /\ responses'[i].result = responses[i].result
      BY <2>10, WrittenTheSame
    <3>2. UNCHANGED <<requests, busy, call, ready, played>> /\ responses # <<>>
      BY <2>10 DEF FinishWrite, proxyVars, audioVars, workerVars, Writing
    <3>3. 1 \in 1..Len(responses)
      BY <1>0, <3>2
    <3>4. Len(responses') + (Len(requests') + Count(busy')) <= Wanted(call')
      BY <2>0, <3>1, <3>2
    <3> QED
      BY <2>0, <2>1, <3>1, <3>2, <3>3, <3>4
  <2>11. CASE Die
    <3>1. UNCHANGED <<responses, call, ready, played>> /\ Len(requests') = 0 /\ Count(busy') = 0
      BY <2>11, EmptySeq DEF Die, proxyVars, audioVars, Count
    <3>2. Count(busy) \in Nat
      BY DEF Count
    <3>3. Len(responses') + (Len(requests') + Count(busy')) <= Wanted(call')
      BY <1>0, <2>0, <3>1, <3>2 DEF Wanted
    <3> QED
      BY <2>0, <2>1, <3>1, <3>3
  <2>12. ASSUME NEW kind \in Kinds, Serves(kind), NEW result \in {"ok", "error", "crashed"},
                Reply(result)
         PROVE  InStep'
    <3>1. /\ responses' \in Seq(Responses) /\ Len(responses') = Len(responses) + 1
          /\ responses'[Len(responses) + 1].to = kind
          /\ responses'[Len(responses) + 1].result = result
      BY <2>12, ReplyAppends DEF Serves
    <3>2. Count(busy) = 1 /\ Count(busy') = 0
      BY <2>12 DEF Count, Serves, Reply, NoRequest, Kinds, SpawnKinds
    <3>3. UNCHANGED <<requests, call, played>>
      BY <2>12 DEF Reply, proxyVars
    <3>4. Wanted(call) \in {0, 1}
      BY DEF Wanted
    <3>5. Len(responses) = 0 /\ Len(requests) = 0
      BY <1>0, <2>0, <3>2, <3>4
    <3>6. Len(responses') + (Len(requests') + Count(busy')) <= Wanted(call')
      BY <1>0, <2>0, <3>1, <3>2, <3>3
    <3>8. kind = "Process" => LastBlock
      BY <2>12, <3>5 DEF LastBlock, Serves, SocketTyped
    <3>9. kind = "Process" /\ result = "ok" => ready'
      BY <2>12, <3>8 DEF Reply
    <3> QED
      BY <2>0, <2>1, <3>1, <3>3, <3>5, <3>6, <3>9
  <2>13. CASE Handle
    BY <2>12, <2>13 DEF Handle, load_plugin, configure, activate, process, query_parameters,
       get_state, set_state, shutdown, Kinds, SpawnKinds
  <2> QED
    BY <2>3, <2>5, <2>6, <2>7, <2>8, <2>9, <2>10, <2>11, <2>13 DEF Next, Host, CallEnds, Worker
<1>6. history.failed \in BOOLEAN
  BY DEF WorkerTyped
<1> QED
  BY <1>4, <1>5, <1>6

-----------------------------------------------------------------------------
(* The changes *)

\* What Numbered is.
LEMMA NumberedTyped ==
  ASSUME NEW a \in Nat, NEW b \in Nat, a <= b
  PROVE  /\ Numbered(a, b) \in Seq(Nat) /\ Len(Numbered(a, b)) = b - a
         /\ \A i \in 1..(b - a) : Numbered(a, b)[i] = a + i
<1>1. b - a \in Nat
  OBVIOUS
<1>2. PICK s : s = Numbered(a, b)
  OBVIOUS
<1>3. s = [i \in 1..(b - a) |-> a + i]
  BY <1>2 DEF Numbered
<1>4. s \in Seq(Nat) /\ Len(s) = b - a /\ \A i \in 1..(b - a) : s[i] = a + i
  BY <1>1, <1>3
<1> QED
  BY <1>2, <1>4

\* There is nothing between a number and itself.
LEMMA NumberedNone ==
  ASSUME NEW a \in Nat, NEW b \in Nat, a <= b
  PROVE  (Numbered(a, b) = <<>>) <=> a = b
<1>1. PICK s : s = Numbered(a, b)
  OBVIOUS
<1>2. s \in Seq(Nat) /\ Len(s) = b - a
  BY <1>1, NumberedTyped
<1>3. (s = <<>>) <=> Len(s) = 0
  BY <1>2, EmptySeq
<1> QED
  BY <1>1, <1>2, <1>3

\* The next number.
LEMMA NumberedAppend ==
  ASSUME NEW a \in Nat, NEW b \in Nat, a <= b
  PROVE  Append(Numbered(a, b), b + 1) = Numbered(a, b + 1)
<1>1. PICK s : s = Numbered(a, b)
  OBVIOUS
<1>0. PICK c \in Nat : c = b + 1
  OBVIOUS
<1>2. PICK t : t = Numbered(a, c)
  OBVIOUS
<1>3. s \in Seq(Nat) /\ Len(s) = b - a /\ \A i \in 1..(b - a) : s[i] = a + i
  BY <1>1, NumberedTyped
<1>4. b + 1 \in Nat /\ a <= c
  BY <1>0
<1>5. t \in Seq(Nat) /\ Len(t) = c - a /\ \A i \in 1..(c - a) : t[i] = a + i
  BY <1>2, <1>4, NumberedTyped
<1>6. PICK u : u = Append(s, b + 1)
  OBVIOUS
<1>7. /\ u \in Seq(Nat) /\ Len(u) = b - a + 1
      /\ \A i \in 1..Len(s) : u[i] = s[i]
      /\ u[Len(s) + 1] = b + 1
  BY <1>3, <1>4, <1>6
<1>8. \A i \in 1..(b + 1 - a) : u[i] = t[i]
  <2> SUFFICES ASSUME NEW i \in 1..(b + 1 - a) PROVE u[i] = t[i]
    OBVIOUS
  <2>1. CASE i = b + 1 - a
    BY <1>0, <1>3, <1>5, <1>7, <2>1
  <2>2. CASE i \in 1..(b - a)
    BY <1>0, <1>3, <1>5, <1>7, <2>2
  <2> QED
    BY <2>1, <2>2
<1>9. u = t
  <2>1. Len(u) = b + 1 - a /\ Len(t) = b + 1 - a
    BY <1>0, <1>5, <1>7
  <2>2. Len(u) = Len(t) /\ \A i \in 1..Len(u) : u[i] = t[i]
    BY <1>8, <2>1
  <2> QED
    BY <1>5, <1>7, <2>2, SeqEqual
<1> QED
  BY <1>0, <1>1, <1>2, <1>6, <1>9

\* Concatenation, for sequences of numbers.
LEMMA JoinedNumbers ==
  ASSUME NEW s \in Seq(Nat), NEW t \in Seq(Nat)
  PROVE  /\ s \o t \in Seq(Nat)
         /\ Len(s \o t) = Len(s) + Len(t)
         /\ \A i \in 1..Len(s) : (s \o t)[i] = s[i]
         /\ \A i \in 1..Len(t) : (s \o t)[Len(s) + i] = t[i]
  OBVIOUS

\* Numbers that follow each other.
LEMMA NumberedJoin ==
  ASSUME NEW a \in Nat, NEW b \in Nat, NEW c \in Nat, a <= b, b <= c
  PROVE  Numbered(a, b) \o Numbered(b, c) = Numbered(a, c)
<1>1. PICK s : s = Numbered(a, b)
  OBVIOUS
<1>2. PICK t : t = Numbered(b, c)
  OBVIOUS
<1>3. PICK u : u = Numbered(a, c)
  OBVIOUS
<1>4. s \in Seq(Nat) /\ Len(s) = b - a /\ \A i \in 1..(b - a) : s[i] = a + i
  BY <1>1, NumberedTyped
<1>5. t \in Seq(Nat) /\ Len(t) = c - b /\ \A i \in 1..(c - b) : t[i] = b + i
  BY <1>2, NumberedTyped
<1>6. a <= c
  OBVIOUS
<1>7. u \in Seq(Nat) /\ Len(u) = c - a /\ \A i \in 1..(c - a) : u[i] = a + i
  BY <1>3, <1>6, NumberedTyped
<1>8. PICK v : v = s \o t
  OBVIOUS
<1>9. /\ v \in Seq(Nat) /\ Len(v) = Len(s) + Len(t)
      /\ \A i \in 1..Len(s) : v[i] = s[i]
      /\ \A i \in 1..Len(t) : v[Len(s) + i] = t[i]
  BY <1>4, <1>5, <1>8, JoinedNumbers
<1>12. Len(v) = c - a
  BY <1>4, <1>5, <1>9
<1>10. \A i \in 1..(c - a) : v[i] = u[i]
  <2> SUFFICES ASSUME NEW i \in 1..(c - a) PROVE v[i] = u[i]
    OBVIOUS
  <2>1. CASE i <= b - a
    BY <1>4, <1>7, <1>9, <2>1
  <2>2. CASE i > b - a
    <3>1. i - (b - a) \in 1..(c - b) /\ (b - a) + (i - (b - a)) = i
      BY <2>2
    <3>2. v[i] = t[i - (b - a)]
      BY <1>4, <1>5, <1>9, <3>1
    <3> QED
      BY <1>5, <1>7, <3>1, <3>2
  <2> QED
    BY <2>1, <2>2
<1>11. v = u
  BY <1>7, <1>9, <1>10, <1>12, SeqEqual
<1> QED
  BY <1>1, <1>2, <1>3, <1>8, <1>11

\* A change that is made goes to the end of the queue.
LEMMA InOrderMade ==
  ASSUME NEW us \in Seq(Requests), NEW given, NEW kept, NEW m \in Nat, InOrder(us, given, kept, m)
  PROVE  InOrder(us, given, Append(kept, m + 1), m + 1)
<1>1. PICK upTo \in [0..Len(us) -> 0..m] :
        /\ given = Numbered(0, upTo[0])
        /\ \A i \in DOMAIN us :
             /\ upTo[i - 1] <= upTo[i]
             /\ us[i].changes = Numbered(upTo[i - 1], upTo[i])
        /\ kept = Numbered(upTo[Len(us)], m)
  BY DEF InOrder
<1>2. Len(us) \in 0..Len(us)
  OBVIOUS
<1>3. upTo[Len(us)] \in 0..m
  BY <1>1, <1>2
<1>4. upTo[Len(us)] \in Nat /\ upTo[Len(us)] <= m
  BY <1>3
<1>5. Append(kept, m + 1) = Numbered(upTo[Len(us)], m + 1)
  BY <1>1, <1>4, NumberedAppend
<1>6. upTo \in [0..Len(us) -> 0..(m + 1)]
  BY <1>1
<1> QED
  BY <1>1, <1>5, <1>6 DEF InOrder

\* A request carries what was kept, or nothing.
LEMMA InOrderSent ==
  ASSUME NEW us \in Seq(Requests), NEW r \in Requests, NEW given, NEW kept, NEW left, NEW m \in Nat,
         InOrder(us, given, kept, m),
         (r.changes = <<>> /\ left = kept) \/ (r.changes = kept /\ left = <<>>)
  PROVE  InOrder(Append(us, r), given, left, m)
<1>1. PICK upTo \in [0..Len(us) -> 0..m] :
        /\ given = Numbered(0, upTo[0])
        /\ \A i \in DOMAIN us :
             /\ upTo[i - 1] <= upTo[i]
             /\ us[i].changes = Numbered(upTo[i - 1], upTo[i])
        /\ kept = Numbered(upTo[Len(us)], m)
  BY DEF InOrder
<1>2. PICK n \in Nat : n = Len(us)
  OBVIOUS
<1>3. upTo[n] \in Nat /\ upTo[n] <= m
  <2>1. upTo[n] \in 0..m
    BY <1>1, <1>2
  <2> QED
    BY <2>1
<1>4. PICK q : q = Append(us, r)
  OBVIOUS
<1>5. q \in Seq(Requests) /\ Len(q) = n + 1 /\ (\A i \in 1..n : q[i] = us[i]) /\ q[n + 1] = r
  BY <1>2, <1>4, AppendProperties
<1>6. PICK b \in 0..m : upTo[n] <= b /\ r.changes = Numbered(upTo[n], b) /\ left = Numbered(b, m)
  <2>1. CASE r.changes = <<>> /\ left = kept
    <3>1. Numbered(upTo[n], upTo[n]) = <<>>
      BY <1>3, NumberedNone
    <3> QED
      BY <1>1, <1>2, <1>3, <2>1, <3>1
  <2>2. CASE r.changes = kept /\ left = <<>>
    <3>1. Numbered(m, m) = <<>>
      BY NumberedNone
    <3> QED
      BY <1>1, <1>2, <1>3, <2>2, <3>1
  <2> QED
    BY <2>1, <2>2
<1>7. PICK f : f = [i \in 0..(n + 1) |-> IF i <= n THEN upTo[i] ELSE b]
  OBVIOUS
<1>8. f \in [0..(n + 1) -> 0..m] /\ (\A i \in 0..n : f[i] = upTo[i]) /\ f[n + 1] = b
  BY <1>1, <1>2, <1>6, <1>7
<1>9. given = Numbered(0, f[0]) /\ left = Numbered(f[n + 1], m)
  BY <1>1, <1>6, <1>8
<1>10. \A i \in 1..(n + 1) : f[i - 1] <= f[i] /\ q[i].changes = Numbered(f[i - 1], f[i])
  <2> SUFFICES ASSUME NEW i \in 1..(n + 1)
               PROVE  f[i - 1] <= f[i] /\ q[i].changes = Numbered(f[i - 1], f[i])
    OBVIOUS
  <2>1. CASE i = n + 1
    BY <1>5, <1>6, <1>8, <2>1
  <2>2. CASE i \in 1..n
    <3>1. i \in DOMAIN us /\ i - 1 \in 0..n /\ i \in 0..n
      BY <1>2, <2>2
    <3> QED
      BY <1>1, <1>5, <1>8, <2>2, <3>1
  <2> QED
    BY <2>1, <2>2
<1>11. DOMAIN q = 1..(n + 1)
  BY <1>5
<1> QED
  BY <1>4, <1>5, <1>8, <1>9, <1>10, <1>11 DEF InOrder

\* The plugin is given what the oldest request carries.
LEMMA InOrderServed ==
  ASSUME NEW us \in Seq(Requests), us # <<>>, NEW given, NEW kept, NEW m \in Nat,
         InOrder(us, given, kept, m)
  PROVE  InOrder(Tail(us), given \o us[1].changes, kept, m)
<1>1. PICK upTo \in [0..Len(us) -> 0..m] :
        /\ given = Numbered(0, upTo[0])
        /\ \A i \in DOMAIN us :
             /\ upTo[i - 1] <= upTo[i]
             /\ us[i].changes = Numbered(upTo[i - 1], upTo[i])
        /\ kept = Numbered(upTo[Len(us)], m)
  BY DEF InOrder
<1>2. PICK n \in Nat : n + 1 = Len(us)
  <2>1. Len(us) \in Nat /\ Len(us) # 0
    BY EmptySeq
  <2> QED
    BY <2>1
<1>3. DOMAIN us = 1..(n + 1)
  BY <1>2
<1>4. PICK q : q = Tail(us)
  OBVIOUS
<1>5. q \in Seq(Requests) /\ Len(q) = n /\ \A i \in 1..n : q[i] = us[i + 1]
  BY <1>2, <1>4, HeadTailProperties
<1>6. upTo \in [0..(n + 1) -> 0..m]
  BY <1>1, <1>2
<1>7. PICK f : f = [i \in 0..n |-> upTo[i + 1]]
  OBVIOUS
<1>8. f \in [0..n -> 0..m] /\ \A i \in 0..n : f[i] = upTo[i + 1]
  BY <1>6, <1>7
<1>9. given \o us[1].changes = Numbered(0, f[0])
  <2>1. 1 \in DOMAIN us /\ 0 \in 0..(n + 1) /\ 1 \in 0..(n + 1)
    BY <1>3
  <2>2. upTo[0] \in 0..m /\ upTo[1] \in 0..m
    BY <1>6, <2>1
  <2>3. upTo[1 - 1] <= upTo[1] /\ us[1].changes = Numbered(upTo[1 - 1], upTo[1])
    BY <1>1, <2>1
  <2>4. Numbered(0, upTo[0]) \o Numbered(upTo[0], upTo[1]) = Numbered(0, upTo[1])
    <3>1. PICK a \in Nat, b \in Nat : a = upTo[0] /\ b = upTo[1]
      BY <2>2
    <3>2. 0 <= a /\ a <= b
      BY <2>3, <3>1
    <3>3. Numbered(0, a) \o Numbered(a, b) = Numbered(0, b)
      BY <3>2, NumberedJoin
    <3> QED
      BY <3>1, <3>3
  <2>5. f[0] = upTo[1]
    BY <1>8
  <2> QED
    BY <1>1, <2>3, <2>4, <2>5
<1>10. kept = Numbered(f[n], m)
  BY <1>1, <1>2, <1>8
<1>11. \A i \in 1..n : f[i - 1] <= f[i] /\ q[i].changes = Numbered(f[i - 1], f[i])
  <2> SUFFICES ASSUME NEW i \in 1..n PROVE f[i - 1] <= f[i] /\ q[i].changes = Numbered(f[i - 1], f[i])
    OBVIOUS
  <2>1. i + 1 \in DOMAIN us /\ i - 1 \in 0..n /\ i \in 0..n /\ i - 1 + 1 = i /\ i + 1 - 1 = i
    BY <1>3
  <2>2. upTo[i + 1 - 1] <= upTo[i + 1] /\ us[i + 1].changes = Numbered(upTo[i + 1 - 1], upTo[i + 1])
    BY <1>1, <2>1
  <2>3. f[i - 1] = upTo[i] /\ f[i] = upTo[i + 1]
    BY <1>8, <2>1
  <2> QED
    BY <1>5, <2>1, <2>2, <2>3
<1>12. DOMAIN q = 1..n
  BY <1>5
<1> QED
  BY <1>4, <1>5, <1>8, <1>9, <1>10, <1>11, <1>12 DEF InOrder

\* ChangesStand is inductive.
LEMMA ChangesStep ==
  ASSUME CallTyped, SocketTyped, ChangesTyped, WorkerTyped, OnlyBlocksCarry, ChangesStand, [Next]_vars
  PROVE  ChangesStand' /\ OnlyBlocksCarry'
<1>0. /\ requests \in Seq(Requests) /\ busy \in Requests \cup {NoRequest}
      /\ Queue(busy, requests) \in Seq(Requests)
  <2>1. requests \in Seq(Requests) /\ busy \in Requests \cup {NoRequest}
    BY DEF SocketTyped
  <2> QED
    BY <2>1, QueueTyped
<1>1. made \in Nat
  BY MadeTyped
<1>2. (~Gone /\ ~worker.crashed)' => ~Gone /\ ~worker.crashed
  <2>1. CASE UNCHANGED worker
    BY <2>1 DEF Gone
  <2>2. CASE Accept \/ Reap \/ Exit \/ Die
    BY <2>2 DEF Accept, Reap, Exit, Die, Gone, WorkerTyped
  <2>3. CASE Handle
    BY <2>3 DEF Handle, load_plugin, configure, activate, process, query_parameters, get_state,
       set_state, shutdown, Serves, Gone, WorkerTyped
  <2>4. CASE AcceptTimesOut \/ BuildStream \/ Request \/ AudioCallback \/ User \/ Take
             \/ FinishWrite \/ UNCHANGED vars
    BY <2>1, <2>4 DEF AcceptTimesOut, BuildStream, Request, AudioCallback, User, SetParameter,
       StateRequest, Deactivate, Take, FinishWrite, workerVars, vars
  <2>5. CASE CallEnds
    BY <2>1, <2>5 DEF CallEnds, Receive, TimeOut, ReadGarbled, Closed, workerVars
  <2> QED
    BY <2>2, <2>3, <2>4, <2>5 DEF Next, Host, Worker
<1>3. CASE UNCHANGED <<busy, requests, handed, pending, made>>
  BY <1>2, <1>3 DEF ChangesStand, OnlyBlocksCarry
<1>4. CASE Accept \/ AcceptTimesOut \/ BuildStream \/ Reap \/ StateRequest \/ Deactivate
           \/ FinishWrite \/ Exit \/ UNCHANGED vars
  BY <1>3, <1>4 DEF Accept, AcceptTimesOut, BuildStream, Reap, StateRequest, Deactivate, FinishWrite,
     Exit, vars, proxyVars, socketVars, workerVars, changeVars, boundVars, made
<1>5. CASE CallEnds
  BY <1>3, <1>5 DEF CallEnds, Receive, TimeOut, ReadGarbled, Closed, socketVars, workerVars,
     changeVars, boundVars, made
<1>6. ASSUME NEW kind \in Kinds, NEW changes \in Seq(1..MaxChanges), Send(kind, changes),
             UNCHANGED <<worker, busy, handed, made>>, kind # "Process" => changes = <<>>,
             (changes = <<>> /\ pending' = pending) \/ (changes = pending /\ pending' = <<>>)
      PROVE  ChangesStand' /\ OnlyBlocksCarry'
  <2>1. CASE Gone
    BY <1>2, <1>6, <2>1 DEF Gone, ChangesStand, OnlyBlocksCarry, Send
  <2>2. CASE ~Gone
    <3>1. PICK r : r = [kind |-> kind, changes |-> changes]
      OBVIOUS
    <3>2. r.kind = kind /\ r.changes = changes /\ r \in Requests
      BY <3>1 DEF Requests
    <3>3. requests' = Append(requests, r)
      BY <1>6, <2>2, <3>1 DEF Send
    <3>4. Queue(busy, requests') = Append(Queue(busy, requests), r)
      BY <1>0, <3>2, <3>3, QueueAppend
    <3>5. ASSUME InOrder(Queue(busy, requests), handed, pending, made)
          PROVE  InOrder(Append(Queue(busy, requests), r), handed, pending', made)
      BY <1>0, <1>1, <1>6, <3>2, <3>5, InOrderSent
    <3>6. ChangesStand'
      BY <1>2, <1>6, <3>4, <3>5 DEF ChangesStand
    <3>7. \A i \in DOMAIN requests' :
             requests'[i] = r \/ (i \in DOMAIN requests /\ requests'[i] = requests[i])
      BY <1>0, <3>2, <3>3
    <3>8. OnlyBlocksCarry'
      BY <1>6, <3>2, <3>7 DEF OnlyBlocksCarry
    <3> QED
      BY <3>6, <3>8
  <2> QED
    BY <2>1, <2>2
<1>7. CASE Request
  <2>1. <<>> \in Seq(1..MaxChanges)
    BY EmptySeq
  <2>2. main \in Kinds /\ Send(main, <<>>) /\ UNCHANGED <<worker, busy, handed, made, pending>>
    BY <1>7 DEF Request, workerVars, changeVars, boundVars, made
  <2>3. PICK kind \in Kinds, changes \in Seq(1..MaxChanges) : kind = main /\ changes = <<>>
    BY <2>1, <2>2
  <2>4. Send(kind, changes)
    BY <2>2, <2>3
  <2> QED
    BY <1>6, <2>2, <2>3, <2>4
<1>8. CASE AudioCallback
  <2>1. PICK taken \in {pending, <<>>} :
           Send("Process", taken) /\ pending' = IF taken = pending THEN <<>> ELSE pending
    BY <1>8 DEF AudioCallback
  <2>2. taken \in Seq(1..MaxChanges) /\ "Process" \in Kinds
    BY <2>1, EmptySeq DEF ChangesTyped, Kinds
  <2>3. UNCHANGED <<worker, busy, handed, made>>
    BY <1>8 DEF AudioCallback, workerVars, changeVars, boundVars, made
  <2>4. (taken = <<>> /\ pending' = pending) \/ (taken = pending /\ pending' = <<>>)
    BY <2>1
  <2> QED
    BY <1>6, <2>1, <2>2, <2>3, <2>4
<1>9. CASE SetParameter
  <2>1. /\ made' = made + 1 /\ pending' = Append(pending, made + 1)
        /\ UNCHANGED <<busy, requests, handed>>
    BY <1>9, OneMore DEF SetParameter, socketVars, workerVars, changeVars
  <2>2. ASSUME InOrder(Queue(busy, requests), handed, pending, made)
        PROVE  InOrder(Queue(busy, requests), handed, Append(pending, made + 1), made + 1)
    BY <1>0, <1>1, <2>2, InOrderMade
  <2> QED
    BY <1>2, <2>1, <2>2 DEF ChangesStand, OnlyBlocksCarry
<1>10. CASE Take
  <2>1. /\ busy = NoRequest /\ requests # <<>> /\ busy' = Head(requests) /\ requests' = Tail(requests)
        /\ UNCHANGED <<handed, pending, made>>
    BY <1>10 DEF Take, proxyVars, changeVars, boundVars, made
  <2>2. Queue(busy', requests') = Queue(busy, requests)
    BY <1>0, <2>1, QueueTake
  <2>3. ChangesStand'
    BY <1>2, <2>1, <2>2 DEF ChangesStand
  <2>4. busy' = requests[1] /\ 1 \in DOMAIN requests
        /\ \A i \in DOMAIN requests' : i + 1 \in DOMAIN requests /\ requests'[i] = requests[i + 1]
    BY <1>0, <2>1, HeadTailProperties, EmptySeq
  <2>5. OnlyBlocksCarry'
    BY <2>4 DEF OnlyBlocksCarry
  <2> QED
    BY <2>3, <2>5
<1>11. CASE Die
  <2>1. Gone' /\ busy' = NoRequest /\ requests' = <<>>
    BY <1>11 DEF Die, Gone, WorkerTyped
  <2> QED
    BY <2>1 DEF ChangesStand, OnlyBlocksCarry, NoRequest
<1>12. ASSUME NEW kind \in Kinds, Serves(kind), NEW result \in {"ok", "error", "crashed"},
              Reply(result),
              worker'.crashed \/ handed' = handed \o busy.changes
       PROVE  ChangesStand' /\ OnlyBlocksCarry'
  <2>1. busy \in Requests
    BY <1>12 DEF Serves, SocketTyped, NoRequest, Kinds, SpawnKinds
  <2>2. busy' = NoRequest /\ UNCHANGED <<requests, pending, made>>
    BY <1>12 DEF Reply, proxyVars, boundVars, made
  <2>3. /\ Queue(busy, requests) # <<>> /\ Head(Queue(busy, requests)) = busy
        /\ Tail(Queue(busy, requests)) = Queue(NoRequest, requests)
    BY <1>0, <2>1, QueueAnswer
  <2>4. Queue(busy, requests)[1] = busy
    BY <1>0, <2>3
  <2>5. ASSUME InOrder(Queue(busy, requests), handed, pending, made)
        PROVE  InOrder(Queue(NoRequest, requests), handed \o busy.changes, pending, made)
    BY <1>0, <1>1, <2>3, <2>4, <2>5, InOrderServed
  <2>6. ChangesStand'
    BY <1>2, <1>12, <2>2, <2>5 DEF ChangesStand
  <2> QED
    BY <2>2, <2>6 DEF OnlyBlocksCarry, NoRequest
<1>13. CASE process
  <2>1. "Process" \in Kinds /\ Serves("Process")
    BY <1>13 DEF process, Kinds
  <2>2. PICK result \in {"ok", "error", "crashed"} : Reply(result)
    BY <1>13 DEF process
  <2>3. worker'.crashed \/ handed' = handed \o busy.changes
    BY <1>13 DEF process, AddChanges
  <2> QED
    BY <1>12, <2>1, <2>2, <2>3
<1>14. ASSUME NEW kind \in Kinds, kind # "Process", Serves(kind),
              NEW result \in {"ok", "error", "crashed"},
              Reply(result), handed' = handed
       PROVE  ChangesStand' /\ OnlyBlocksCarry'
  <2>1. busy.changes = <<>>
    BY <1>14 DEF Serves, OnlyBlocksCarry
  <2>2. handed \o <<>> = handed
    BY ConcatEmptySeq DEF ChangesTyped
  <2>3. worker'.crashed \/ handed' = handed \o busy.changes
    BY <1>14, <2>1, <2>2
  <2> QED
    BY <1>12, <1>14, <2>3
<1>15. CASE Handle /\ ~process
  BY <1>14, <1>15 DEF Handle, load_plugin, configure, activate, query_parameters, get_state,
     set_state, shutdown, changeVars, Kinds, SpawnKinds
<1> QED
  BY <1>4, <1>5, <1>7, <1>8, <1>9, <1>10, <1>11, <1>13, <1>15 DEF Next, Host, User, Worker

-----------------------------------------------------------------------------
(* The changes that are refused *)

\* Changes made later, and refused later, do not count.
LEMMA AtLimitStays ==
  ASSUME NEW r \in [change : Nat, first : Nat \ {0}], NEW rs, NEW ts, NEW is, NEW js,
         rs \subseteq ts, \A other \in ts : other \in rs \/ other.change \notin 1..r.change,
         \A n \in 1..r.change : js[n] = is[n], r.change # 0,
         AtLimit(r, rs, is)
  PROVE  AtLimit(r, ts, js)
<1>1. PICK got : got = {n \in r.first..(r.change - 1) : \A other \in rs : other.change # n}
  OBVIOUS
<1>2. \A n \in r.first..(r.change - 1) : n \in 1..r.change
  OBVIOUS
<1>3. got = {n \in r.first..(r.change - 1) : \A other \in ts : other.change # n}
  BY <1>1, <1>2
<1>4. r.change \in 1..r.change
  OBVIOUS
<1>5. {n \in got : js[n] = js[r.change]} = {n \in got : is[n] = is[r.change]}
  BY <1>1, <1>2, <1>4
<1>6. {js[n] : n \in got} = {is[n] : n \in got}
  BY <1>1, <1>2
<1>7. \/ Cardinality({n \in got : is[n] = is[r.change]}) >= MaxPoints
      \/ {n \in got : is[n] = is[r.change]} = {} /\ Cardinality({is[n] : n \in got}) >= MaxQueues
  BY <1>1 DEF AtLimit
<1>8. \/ Cardinality({n \in got : js[n] = js[r.change]}) >= MaxPoints
      \/ {n \in got : js[n] = js[r.change]} = {} /\ Cardinality({js[n] : n \in got}) >= MaxQueues
  BY <1>5, <1>6, <1>7
<1> QED
  BY <1>3, <1>8 DEF AtLimit

\* The parameters of finitely many changes are finitely many.
LEMMA FewParameters ==
  ASSUME NEW S, IsFiniteSet(S), NEW is
  PROVE  Cardinality({is[n] : n \in S}) \in Nat
<1>1. PICK f : f = [n \in S |-> is[n]]
  OBVIOUS
<1>2. PICK T : T = {is[n] : n \in S}
  OBVIOUS
<1>3. f \in Surjection(S, T)
  BY <1>1, <1>2 DEF Surjection
<1>4. IsFiniteSet(T)
  BY <1>3, FS_Surjection
<1> QED
  BY <1>2, <1>4, FS_CardinalityType

\* What add_change has no room for is at a limit.
LEMMA NoRoom ==
  ASSUME NEW got \in SUBSET Nat, IsFiniteSet(got), NEW n \in Nat, ~HasRoom(got, n)
  PROVE  \/ Cardinality({m \in got : ids[m] = ids[n]}) >= MaxPoints
         \/ /\ {m \in got : ids[m] = ids[n]} = {}
            /\ Cardinality({ids[m] : m \in got}) >= MaxQueues
<1>1. PICK points : points = {m \in got : ids[m] = ids[n]}
  OBVIOUS
<1>2. PICK T : T = {ids[m] : m \in got}
  OBVIOUS
<1>3. Cardinality(points) \in Nat
  BY <1>1, FS_Subset, FS_CardinalityType
<1>4. Cardinality(T) \in Nat
  BY <1>2, FewParameters
<1>5. ~(IF points # {} THEN Cardinality(points) < MaxPoints ELSE Cardinality(T) < MaxQueues)
  BY <1>1, <1>2 DEF HasRoom
<1>6. Cardinality(points) >= MaxPoints \/ (points = {} /\ Cardinality(T) >= MaxQueues)
  BY <1>3, <1>4, <1>5, PluginIpcAssumption
<1> QED
  BY <1>1, <1>2, <1>6

\* RefusedStand, of a block that carries on from what was handed before.
LEMMA RefusedOfBlock ==
  ASSUME ChangesTyped, RefusedStand, NEW a \in Nat, NEW b \in Nat, a <= b, b <= made,
         handed = Numbered(0, a), busy.changes = Numbered(a, b), AddChanges, UNCHANGED ids
  PROVE  RefusedStand'
<1>1. /\ Len(handed) = a /\ Len(busy.changes) = b - a
      /\ busy.changes \in Seq(Nat) /\ DOMAIN busy.changes = 1..(b - a)
      /\ \A i \in 1..(b - a) : busy.changes[i] = a + i
  <2>1. Len(handed) = a
    BY NumberedTyped
  <2>2. PICK s : s = busy.changes
    OBVIOUS
  <2>3. s \in Seq(Nat) /\ Len(s) = b - a /\ \A i \in 1..(b - a) : s[i] = a + i
    BY <2>2, NumberedTyped
  <2>4. DOMAIN s = 1..(b - a)
    BY <2>3
  <2> QED
    BY <2>1, <2>2, <2>3, <2>4
<1>2. PICK out \in SUBSET ToSet(busy.changes) : Overflow({}, out) /\ Refuse(out)
  BY DEF AddChanges
<1>3. \A n \in out : n \in (a + 1)..b
  <2> SUFFICES ASSUME NEW n \in out PROVE n \in (a + 1)..b
    OBVIOUS
  <2>1. PICK i \in 1..(b - a) : n = busy.changes[i]
    BY <1>1, <1>2 DEF ToSet
  <2>2. n = a + i
    BY <1>1, <2>1
  <2> QED
    BY <2>2
<1>4. made' = made /\ Len(handed') = b
  <2>1. Numbered(0, a) \o Numbered(a, b) = Numbered(0, b)
    <3>1. 0 \in Nat /\ 0 <= a
      OBVIOUS
    <3> QED
      BY <3>1, NumberedJoin
  <2>2. handed' = Numbered(0, b)
    BY <2>1 DEF AddChanges
  <2>3. Len(Numbered(0, b)) = b
    BY NumberedTyped
  <2> QED
    BY <2>2, <2>3 DEF made
<1>5. made \in Nat
  BY MadeTyped
<1>6. ASSUME NEW r \in refused'
      PROVE  r \in refused \/ (\E n \in out : r = [change |-> n, first |-> busy.changes[1]])
  BY <1>2, <1>6 DEF Refuse
<1>7. ASSUME NEW r \in refused
      PROVE  /\ r \in [change : Nat, first : Nat \ {0}] /\ r.change # 0
             /\ r.change <= a /\ r.change <= made
  BY <1>1, <1>7 DEF RefusedStand, ChangesTyped
<1>8. ASSUME NEW r \in refused'
      PROVE  r.change <= Len(handed)' /\ r.change <= made'
  <2>1. CASE r \in refused
    BY <1>4, <1>5, <1>7, <2>1
  <2>2. ASSUME NEW n \in out, r = [change |-> n, first |-> busy.changes[1]]
        PROVE  r.change <= Len(handed)' /\ r.change <= made'
    <3>1. r.change = n /\ n <= b
      BY <1>3, <2>2
    <3> QED
      BY <1>3, <1>4, <1>5, <3>1
  <2> QED
    BY <1>6, <2>1, <2>2
<1>9. ASSUME NEW r \in refused PROVE AtLimit(r, refused', ids')
  <2>1. refused \subseteq refused' /\ \A n \in 1..r.change : ids'[n] = ids[n]
    BY <1>2 DEF Refuse
  <2>2. ASSUME NEW other \in refused' PROVE other \in refused \/ other.change \notin 1..r.change
    <3>1. ASSUME NEW n \in out, other = [change |-> n, first |-> busy.changes[1]]
          PROVE  other.change \notin 1..r.change
      BY <1>3, <1>7, <3>1
    <3> QED
      BY <1>6, <3>1
  <2>3. AtLimit(r, refused, ids)
    BY DEF RefusedStand
  <2> QED
    BY <1>7, <2>1, <2>2, <2>3, AtLimitStays
<1>10. ASSUME NEW n \in out, NEW r, r = [change |-> n, first |-> busy.changes[1]]
       PROVE  AtLimit(r, refused', ids')
  <2>1. PICK i \in 1..(b - a) : n = busy.changes[i]
    BY <1>1, <1>2 DEF ToSet
  <2>2. n = a + i /\ i \in DOMAIN busy.changes /\ n \in Nat
    BY <1>1, <2>1
  <2>3. r.change = n /\ r.first = a + 1
    BY <1>1, <1>10, <2>1
  <2>4. PICK before : before = {busy.changes[j] : j \in 1..(i - 1)}
    OBVIOUS
  <2>5. before = (a + 1)..(n - 1)
    <3>1. \A j \in 1..(i - 1) : busy.changes[j] = a + j
      BY <1>1
    <3>2. \A m \in (a + 1)..(n - 1) : m - a \in 1..(i - 1) /\ busy.changes[m - a] = m
      BY <2>2, <3>1
    <3>3. \A j \in 1..(i - 1) : a + j \in (a + 1)..(n - 1)
      BY <2>2
    <3> QED
      BY <2>4, <3>1, <3>2, <3>3
  <2>6. PICK got : got = {m \in r.first..(r.change - 1) : \A other \in refused' : other.change # m}
    OBVIOUS
  <2>7. got = {} \cup (before \ out)
    <3>1. ASSUME NEW m \in (a + 1)..(n - 1), NEW other \in refused', other.change = m PROVE m \in out
      <4>1. other \notin refused
        BY <1>7, <3>1
      <4> QED
        BY <1>6, <3>1, <4>1
    <3>2. ASSUME NEW m \in out PROVE \E other \in refused' : other.change = m
      <4>1. [change |-> m, first |-> busy.changes[1]] \in refused'
        BY <1>2, <3>2 DEF Refuse
      <4>2. [change |-> m, first |-> busy.changes[1]].change = m
        OBVIOUS
      <4> QED
        BY <4>1, <4>2
    <3> QED
      BY <2>3, <2>5, <2>6, <3>1, <3>2
  <2>8. ~HasRoom(got, n)
    BY <1>2, <2>1, <2>2, <2>4, <2>7 DEF Overflow
  <2>9. got \in SUBSET Nat /\ IsFiniteSet(got)
    <3>1. IsFiniteSet((a + 1)..(n - 1))
      BY <2>2, FS_Interval
    <3>2. got \in SUBSET ((a + 1)..(n - 1))
      BY <2>3, <2>6
    <3>3. \A m \in (a + 1)..(n - 1) : m \in Nat
      BY <2>2
    <3> QED
      BY <3>1, <3>2, <3>3, FS_Subset
  <2>10. \/ Cardinality({m \in got : ids[m] = ids[n]}) >= MaxPoints
         \/ {m \in got : ids[m] = ids[n]} = {} /\ Cardinality({ids[m] : m \in got}) >= MaxQueues
    BY <2>2, <2>8, <2>9, NoRoom
  <2>11. AtLimit(r, refused', ids)
    BY <2>3, <2>6, <2>10 DEF AtLimit
  <2> QED
    BY <2>11
<1>11. ASSUME NEW r \in refused' PROVE AtLimit(r, refused', ids')
  BY <1>6, <1>9, <1>10
<1> QED
  BY <1>8, <1>11 DEF RefusedStand

\* RefusedStand is inductive: the worker refuses while it runs, and then the block
\* it handles carries on from what was handed before.
LEMMA RefusedStep ==
  ASSUME SocketTyped, ChangesTyped, ChangesStand, RefusedStand, [Next]_vars
  PROVE  RefusedStand'
<1>1. CASE UNCHANGED <<changeVars, ids>>
  BY <1>1 DEF RefusedStand, changeVars, made
<1>2. CASE SetParameter
  <2>1. UNCHANGED <<handed, refused>> /\ made' = made + 1 /\ \A n \in 1..made : ids'[n] = ids[n]
    BY <1>2, OneMore DEF SetParameter, workerVars, changeVars
  <2>2. made \in Nat
    BY MadeTyped
  <2>3. ASSUME NEW r \in refused
        PROVE  /\ r \in [change : Nat, first : Nat \ {0}] /\ r.change # 0
               /\ r.change <= Len(handed) /\ r.change <= made
    BY <2>3 DEF RefusedStand, ChangesTyped
  <2>4. ASSUME NEW r \in refused PROVE AtLimit(r, refused, ids')
    <3>1. \A n \in 1..r.change : ids'[n] = ids[n]
      BY <2>1, <2>2, <2>3
    <3>2. AtLimit(r, refused, ids)
      BY DEF RefusedStand
    <3> QED
      BY <2>3, <3>1, <3>2, AtLimitStays
  <2>5. \A r \in refused' : r.change <= Len(handed)' /\ r.change <= made'
    BY <2>1, <2>2, <2>3
  <2>6. \A r \in refused' : AtLimit(r, refused', ids')
    BY <2>1, <2>4
  <2> QED
    BY <2>5, <2>6 DEF RefusedStand
<1>3. CASE process
  <2>1. Serves("Process") /\ UNCHANGED ids
    BY <1>3 DEF process, Reply, boundVars
  <2>2. CASE UNCHANGED changeVars
    BY <1>1, <2>1, <2>2
  <2>3. CASE AddChanges /\ ~worker.crashed
    <3>1. busy \in Requests /\ ~Gone
      BY <2>1 DEF Serves, SocketTyped, NoRequest, Gone
    <3>2. PICK us : us = Queue(busy, requests)
      OBVIOUS
    <3>3. us \in Seq(Requests) /\ us # <<>> /\ Head(us) = busy
      BY <3>1, <3>2, QueueAnswer, QueueTyped DEF SocketTyped
    <3>4. 1 \in DOMAIN us /\ us[1] = busy /\ Len(us) \in Nat /\ Len(us) >= 1
      BY <3>3
    <3>5. PICK upTo \in [0..Len(us) -> 0..made] :
            /\ handed = Numbered(0, upTo[0])
            /\ \A i \in DOMAIN us :
                 /\ upTo[i - 1] <= upTo[i]
                 /\ us[i].changes = Numbered(upTo[i - 1], upTo[i])
      BY <2>3, <3>1, <3>2 DEF ChangesStand, InOrder
    <3>6. 0 \in 0..Len(us) /\ 1 \in 0..Len(us)
      BY <3>4
    <3>7. PICK a \in 0..made, b \in 0..made : a = upTo[0] /\ b = upTo[1]
      BY <3>5, <3>6
    <3>8. a <= b /\ handed = Numbered(0, a) /\ busy.changes = Numbered(a, b)
      <4>1. upTo[1 - 1] <= upTo[1] /\ us[1].changes = Numbered(upTo[1 - 1], upTo[1])
        BY <3>4, <3>5
      <4> QED
        BY <3>4, <3>5, <3>7, <4>1
    <3>9. made \in Nat /\ a \in Nat /\ b \in Nat /\ b <= made
      BY <3>7, MadeTyped
    <3> QED
      BY <2>1, <2>3, <3>8, <3>9, RefusedOfBlock
  <2> QED
    BY <1>3, <2>2, <2>3 DEF process
<1>4. CASE Host \/ CallEnds \/ Deactivate \/ StateRequest \/ AudioCallback
  BY <1>1, <1>4 DEF Host, Accept, AcceptTimesOut, BuildStream, Request, Reap, CallEnds, Receive,
     TimeOut, ReadGarbled, Closed, Deactivate, StateRequest, AudioCallback, workerVars, boundVars
<1>5. CASE Worker \/ Die \/ UNCHANGED vars
  BY <1>1, <1>5 DEF Worker, Take, FinishWrite, Exit, Die, vars, workerVars, boundVars
<1>6. CASE Handle /\ ~process
  BY <1>1, <1>6 DEF Handle, load_plugin, configure, activate, query_parameters, get_state,
     set_state, shutdown, Reply, boundVars
<1> QED
  BY <1>2, <1>3, <1>4, <1>5, <1>6 DEF Next, User

-----------------------------------------------------------------------------
(* What is owed *)

\* Concatenation, for sequences of kinds.
LEMMA Joined ==
  ASSUME NEW s \in Seq(Kinds), NEW t \in Seq(Kinds)
  PROVE  /\ s \o t \in Seq(Kinds)
         /\ Len(s \o t) = Len(s) + Len(t)
         /\ \A i \in 1..Len(s) : (s \o t)[i] = s[i]
         /\ \A i \in 1..Len(t) : (s \o t)[Len(s) + i] = t[i]
  OBVIOUS

\* Sequences that agree on their first m elements and on the n others are equal.
LEMMA SameJoined ==
  ASSUME NEW s \in Seq(Kinds), NEW t \in Seq(Kinds), NEW m \in Nat, NEW n \in Nat,
         Len(s) = m + n, Len(t) = m + n,
         \A i \in 1..m : s[i] = t[i],
         \A i \in 1..n : s[m + i] = t[m + i]
  PROVE  s = t
<1>1. \A i \in 1..(m + n) : s[i] = t[i]
  <2> SUFFICES ASSUME NEW i \in 1..(m + n) PROVE s[i] = t[i]
    OBVIOUS
  <2>1. CASE i <= m
    BY <2>1
  <2>2. CASE i > m
    <3>1. i - m \in 1..n /\ m + (i - m) = i
      BY <2>2
    <3> QED
      BY <3>1
  <2> QED
    BY <2>1, <2>2
<1> QED
  BY <1>1, SeqEqual

\* The kinds owed by responses and by requests.
Owes(rs, us) == [i \in DOMAIN rs |-> rs[i].to] \o [i \in DOMAIN us |-> us[i].kind]

\* What is owed: the responses on the way, then the requests to answer.
LEMMA OwesTyped ==
  ASSUME NEW rs \in Seq(Responses), NEW us \in Seq(Requests)
  PROVE  /\ Owes(rs, us) \in Seq(Kinds)
         /\ Len(Owes(rs, us)) = Len(rs) + Len(us)
         /\ \A i \in 1..Len(rs) : Owes(rs, us)[i] = rs[i].to
         /\ \A i \in 1..Len(us) : Owes(rs, us)[Len(rs) + i] = us[i].kind
<1>1. \A r \in Responses : r.to \in Kinds
  BY DEF Responses
<1>2. \A u \in Requests : u.kind \in Kinds
  BY DEF Requests
<1>3. PICK t : t = [i \in DOMAIN rs |-> rs[i].to]
  OBVIOUS
<1>4. PICK k : k = [i \in DOMAIN us |-> us[i].kind]
  OBVIOUS
<1>5. t \in Seq(Kinds) /\ Len(t) = Len(rs) /\ \A i \in 1..Len(rs) : t[i] = rs[i].to
  <2>1. \A i \in 1..Len(rs) : rs[i].to \in Kinds
    BY <1>1
  <2>2. DOMAIN rs = 1..Len(rs) /\ Len(rs) \in Nat
    OBVIOUS
  <2> QED
    BY <1>3, <2>1, <2>2
<1>6. k \in Seq(Kinds) /\ Len(k) = Len(us) /\ \A i \in 1..Len(us) : k[i] = us[i].kind
  <2>1. \A i \in 1..Len(us) : us[i].kind \in Kinds
    BY <1>2
  <2>2. DOMAIN us = 1..Len(us) /\ Len(us) \in Nat
    OBVIOUS
  <2> QED
    BY <1>4, <2>1, <2>2
<1>7. Owes(rs, us) = t \o k
  BY <1>3, <1>4 DEF Owes
<1>8. /\ t \o k \in Seq(Kinds) /\ Len(t \o k) = Len(t) + Len(k)
      /\ \A i \in 1..Len(t) : (t \o k)[i] = t[i]
      /\ \A i \in 1..Len(k) : (t \o k)[Len(t) + i] = k[i]
  BY <1>5, <1>6, Joined
<1> QED
  BY <1>5, <1>6, <1>7, <1>8

\* A request is owed from the moment it is written.
LEMMA Appended ==
  ASSUME NEW s \in Seq(Kinds), NEW x \in Kinds
  PROVE  /\ Append(s, x) \in Seq(Kinds) /\ Len(Append(s, x)) = Len(s) + 1
         /\ \A i \in 1..Len(s) : Append(s, x)[i] = s[i]
         /\ Append(s, x)[Len(s) + 1] = x
  OBVIOUS

LEMMA OwesCall ==
  ASSUME NEW rs \in Seq(Responses), NEW us \in Seq(Requests), NEW u \in Requests
  PROVE  Owes(rs, Append(us, u)) = Append(Owes(rs, us), u.kind)
<1>1. PICK q : q = Append(us, u)
  OBVIOUS
<1>2. PICK o : o = Owes(rs, us)
  OBVIOUS
<1>0. PICK kind : kind = u.kind
  OBVIOUS
<1>3. PICK p : p = Append(o, kind)
  OBVIOUS
<1>4. PICK w : w = Owes(rs, q)
  OBVIOUS
<1>5. kind \in Kinds /\ Len(rs) \in Nat /\ Len(us) \in Nat
  BY <1>0 DEF Requests
<1>6. /\ q \in Seq(Requests) /\ Len(q) = Len(us) + 1
      /\ \A i \in 1..Len(us) : q[i] = us[i]
      /\ q[Len(us) + 1] = u
  BY <1>1, AppendProperties
<1>7. /\ o \in Seq(Kinds) /\ Len(o) = Len(rs) + Len(us)
      /\ \A i \in 1..Len(rs) : o[i] = rs[i].to
      /\ \A i \in 1..Len(us) : o[Len(rs) + i] = us[i].kind
  BY <1>2, OwesTyped
<1>8. /\ p \in Seq(Kinds) /\ Len(p) = Len(o) + 1
      /\ \A i \in 1..Len(o) : p[i] = o[i]
      /\ p[Len(o) + 1] = kind
  BY <1>3, <1>5, <1>7, Appended
<1>9. /\ w \in Seq(Kinds) /\ Len(w) = Len(rs) + Len(q)
      /\ \A i \in 1..Len(rs) : w[i] = rs[i].to
      /\ \A i \in 1..Len(q) : w[Len(rs) + i] = q[i].kind
  BY <1>4, <1>6, OwesTyped
<1>10. Len(w) = Len(rs) + (Len(us) + 1) /\ Len(p) = Len(rs) + (Len(us) + 1)
  BY <1>5, <1>6, <1>7, <1>8, <1>9
<1>11. \A i \in 1..Len(rs) : w[i] = p[i]
  BY <1>5, <1>7, <1>8, <1>9
<1>12. \A i \in 1..(Len(us) + 1) : w[Len(rs) + i] = p[Len(rs) + i]
  <2> SUFFICES ASSUME NEW i \in 1..(Len(us) + 1) PROVE w[Len(rs) + i] = p[Len(rs) + i]
    OBVIOUS
  <2>1. w[Len(rs) + i] = q[i].kind
    BY <1>5, <1>6, <1>9
  <2>2. CASE i = Len(us) + 1
    BY <2>1, <2>2, <1>0, <1>5, <1>6, <1>7, <1>8
  <2>3. CASE i \in 1..Len(us)
    <3>1. Len(rs) + i \in 1..Len(o)
      BY <2>3, <1>5, <1>7
    <3> QED
      BY <2>1, <2>3, <3>1, <1>6, <1>7, <1>8
  <2> QED
    BY <2>2, <2>3, <1>5
<1>13. Len(us) + 1 \in Nat
  BY <1>5
<1>14. w = p
  BY <1>5, <1>8, <1>9, <1>10, <1>11, <1>12, <1>13, SameJoined
<1> QED
  BY <1>0, <1>1, <1>2, <1>3, <1>4, <1>14

\* Answering the oldest request moves it to the socket.
LEMMA OwesAnswer ==
  ASSUME NEW rs \in Seq(Responses), NEW us \in Seq(Requests), us # <<>>,
         NEW r \in Responses, r.to = us[1].kind
  PROVE  Owes(Append(rs, r), Tail(us)) = Owes(rs, us)
<1>1. PICK q : q = Append(rs, r)
  OBVIOUS
<1>2. PICK v : v = Tail(us)
  OBVIOUS
<1>3. PICK o : o = Owes(rs, us)
  OBVIOUS
<1>4. PICK w : w = Owes(q, v)
  OBVIOUS
<1>5. /\ q \in Seq(Responses) /\ Len(q) = Len(rs) + 1
      /\ \A i \in 1..Len(rs) : q[i] = rs[i]
      /\ q[Len(rs) + 1] = r
  BY <1>1, AppendProperties
<1>6. /\ v \in Seq(Requests) /\ Len(v) = Len(us) - 1
      /\ \A i \in 1..Len(v) : v[i] = us[i + 1]
  BY <1>2, HeadTailProperties
<1>7. Len(rs) \in Nat /\ Len(us) \in Nat /\ Len(us) >= 1 /\ Len(v) \in Nat
  BY <1>6, EmptySeq
<1>8. /\ o \in Seq(Kinds) /\ Len(o) = Len(rs) + Len(us)
      /\ \A i \in 1..Len(rs) : o[i] = rs[i].to
      /\ \A i \in 1..Len(us) : o[Len(rs) + i] = us[i].kind
  BY <1>3, OwesTyped
<1>9. /\ w \in Seq(Kinds) /\ Len(w) = Len(q) + Len(v)
      /\ \A i \in 1..Len(q) : w[i] = q[i].to
      /\ \A i \in 1..Len(v) : w[Len(q) + i] = v[i].kind
  BY <1>4, <1>5, <1>6, OwesTyped
<1>10. \A i \in 1..Len(rs) : w[i] = o[i]
  <2> SUFFICES ASSUME NEW i \in 1..Len(rs) PROVE w[i] = o[i]
    OBVIOUS
  <2>1. i \in 1..Len(q)
    BY <1>5, <1>7
  <2>2. w[i] = q[i].to
    BY <1>9, <2>1
  <2> QED
    BY <1>5, <1>8, <2>2
<1>11. \A i \in 1..Len(us) : w[Len(rs) + i] = o[Len(rs) + i]
  <2> SUFFICES ASSUME NEW i \in 1..Len(us) PROVE w[Len(rs) + i] = o[Len(rs) + i]
    OBVIOUS
  <2>1. CASE i = 1
    <3>1. Len(rs) + 1 \in 1..Len(q)
      BY <1>5, <1>7
    <3>2. w[Len(rs) + 1] = r.to
      BY <1>5, <1>9, <3>1
    <3> QED
      BY <2>1, <1>8, <3>2
  <2>2. CASE i > 1
    <3>1. i - 1 \in 1..Len(v) /\ i - 1 + 1 = i /\ Len(q) + (i - 1) = Len(rs) + i
      BY <2>2, <1>5, <1>6, <1>7
    <3>2. w[Len(q) + (i - 1)] = v[i - 1].kind /\ v[i - 1] = us[i - 1 + 1]
      BY <3>1, <1>6, <1>9
    <3> QED
      BY <3>1, <3>2, <1>8
  <2> QED
    BY <2>1, <2>2, <1>7
<1>12. Len(w) = Len(rs) + Len(us)
  BY <1>5, <1>6, <1>7, <1>9
<1>13. w = o
  BY <1>7, <1>8, <1>9, <1>10, <1>11, <1>12, SameJoined
<1> QED
  BY <1>1, <1>2, <1>3, <1>4, <1>13

\* The oldest answers are gone.
LEMMA OwesRest ==
  ASSUME NEW rs \in Seq(Responses), NEW us \in Seq(Requests), NEW n \in 0..Len(rs)
  PROVE  Owes(SubSeq(rs, n + 1, Len(rs)), us) = SubSeq(Owes(rs, us), n + 1, Len(Owes(rs, us)))
<1>1. PICK q : q = SubSeq(rs, n + 1, Len(rs))
  OBVIOUS
<1>2. PICK o : o = Owes(rs, us)
  OBVIOUS
<1>3. PICK p : p = SubSeq(o, n + 1, Len(o))
  OBVIOUS
<1>4. PICK w : w = Owes(q, us)
  OBVIOUS
<1>5. Len(rs) \in Nat /\ Len(us) \in Nat /\ n \in Nat /\ Len(rs) - n \in Nat
  OBVIOUS
<1>6. /\ o \in Seq(Kinds) /\ Len(o) = Len(rs) + Len(us)
      /\ \A i \in 1..Len(rs) : o[i] = rs[i].to
      /\ \A i \in 1..Len(us) : o[Len(rs) + i] = us[i].kind
  BY <1>2, OwesTyped
<1>7. /\ q \in Seq(Responses) /\ Len(q) = Len(rs) - n
      /\ \A i \in 1..(Len(rs) - n) : q[i] = rs[n + i]
  BY <1>1, Rest
<1>8. n \in 0..Len(o)
  BY <1>5, <1>6
<1>9. /\ p \in Seq(Kinds) /\ Len(p) = Len(o) - n
      /\ \A i \in 1..(Len(o) - n) : p[i] = o[n + i]
  BY <1>3, <1>6, <1>8, Rest
<1>10. /\ w \in Seq(Kinds) /\ Len(w) = Len(q) + Len(us)
       /\ \A i \in 1..Len(q) : w[i] = q[i].to
       /\ \A i \in 1..Len(us) : w[Len(q) + i] = us[i].kind
  BY <1>4, <1>7, OwesTyped
<1>11. Len(p) = (Len(rs) - n) + Len(us) /\ Len(w) = (Len(rs) - n) + Len(us)
  BY <1>5, <1>6, <1>7, <1>9, <1>10
<1>12. \A i \in 1..(Len(rs) - n) : w[i] = p[i]
  <2> SUFFICES ASSUME NEW i \in 1..(Len(rs) - n) PROVE w[i] = p[i]
    OBVIOUS
  <2>1. n + i \in 1..Len(rs) /\ i \in 1..(Len(o) - n)
    BY <1>5, <1>6
  <2> QED
    BY <2>1, <1>6, <1>7, <1>9, <1>10
<1>13. \A i \in 1..Len(us) : w[(Len(rs) - n) + i] = p[(Len(rs) - n) + i]
  <2> SUFFICES ASSUME NEW i \in 1..Len(us) PROVE w[(Len(rs) - n) + i] = p[(Len(rs) - n) + i]
    OBVIOUS
  <2>1. (Len(rs) - n) + i \in 1..(Len(o) - n) /\ n + ((Len(rs) - n) + i) = Len(rs) + i
    BY <1>5, <1>6
  <2> QED
    BY <2>1, <1>6, <1>7, <1>9, <1>10
<1>14. w = p
  BY <1>5, <1>9, <1>10, <1>11, <1>12, <1>13, SameJoined
<1> QED
  BY <1>1, <1>2, <1>3, <1>4, <1>14

\* What a dead worker owed is lost; what it had written is not.
LEMMA OwesLost ==
  ASSUME NEW rs \in Seq(Responses), NEW us \in Seq(Requests)
  PROVE  Owes(rs, <<>>) = SubSeq(Owes(rs, us), 1, Len(rs)) /\ Len(rs) \in 0..Len(Owes(rs, us))
<1>1. PICK o : o = Owes(rs, us)
  OBVIOUS
<1>0. PICK e : e = <<>>
  OBVIOUS
<1>2. PICK w : w = Owes(rs, e)
  OBVIOUS
<1>3. PICK p : p = SubSeq(o, 1, Len(rs))
  OBVIOUS
<1>4. Len(rs) \in Nat /\ Len(us) \in Nat /\ e \in Seq(Requests) /\ Len(e) = 0
  BY <1>0, EmptySeq
<1>5. o \in Seq(Kinds) /\ Len(o) = Len(rs) + Len(us) /\ \A i \in 1..Len(rs) : o[i] = rs[i].to
  BY <1>1, OwesTyped
<1>6a. w \in Seq(Kinds) /\ Len(w) = Len(rs) + Len(e) /\ \A i \in 1..Len(rs) : w[i] = rs[i].to
  BY <1>2, <1>4, OwesTyped
<1>6. w \in Seq(Kinds) /\ Len(w) = Len(rs) /\ \A i \in 1..Len(rs) : w[i] = rs[i].to
  BY <1>4, <1>6a
<1>7. p \in Seq(Kinds) /\ Len(p) = Len(rs) /\ \A i \in 1..Len(rs) : p[i] = o[i]
  BY <1>3, <1>4, <1>5
<1> QED
  BY <1>0, <1>1, <1>2, <1>3, <1>4, <1>5, <1>6, <1>7, SeqEqual

\* A call takes the oldest answer.
LEMMA OwesReturn ==
  ASSUME NEW rs \in Seq(Responses), NEW us \in Seq(Requests), rs # <<>>
  PROVE  /\ Owes(rs, us) # <<>> /\ Head(Owes(rs, us)) = Head(rs).to
         /\ Owes(Tail(rs), us) = Tail(Owes(rs, us))
<1>1. Len(rs) \in Nat /\ Len(rs) # 0 /\ Len(us) \in Nat
  BY EmptySeq
<1>2. PICK o : o = Owes(rs, us)
  OBVIOUS
<1>3. o \in Seq(Kinds) /\ Len(o) = Len(rs) + Len(us) /\ o[1] = rs[1].to
  BY <1>1, <1>2, OwesTyped
<1>4. o # <<>>
  BY <1>1, <1>3, EmptySeq
<1>5. Tail(rs) = SubSeq(rs, 2, Len(rs)) /\ Tail(o) = SubSeq(o, 2, Len(o))
  BY <1>3, <1>4, TailIsSubSeq
<1>6. 1 \in 0..Len(rs) /\ 1 + 1 = 2
  BY <1>1
<1>7. Owes(SubSeq(rs, 1 + 1, Len(rs)), us) = SubSeq(o, 1 + 1, Len(o))
  BY <1>2, <1>6, OwesRest
<1>8. Owes(Tail(rs), us) = Tail(o)
  BY <1>5, <1>6, <1>7
<1>9. Head(o) = o[1] /\ Head(rs) = rs[1]
  BY <1>3, <1>4
<1> QED
  BY <1>2, <1>3, <1>4, <1>8, <1>9

\* Writing the rest of a response changes nothing that is owed.
LEMMA OwesWritten ==
  ASSUME NEW rs \in Seq(Responses), NEW qs \in Seq(Responses), NEW us \in Seq(Requests),
         Len(qs) = Len(rs), \A i \in 1..Len(rs) : qs[i].to = rs[i].to
  PROVE  Owes(qs, us) = Owes(rs, us)
<1>1. DOMAIN qs = DOMAIN rs /\ \A i \in DOMAIN rs : qs[i].to = rs[i].to
  OBVIOUS
<1>2. [i \in DOMAIN qs |-> qs[i].to] = [i \in DOMAIN rs |-> rs[i].to]
  BY <1>1
<1> QED
  BY <1>2 DEF Owes

-----------------------------------------------------------------------------
(* The refinement *)

\* The requests not answered yet, as module PluginService has them.
Owed == Owes(responses, Queue(busy, requests))

\* Steps of PluginService, from what they do to the request owed: a call,
LEMMA MoveCall ==
  ASSUME NEW kind \in Kinds, call.kind = "none", call'.kind = kind,
         Owed' = Owed \/ Owed' = Append(Owed, kind), UNCHANGED history
  PROVE  Service!Next
<1>1. Service!Call(kind)
  BY DEF Service!Call, Owed, Owes, Queue, unanswered
<1> QED
  BY <1>1 DEF Service!Next

\* a call that takes an answer,
LEMMA MoveReturn ==
  ASSUME call.kind # "none", Owed # <<>>, Owed' = Tail(Owed), call'.kind = "none",
         history' = [failed |-> history.failed, asked |-> call.kind, got |-> Head(Owed)]
  PROVE  Service!Next
<1>1. Service!Return
  BY DEF Service!Return, Owed, Owes, Queue, unanswered
<1> QED
  BY <1>1 DEF Service!Next

\* a call that is given up,
LEMMA MoveFail ==
  ASSUME call.kind # "none", NEW n \in 0..Len(Owed), Owed' = SubSeq(Owed, n + 1, Len(Owed)),
         call'.kind = "none", history' = [history EXCEPT !.failed = TRUE]
  PROVE  Service!Next
<1>1. Service!Fail
  BY DEF Service!Fail, Owed, Owes, Queue, unanswered
<1> QED
  BY <1>1 DEF Service!Next

\* the loss of the latest requests,
LEMMA MoveLose ==
  ASSUME NEW n \in 0..Len(Owed), Owed' = SubSeq(Owed, 1, n), UNCHANGED <<call, history>>
  PROVE  Service!Next
<1>1. Service!Lose
  BY DEF Service!Lose, Owed, Owes, Queue, unanswered
<1> QED
  BY <1>1 DEF Service!Next

\* and none.
LEMMA MoveNot ==
  ASSUME Owed' = Owed, UNCHANGED <<call, history>>
  PROVE  UNCHANGED Service!vars
BY DEF Service!vars, Owed, Owes, Queue, unanswered

\* Every step is one of PluginService, or none.
LEMMA ServiceStep ==
  ASSUME CallTyped, SocketTyped, ChangesTyped, [Next]_vars
  PROVE  [Service!Next]_(Service!vars)
<1>0. /\ responses \in Seq(Responses) /\ requests \in Seq(Requests)
      /\ busy \in Requests \cup {NoRequest}
      /\ Queue(busy, requests) \in Seq(Requests)
      /\ Len(responses) \in Nat
  <2>1. /\ responses \in Seq(Responses) /\ requests \in Seq(Requests)
        /\ busy \in Requests \cup {NoRequest} /\ Len(responses) \in Nat
    BY DEF SocketTyped
  <2> QED
    BY <2>1, QueueTyped
<1>1. /\ Owed \in Seq(Kinds)
      /\ Len(Owed) = Len(responses) + Len(Queue(busy, requests))
  BY <1>0, OwesTyped DEF Owed
<1>2. Len(responses) \in 0..Len(Owed) /\ 0 \in 0..Len(Owed) /\ SubSeq(Owed, 0 + 1, Len(Owed)) = Owed
  BY <1>0, <1>1
<1>3. CASE UNCHANGED <<responses, busy, requests, call, history>>
  BY <1>3, MoveNot DEF Owed
<1>4. CASE Accept \/ AcceptTimesOut \/ BuildStream \/ Reap \/ User \/ Exit \/ UNCHANGED vars
  BY <1>3, <1>4 DEF Accept, AcceptTimesOut, BuildStream, Reap, User, SetParameter, StateRequest,
     Deactivate, Exit, vars, proxyVars, socketVars, workerVars
<1>5. ASSUME NEW kind \in Kinds, NEW changes \in Seq(1..MaxChanges), Send(kind, changes),
             UNCHANGED <<responses, busy, history>>
      PROVE  Service!Next
  <2>1. call.kind = "none" /\ call'.kind = kind
    BY <1>5 DEF Send, NoCall
  <2>2. CASE Gone
    <3>1. Owed' = Owed
      BY <1>5, <2>2 DEF Send, Owed
    <3> QED
      BY <1>5, <2>1, <3>1, MoveCall
  <2>3. CASE ~Gone
    <3>1. PICK r : r = [kind |-> kind, changes |-> changes]
      OBVIOUS
    <3>2. r.kind = kind /\ r \in Requests
      BY <3>1 DEF Requests
    <3>3. requests' = Append(requests, r)
      BY <1>5, <2>3, <3>1 DEF Send
    <3>4. Queue(busy, requests') = Append(Queue(busy, requests), r)
      BY <1>0, <3>2, <3>3, QueueAppend
    <3>5. Owes(responses, Append(Queue(busy, requests), r)) = Append(Owed, kind)
      BY <1>0, <3>2, OwesCall DEF Owed
    <3>6. Owed' = Append(Owed, kind)
      BY <1>5, <3>4, <3>5 DEF Owed
    <3> QED
      BY <1>5, <2>1, <3>6, MoveCall
  <2> QED
    BY <2>2, <2>3
<1>6. CASE Request
  <2>1. <<>> \in Seq(1..MaxChanges)
    BY EmptySeq
  <2> QED
    BY <1>5, <1>6, <2>1 DEF Request, workerVars
<1>7. CASE AudioCallback
  <2>1. PICK taken \in {pending, <<>>} : Send("Process", taken)
    BY <1>7 DEF AudioCallback
  <2>2. taken \in Seq(1..MaxChanges) /\ "Process" \in Kinds
    BY <2>1, EmptySeq DEF ChangesTyped, Kinds
  <2>3. UNCHANGED <<responses, busy, history>>
    BY <1>7 DEF AudioCallback, workerVars
  <2> QED
    BY <1>5, <2>1, <2>2, <2>3
<1>8. CASE Receive
  <2>1. responses # <<>> /\ call.kind # "none" /\ call'.kind = "none"
    BY <1>8 DEF Receive, Resume, NoCall, CallTyped
  <2>2. responses' = Tail(responses) /\ UNCHANGED <<busy, requests>>
    BY <1>8 DEF Receive, workerVars
  <2>3. /\ Owed # <<>> /\ Head(Owed) = Head(responses).to
        /\ Owes(Tail(responses), Queue(busy, requests)) = Tail(Owed)
    BY <1>0, <2>1, OwesReturn DEF Owed
  <2>4. Owed' = Tail(Owed)
    BY <2>2, <2>3 DEF Owed
  <2>5. history' = [failed |-> history.failed, asked |-> call.kind, got |-> Head(Owed)]
    BY <1>8, <2>3 DEF Receive
  <2> QED
    BY <2>1, <2>3, <2>4, <2>5, MoveReturn
<1>9. ASSUME Resume("failed"), Failed, call.kind # "none", UNCHANGED <<busy, requests>>,
             NEW n \in 0..Len(responses), responses' = SubSeq(responses, n + 1, Len(responses))
      PROVE  Service!Next
  <2>1. call'.kind = "none" /\ history' = [history EXCEPT !.failed = TRUE]
    BY <1>9 DEF Resume, NoCall, Failed
  <2>2. n \in 0..Len(Owed)
    BY <1>0, <1>1
  <2>3. Owes(SubSeq(responses, n + 1, Len(responses)), Queue(busy, requests))
        = SubSeq(Owed, n + 1, Len(Owed))
    BY <1>0, OwesRest DEF Owed
  <2>4. Owed' = SubSeq(Owed, n + 1, Len(Owed))
    BY <1>9, <2>3 DEF Owed
  <2> QED
    BY <1>9, <2>1, <2>2, <2>4, MoveFail
<1>10. 0 \in 0..Len(responses) /\ SubSeq(responses, 0 + 1, Len(responses)) = responses
  BY <1>0
<1>11. CASE TimeOut
  <2>1. Resume("failed") /\ Failed /\ call.kind # "none" /\ UNCHANGED <<busy, requests, responses>>
    BY <1>11 DEF TimeOut, workerVars, CallTyped
  <2> QED
    BY <1>9, <1>10, <2>1
<1>12. CASE ReadGarbled
  <2>1. Resume("failed") /\ Failed /\ call.kind # "none" /\ UNCHANGED <<busy, requests>>
    BY <1>12 DEF ReadGarbled, workerVars, CallTyped
  <2>2. PICK n \in 0..Len(responses) : responses' = SubSeq(responses, n + 1, Len(responses))
    BY <1>12 DEF ReadGarbled
  <2> QED
    BY <1>9, <2>1, <2>2
<1>13. CASE Closed
  <2>1. Resume("failed") /\ Failed /\ UNCHANGED <<busy, requests>>
    BY <1>13 DEF Closed, workerVars
  <2>2. CASE call.kind # "none" /\ responses' = responses
    BY <1>9, <1>10, <2>1, <2>2
  <2>3. CASE call.kind # "none" /\ responses' = <<>>
    <3>1. Len(responses) \in 0..Len(responses)
          /\ SubSeq(responses, Len(responses) + 1, Len(responses)) = <<>>
      BY <1>0
    <3> QED
      BY <1>9, <2>1, <2>3, <3>1
  <2>4. call.kind # "none"
    BY <1>13 DEF Closed, CallTyped, NoCall
  <2> QED
    BY <1>13, <2>2, <2>3, <2>4 DEF Closed
<1>14. CASE Take
  <2>1. busy = NoRequest /\ requests # <<>> /\ busy' = Head(requests) /\ requests' = Tail(requests)
        /\ UNCHANGED <<responses, call, history>>
    BY <1>14 DEF Take, proxyVars
  <2>2. Queue(busy', requests') = Queue(busy, requests)
    BY <1>0, <2>1, QueueTake
  <2> QED
    BY <2>1, <2>2, MoveNot DEF Owed
<1>15. CASE FinishWrite
  <2>1. /\ responses' \in Seq(Responses) /\ Len(responses') = Len(responses)
        /\ \A i \in 1..Len(responses) : responses'[i].to = responses[i].to
    BY <1>15, WrittenTheSame DEF SocketTyped
  <2>2. UNCHANGED <<busy, requests, call, history>>
    BY <1>15 DEF FinishWrite, proxyVars, workerVars
  <2>3. Owes(responses', Queue(busy, requests)) = Owes(responses, Queue(busy, requests))
    BY <1>0, <2>1, OwesWritten
  <2>4. Owed' = Owed
    BY <2>2, <2>3 DEF Owed
  <2> QED
    BY <2>2, <2>4, MoveNot
<1>16. CASE Die
  <2>1. UNCHANGED <<responses, call, history>> /\ busy' = NoRequest /\ requests' = <<>>
    BY <1>16 DEF Die, proxyVars
  <2>2. Queue(busy', requests') = <<>>
    BY <2>1 DEF Queue
  <2>3. Owes(responses, <<>>) = SubSeq(Owed, 1, Len(responses))
    BY <1>0, OwesLost DEF Owed
  <2>4. Owed' = SubSeq(Owed, 1, Len(responses))
    BY <2>1, <2>2, <2>3 DEF Owed
  <2> QED
    BY <1>2, <2>1, <2>4, MoveLose
<1>17. ASSUME NEW kind \in Kinds, Serves(kind), NEW result \in {"ok", "error", "crashed"},
              Reply(result)
       PROVE  UNCHANGED Service!vars
  <2>1. busy \in Requests /\ busy.kind = kind
    BY <1>17 DEF Serves, SocketTyped, NoRequest, Kinds, SpawnKinds
  <2>2. PICK whole \in BOOLEAN :
             responses' = Append(responses, [to |-> busy.kind, result |-> result, whole |-> whole])
    BY <1>17 DEF Reply
  <2>3. PICK r : r = [to |-> busy.kind, result |-> result, whole |-> whole]
    OBVIOUS
  <2>4. r \in Responses /\ r.to = busy.kind /\ responses' = Append(responses, r)
    BY <2>1, <2>2, <2>3 DEF Responses
  <2>5. busy' = NoRequest /\ UNCHANGED <<requests, call, history>>
    BY <1>17 DEF Reply, proxyVars
  <2>6. /\ Queue(busy, requests) # <<>> /\ Head(Queue(busy, requests)) = busy
        /\ Tail(Queue(busy, requests)) = Queue(NoRequest, requests)
    BY <1>0, <2>1, QueueAnswer
  <2>7. Queue(busy, requests)[1].kind = r.to
    BY <1>0, <2>4, <2>6
  <2>8. Owes(Append(responses, r), Tail(Queue(busy, requests))) = Owed
    BY <1>0, <2>4, <2>6, <2>7, OwesAnswer DEF Owed
  <2>9. Owed' = Owed
    BY <2>4, <2>5, <2>6, <2>8 DEF Owed
  <2> QED
    BY <2>5, <2>9, MoveNot
<1>18. CASE Handle
  BY <1>17, <1>18 DEF Handle, load_plugin, configure, activate, process, query_parameters,
     get_state, set_state, shutdown, Kinds, SpawnKinds
<1> QED
  BY <1>4, <1>6, <1>7, <1>8, <1>11, <1>12, <1>13, <1>14, <1>15, <1>16, <1>18
  DEF Next, Host, CallEnds, Worker

-----------------------------------------------------------------------------
(* The inductive invariant *)

IInv ==
  /\ CallTyped /\ FlagsTyped /\ SocketTyped /\ ChangesTyped /\ WorkerTyped
  /\ SegmentKnown /\ InStep /\ OnlyBlocksCarry /\ ChangesStand /\ RefusedStand

\* IInv is inductive and holds.
LEMMA IInvInit == Init => IInv
<1> SUFFICES ASSUME Init PROVE IInv
  OBVIOUS
<1>1. <<>> \in Seq(1..MaxChanges) /\ <<>> \in Seq(Requests) /\ <<>> \in Seq(Responses)
  BY EmptySeq
<1>2. Len(<<>>) = 0 /\ DOMAIN <<>> = {}
  BY EmptySeq
<1>3. CallTyped /\ FlagsTyped /\ SocketTyped
  BY <1>1 DEF Init, CallTyped, FlagsTyped, SocketTyped, MainStates, NoCall
<1>4. ChangesTyped /\ WorkerTyped
  <2>1. <<>> \in Seq(Params) /\ ids = <<>> /\ made = 0
    BY <1>2, EmptySeq DEF Init, made
  <2> QED
    BY <1>1, <2>1, PluginIpcAssumption DEF Init, ChangesTyped, WorkerTyped
<1>5. SegmentKnown /\ OnlyBlocksCarry
  BY <1>2 DEF Init, SegmentKnown, OnlyBlocksCarry, NoRequest
<1>6. Queue(NoRequest, <<>>) = <<>>
  BY DEF Queue
<1>7. InStep
  BY <1>2, <1>6 DEF Init, InStep, NoCall
<1>8. InOrder(<<>>, <<>>, <<>>, 0)
  <2>1. Numbered(0, 0) = <<>>
    BY NumberedNone
  <2>2. PICK f : f = [i \in 0..0 |-> 0]
    OBVIOUS
  <2>3. f \in [0..Len(<<>>) -> 0..0] /\ f[0] = 0 /\ f[Len(<<>>)] = 0
    BY <1>2, <2>2
  <2> QED
    BY <1>2, <2>1, <2>3 DEF InOrder
<1>9. ChangesStand
  <2>1. made = 0
    BY <1>2 DEF Init, made
  <2> QED
    BY <1>6, <1>8, <2>1 DEF Init, ChangesStand
<1>10. RefusedStand
  BY DEF Init, RefusedStand
<1> QED
  BY <1>3, <1>4, <1>5, <1>7, <1>9, <1>10 DEF IInv

LEMMA IInvStep == IInv /\ [Next]_vars => IInv'
<1> SUFFICES ASSUME IInv, [Next]_vars PROVE IInv'
  OBVIOUS
<1> USE DEF IInv
<1>1. CallTyped' /\ SocketTyped'
  BY CallTypedStep, SocketTypedStep
<1>2. FlagsTyped' /\ ChangesTyped' /\ WorkerTyped'
  BY FlagsTypedStep, ChangesTypedStep, WorkerTypedStep
<1>3. SegmentKnown'
  BY SegmentStep
<1>4. InStep'
  BY InStepStep
<1>5. OnlyBlocksCarry' /\ ChangesStand'
  BY ChangesStep
<1>6. RefusedStand'
  BY RefusedStep
<1> QED
  BY <1>1, <1>2, <1>3, <1>4, <1>5, <1>6

LEMMA IInvHolds == Spec => []IInv
BY IInvInit, IInvStep, PTL DEF Spec

\* Every variable stays in its range: what is on the socket are requests and
\* responses of the protocol, and the queue holds changes that were made.
THEOREM TypeCorrect == Spec => []TypeOK
<1>1. IInv => TypeOK
  BY DEF IInv, CallTyped, FlagsTyped, SocketTyped, ChangesTyped, WorkerTyped, TypeOK
<1> QED
  BY <1>1, IInvHolds, PTL

\* However many changes are made and requests sent, the host never maps a dead
\* worker's memory, a worker that ends by itself unlinks its own, and an old block
\* is played only after a call has failed.
THEOREM MemoryIsOwn == Spec => []SharedMemoryIsOwn
<1>1. IInv => SharedMemoryIsOwn
  BY DEF IInv, SegmentKnown, InStep, SharedMemoryIsOwn
<1> QED
  BY <1>1, IInvHolds, PTL

\* However many changes are made, whatever times out and whatever the limits of a
\* block: as long as the plugin runs none is lost on its way, made twice or
\* overtaken, and what the worker's queues refuse was beyond a limit of its block.
THEOREM ChangesKeepOrder == Spec => []ChangesInOrder
<1>1. IInv => RefusedAtLimit
  BY DEF IInv, RefusedStand, AtLimit, RefusedAtLimit, GotWith
<1>2. IInv => ChangesInOrder
  BY <1>1 DEF IInv, ChangesStand, InOrder, ChangesInOrder, Queue, unanswered
<1> QED
  BY <1>2, IInvHolds, PTL

\* The proxy and the worker implement PluginService: no answer is invented,
\* doubled or overtaken.
THEOREM ServiceImplemented == Spec => ImplementsService
<1>1. Init => Service!Init
  <2> SUFFICES ASSUME Init PROVE Service!Init
    OBVIOUS
  <2>1. Queue(busy, requests) = <<>>
    BY DEF Init, Queue
  <2>2. responses = <<>> /\ call.kind = "none"
        /\ history = [failed |-> FALSE, asked |-> "none", got |-> "none"]
    BY DEF Init, NoCall
  <2>3. <<>> \in Seq(Responses) /\ <<>> \in Seq(Requests) /\ Len(<<>>) = 0
    BY EmptySeq
  <2>4. Owed \in Seq(Kinds) /\ Len(Owed) = 0
    <3>1. PICK rs \in Seq(Responses), us \in Seq(Requests) : rs = <<>> /\ us = <<>>
      BY <2>3
    <3>2. Owes(rs, us) \in Seq(Kinds) /\ Len(Owes(rs, us)) = Len(rs) + Len(us)
      BY OwesTyped
    <3> QED
      BY <2>1, <2>2, <2>3, <3>1, <3>2 DEF Owed
  <2>5. Owed = <<>>
    BY <2>4, EmptySeq
  <2> QED
    BY <2>2, <2>5 DEF Service!Init, Owed, Owes, Queue, unanswered
<1>2. IInv /\ [Next]_vars => [Service!Next]_(Service!vars)
  BY ServiceStep DEF IInv
<1> QED
  BY <1>1, <1>2, IInvHolds, PTL DEF Spec, ImplementsService, Service!Spec

-----------------------------------------------------------------------------
(* What a call gets from the service *)

\* What is owed while no call has failed: nothing but the call under way.
NothingElseOwed(calling, owed, hist) ==
  /\ hist = [failed |-> hist.failed, asked |-> hist.asked, got |-> hist.got]
  /\ hist.failed \in BOOLEAN
  /\ hist.asked = hist.got \/ hist.failed
  /\ calling \in Kinds \cup {"none"} /\ owed \in Seq(Kinds)
  /\ ~hist.failed => IF calling = "none" THEN owed = <<>>
                     ELSE owed = <<>> \/ owed = <<calling>>

\* A part of a sequence of kinds is a sequence of kinds.
LEMMA PartIsSequence ==
  ASSUME NEW s \in Seq(Kinds), NEW m \in 1..(Len(s) + 1), NEW n \in 0..Len(s)
  PROVE  SubSeq(s, m, n) \in Seq(Kinds)
  OBVIOUS

\* Whatever part of it is taken, nothing or one element is left of one element.
LEMMA PartOfOne ==
  ASSUME NEW k \in Kinds, NEW m \in 1..2, NEW n \in 0..1
  PROVE  SubSeq(<<k>>, m, n) \in {<<>>, <<k>>}
<1>1. CASE m <= n
  <2>1. m = 1 /\ n = 1
    BY <1>1
  <2>2. SubSeq(<<k>>, 1, Len(<<k>>)) = <<k>>
    BY SubSeqFull, <<k>> \in Seq(Kinds)
  <2> QED
    BY <2>1, <2>2
<1>2. CASE ~(m <= n)
  <2>1. Len(SubSeq(<<k>>, m, n)) = 0
    BY <1>2
  <2>2. SubSeq(<<k>>, m, n) \in Seq(Kinds)
    BY PartIsSequence
  <2> QED
    BY <2>1, <2>2
<1> QED
  BY <1>1, <1>2

\* Nothing is left of nothing.
LEMMA PartOfNone ==
  ASSUME NEW m \in {1}, NEW n \in {0}
  PROVE  SubSeq(<<>>, m, n) = <<>>
  OBVIOUS

\* Each step of the service leaves nothing else owed: a request is sent,
LEMMA CallOwed ==
  ASSUME NEW calling, NEW owed, NEW hist, NothingElseOwed(calling, owed, hist),
         NEW kind \in Kinds, NEW after, calling = "none", after \in {owed, Append(owed, kind)}
  PROVE  NothingElseOwed(kind, after, hist)
<1> USE DEF NothingElseOwed
<1>1. Append(owed, kind) \in Seq(Kinds) /\ kind # "none"
  BY DEF Kinds, SpawnKinds
<1>2. ~hist.failed => Append(owed, kind) = <<kind>>
  OBVIOUS
<1> QED
  BY <1>1, <1>2

\* the one answer owed is taken,
LEMMA ReturnOwed ==
  ASSUME NEW calling, NEW owed, NEW hist, NothingElseOwed(calling, owed, hist),
         calling # "none", owed # <<>>
  PROVE  NothingElseOwed("none", Tail(owed),
                         [failed |-> hist.failed, asked |-> calling, got |-> Head(owed)])
<1> USE DEF NothingElseOwed
<1>1. Tail(owed) \in Seq(Kinds)
  OBVIOUS
<1>2. ASSUME ~hist.failed PROVE Tail(owed) = <<>> /\ Head(owed) = calling
  <2>1. owed = <<calling>>
    BY <1>2
  <2>2. Len(owed) = 1 /\ owed[1] = calling
    BY <2>1
  <2>3. Len(Tail(owed)) = 0
    BY <2>1, <2>2, HeadTailProperties
  <2> QED
    BY <1>1, <2>1, <2>2, <2>3, EmptySeq
<1> QED
  BY <1>1, <1>2

\* a call is given up,
LEMMA FailOwed ==
  ASSUME NEW calling, NEW owed, NEW hist, NothingElseOwed(calling, owed, hist),
         NEW n \in 0..Len(owed)
  PROVE  NothingElseOwed("none", SubSeq(owed, n + 1, Len(owed)), [hist EXCEPT !.failed = TRUE])
<1> USE DEF NothingElseOwed
<1>1. SubSeq(owed, n + 1, Len(owed)) \in Seq(Kinds)
  BY PartIsSequence
<1>2. PICK a, g : hist \in [failed : BOOLEAN, asked : {a}, got : {g}]
  OBVIOUS
<1>3. PICK h : h = [hist EXCEPT !.failed = TRUE]
  OBVIOUS
<1>4. h \in [failed : BOOLEAN, asked : {a}, got : {g}] /\ h.failed
  BY <1>2, <1>3
<1>5. NothingElseOwed("none", SubSeq(owed, n + 1, Len(owed)), h)
  BY <1>1, <1>4
<1> QED
  BY <1>3, <1>5

\* or the service ends.
LEMMA LoseOwed ==
  ASSUME NEW calling, NEW owed, NEW hist, NothingElseOwed(calling, owed, hist),
         NEW n \in 0..Len(owed)
  PROVE  NothingElseOwed(calling, SubSeq(owed, 1, n), hist)
<1> USE DEF NothingElseOwed
<1>1. PICK part : part = SubSeq(owed, 1, n)
  OBVIOUS
<1>2. part \in Seq(Kinds)
  BY <1>1, PartIsSequence
<1>3. owed = <<>> => part = <<>>
  BY <1>1, PartOfNone
<1>4. ASSUME calling \in Kinds, owed = <<calling>>
      PROVE  part \in {<<>>, <<calling>>}
  <2>1. n \in 0..1
    BY <1>4
  <2> QED
    BY <1>1, <1>4, <2>1, PartOfOne
<1>5. ~hist.failed => IF calling = "none" THEN part = <<>>
                      ELSE part = <<>> \/ part = <<calling>>
  BY <1>3, <1>4 DEF Kinds, SpawnKinds
<1> QED
  BY <1>1, <1>2, <1>5

\* The same of this module's state.
InStepWithService == NothingElseOwed(call.kind, Owed, history)

\* Whatever implements the service gives a caller the answer to its own request
\* until a call fails (PluginProcess::send_receive, run_worker).
THEOREM ServiceInStep == Service!Spec => []Service!AnswersAreOwn
<1>1. Service!Init => InStepWithService
  <2> SUFFICES ASSUME Service!Init PROVE InStepWithService
    OBVIOUS
  <2>1. /\ call.kind = "none" /\ Owed = <<>>
        /\ history = [failed |-> FALSE, asked |-> "none", got |-> "none"]
    BY DEF Service!Init, Owed, Owes, Queue, unanswered
  <2>2. <<>> \in Seq(Kinds)
    BY EmptySeq
  <2> QED
    BY <2>1, <2>2 DEF InStepWithService, NothingElseOwed
<1>2. InStepWithService /\ [Service!Next]_(Service!vars) => InStepWithService'
  <2> SUFFICES ASSUME InStepWithService, [Service!Next]_(Service!vars)
               PROVE  InStepWithService'
    OBVIOUS
  <2>1. PICK c, o, h : c = call.kind /\ o = Owed /\ h = history
    OBVIOUS
  <2>2. PICK c2, o2, h2 : c2 = call'.kind /\ o2 = Owed' /\ h2 = history'
    OBVIOUS
  <2>3. NothingElseOwed(c, o, h)
    BY <2>1 DEF InStepWithService
  <2>4. NothingElseOwed(c2, o2, h2)
    <3>1. ASSUME NEW kind \in Kinds, Service!Call(kind) PROVE NothingElseOwed(c2, o2, h2)
      <4>1. c = "none" /\ c2 = kind /\ o2 \in {o, Append(o, kind)} /\ h2 = h
        BY <2>1, <2>2, <3>1 DEF Service!Call, Owed, Owes, Queue, unanswered
      <4> QED
        BY <2>3, <4>1, CallOwed
    <3>2. CASE Service!Return
      <4>1. /\ c # "none" /\ o # <<>> /\ c2 = "none" /\ o2 = Tail(o)
            /\ h2 = [failed |-> h.failed, asked |-> c, got |-> Head(o)]
        BY <2>1, <2>2, <3>2 DEF Service!Return, Owed, Owes, Queue, unanswered
      <4> QED
        BY <2>3, <4>1, ReturnOwed
    <3>3. CASE Service!Fail
      <4>1. /\ c2 = "none" /\ h2 = [h EXCEPT !.failed = TRUE]
            /\ \E n \in 0..Len(o) : o2 = SubSeq(o, n + 1, Len(o))
        BY <2>1, <2>2, <3>3 DEF Service!Fail, Owed, Owes, Queue, unanswered
      <4> QED
        BY <2>3, <4>1, FailOwed
    <3>4. CASE Service!Lose
      <4>1. c2 = c /\ h2 = h /\ \E n \in 0..Len(o) : o2 = SubSeq(o, 1, n)
        BY <2>1, <2>2, <3>4 DEF Service!Lose, Owed, Owes, Queue, unanswered
      <4> QED
        BY <2>3, <4>1, LoseOwed
    <3>5. CASE UNCHANGED Service!vars
      <4>1. c2 = c /\ h2 = h /\ o2 = o
        BY <2>1, <2>2, <3>5 DEF Service!vars, Owed, Owes, Queue, unanswered
      <4> QED
        BY <2>3, <4>1
    <3> QED
      BY <3>1, <3>2, <3>3, <3>4, <3>5 DEF Service!Next
  <2> QED
    BY <2>2, <2>4 DEF InStepWithService, NothingElseOwed
<1>3. InStepWithService => Service!AnswersAreOwn
  BY DEF InStepWithService, NothingElseOwed, Service!AnswersAreOwn
<1> QED
  BY <1>1, <1>2, <1>3, PTL DEF Service!Spec

\* So the proxy takes no other call's answer for its own until a call has failed.
THEOREM AnswersOwn == Spec => []Service!AnswersAreOwn
BY ServiceInStep, ServiceImplemented, PTL DEF ImplementsService
=============================================================================
