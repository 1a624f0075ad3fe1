---------------------------- MODULE PluginService ----------------------------
(***************************************************************************)
(* What a plugin process promises the host that calls it: one call at a    *)
(* time, every request answered at most once and in the order it was sent. *)
(* A call does not say which answer it wants: it takes the oldest one      *)
(* still owed, so the first call that is given up puts every later one out *)
(* of step.  Module PluginIpc is shown to implement this.                  *)
(***************************************************************************)
EXTENDS Sequences, Naturals

CONSTANTS
  Kinds,  \* the kinds of request
  None    \* no request

VARIABLES
  calling,  \* the kind of the call under way, or None
  owed,     \* the kinds of the requests not answered yet, oldest first
  history   \* has a call failed; what the last answered call asked for, and got

vars == <<calling, owed, history>>

Init ==
  /\ calling = None
  /\ owed = <<>>
  /\ history = [failed |-> FALSE, asked |-> None, got |-> None]

\* A request is sent; one sent to a service that is gone is owed nothing.
Call(kind) ==
  /\ calling = None
  /\ calling' = kind
  /\ owed' \in {owed, Append(owed, kind)}
  /\ UNCHANGED history

\* The call takes the oldest answer.
Return ==
  /\ calling # None
  /\ owed # <<>>
  /\ owed' = Tail(owed)
  /\ calling' = None
  /\ history' = [failed |-> history.failed, asked |-> calling, got |-> Head(owed)]

\* The call is given up; answers may be skipped, none is taken for another.
Fail ==
  /\ calling # None
  /\ \E n \in 0..Len(owed) : owed' = SubSeq(owed, n + 1, Len(owed))
  /\ calling' = None
  /\ history' = [history EXCEPT !.failed = TRUE]

\* The service ends: only the answers it has given can still be taken.
Lose ==
  /\ \E n \in 0..Len(owed) : owed' = SubSeq(owed, 1, n)
  /\ UNCHANGED <<calling, history>>

Next == (\E kind \in Kinds : Call(kind)) \/ Return \/ Fail \/ Lose

Spec == Init /\ [][Next]_vars

\* As long as no call has failed every call gets the answer to its own request.
AnswersAreOwn == ~history.failed => history.asked = history.got
=============================================================================
