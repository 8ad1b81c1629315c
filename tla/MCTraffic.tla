----------------------------- MODULE MCTraffic -----------------------------
(***************************************************************************)
(* What a device exchanges with the server while it is connected, checked  *)
(* one stream at a time: the deltas it sends, the PUT requests it makes and*)
(* the updates it receives share no state, so the value of "stream", chosen*)
(* in the initial state, says which of them takes steps.                   *)
(*                                                                         *)
(* DeltaQueue with two contexts, a queue of two, and metadata that fit into*)
(* a delta with one value and not into one with two. RequestMap with two   *)
(* SKPutRequest objects and three requests, so that one of them makes a    *)
(* second request after its first ends. ReceivedUpdates with two paths: one*)
(* with two PUT listeners and a listener to its metadata, one without PUT  *)
(* listener; a listener to the values of both.                             *)
(***************************************************************************)
EXTENDS DeltaQueue, ReceivedUpdates, MCRequestMap

CONSTANTS self, other, a, b, v1, v2, m1, q1, q2

MCContexts == {self, other}

MCPaths == {a, b}
MCValueListeners == {v1, v2}
MCMetaListeners == {m1}
MCPutListeners == {q1, q2}
MCSubjects == v1 :> {a, b} @@ v2 :> {b} @@ m1 :> {a} @@ q1 :> {a} @@ q2 :> {a}

Val(p) == [meta |-> FALSE, path |-> p]
Met(p) == [meta |-> TRUE, path |-> p]
MCMessages == [updates : {<<Val(a)>>, <<Val(b), Met(a)>>, <<Met(a), Met(b)>>}, put : {<<>>}]
    \cup [updates : {<<>>}, put : {<<a>>, <<b, a>>, <<a, b>>}]

\* What the transport task does with a message it has received.
HandleStep ==
    \/ ScanListeners \/ UpdatesTake \/ EnqueueUpdate \/ UpdatesRelease
    \/ PutTakes \/ PutEnqueues \/ PutReleases \/ MessageDone

VARIABLE stream

vars == <<stream, deltaVars, requestVars, updateVars>>

Init ==
    /\ stream \in {"deltas", "requests", "updates"}
    /\ DeltaInit /\ RequestInit /\ UpdatesInit

Deltas(A) == stream = "deltas" /\ A /\ UNCHANGED <<stream, requestVars, updateVars>>
Requests(A) == stream = "requests" /\ A /\ UNCHANGED <<stream, deltaVars, updateVars>>
Updates(A) == stream = "updates" /\ A /\ UNCHANGED <<stream, deltaVars, requestVars>>

Next ==
    \/ Deltas(DeltaNext)
    \/ Requests(RequestNext)
    \/ Updates(UpdatesNext)

\* Every task runs, and one that waits for a mutex or a semaphore gets it in the
\* end (FreeRTOS hands it over by priority and then by turn): each is at one place
\* at a time, so that fairness for all its steps is fairness for each. A timer
\* that is due fires.
Fairness ==
    /\ SF_vars(Requests(Insert \/ SendText \/ Return \/ TimeoutClears \/ TimeoutRemoves))
    /\ \A id \in Ids : WF_vars(Requests(TimerFires(id)))
    /\ WF_vars(Requests(HandleResponse))
    /\ SF_vars(Updates(HandleStep))
    /\ SF_vars(Updates(Process))

Spec == Init /\ [][Next]_vars /\ Fairness

\* The types of the three streams.
TypeOK == DeltaTypeOK /\ RequestTypeOK /\ UpdatesTypeOK
=============================================================================
