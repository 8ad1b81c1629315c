-------------------------- MODULE ReceivedUpdates --------------------------
(***************************************************************************)
(* What the Signal K server sends, on its way to the listeners:            *)
(* on_receive_updates, enqueue_received_update, process_received_updates   *)
(* and on_receive_put of SKWSClient (signalk_ws_client.cpp).               *)
(*                                                                         *)
(* The transport task of the websocket puts the entries of a message into  *)
(* received_updates_, which has a limit for values and one for metadata;   *)
(* the event loop takes them out and hands them to the listeners. Two locks*)
(* are shared: the semaphore of SKListener, which protects the registries  *)
(* of listeners, and received_updates_semaphore_. The listeners are made   *)
(* during setup, before the first connection, and stay.                    *)
(*                                                                         *)
(* A message is well formed and not too long; one that is not is dropped   *)
(* before it reaches the code modelled here.                               *)
(***************************************************************************)
EXTENDS Integers, SequencesExt, FiniteSets

CONSTANTS
    Paths,
    ValueListeners, MetaListeners, PutListeners,
    Subjects,      \* the paths that a listener matches
    Messages,      \* what a message may hold: entries of updates, paths put
    MaxValues,     \* SENSESP_MAX_RECEIVED_VALUE_UPDATES
    MaxMeta,       \* SENSESP_MAX_RECEIVED_META_UPDATES
    MaxReceived    \* bound of the model: no message comes after this many entries

Listeners == ValueListeners \cup MetaListeners \cup PutListeners

ASSUME ListenersAssumption ==
    /\ IsFiniteSet(Listeners) /\ Subjects \in [Listeners -> SUBSET Paths]
    /\ \A m \in Messages : m \in [updates : Seq([meta : BOOLEAN, path : Paths]),
                                  put : Seq(Paths)]
ASSUME LimitsAssumption ==
    MaxValues \in Nat \ {0} /\ MaxMeta \in Nat \ {0} /\ MaxReceived \in Nat

VARIABLES
    queue,    \* received_updates_, the oldest first; entries are numbered as they come
    locks,    \* who holds each of the two semaphores
    taken,    \* the event loop: how many semaphores of process it has taken
    handling, \* the transport task: its place, the message and what is left of it
    received, \* history: number of entries received
    arrived,  \* history: entries received since the last one dispatched
    last,     \* history: the last entry each listener was given
    answers   \* history: the answers to PUT messages

updateVars == <<queue, locks, taken, handling, received, arrived, last, answers>>

NoMessage == [updates |-> <<>>, put |-> <<>>]

UpdatesInit ==
    /\ queue = <<>>
    /\ locks = [l \in {"listeners", "updates"} |-> "free"]
    /\ taken = 0
    /\ handling = [pc |-> "idle", message |-> NoMessage, at |-> 1, copies |-> 0,
                   all |-> TRUE]
    /\ received = 0
    /\ arrived = {}
    /\ last = [l \in Listeners |-> 0]
    /\ answers = {}

Free(lock) == locks[lock] = "free"
Taken(lock, task) == [locks EXCEPT ![lock] = task]
Given(lock) == [locks EXCEPT ![lock] = "free"]

PutListenersOf(path) == {l \in PutListeners : path \in Subjects[l]}

\* The entries of a kind; their numbers tell them apart.
OfKind(entries, meta) == {e \in entries : e.meta = meta}
Limit(meta) == IF meta THEN MaxMeta ELSE MaxValues

-----------------------------------------------------------------------------
(* enqueue_received_update *)

\* Variant: one entry too many is kept.
VariantFull(q, meta) == Cardinality(OfKind(Range(q), meta)) > Limit(meta)

Full(q, meta) == Cardinality(OfKind(Range(q), meta)) >= Limit(meta)

\* Variant: the oldest entry makes room, whatever it is.
VariantOldest(q, meta) == 1

\* The place of the oldest entry of a kind.
Oldest(q, meta) ==
    CHOOSE i \in DOMAIN q : q[i].meta = meta /\ \A j \in 1..(i - 1) : q[j].meta # meta

\* Variant: the new entry is put in front.
VariantEnqueue(q, entry) ==
    <<entry>> \o (IF Full(q, entry.meta) THEN RemoveAt(q, Oldest(q, entry.meta)) ELSE q)

Enqueue(q, entry) ==
    Append(IF Full(q, entry.meta) THEN RemoveAt(q, Oldest(q, entry.meta)) ELSE q, entry)

-----------------------------------------------------------------------------
(* The transport task: on_receive_delta. *)

transportFrame == UNCHANGED <<taken, last>>
queueFrame == UNCHANGED <<queue, received, arrived>>

ReceiveMessage(m) ==
    /\ handling.pc = "idle" /\ received < MaxReceived
    /\ handling' = [pc |-> IF m.updates # <<>> THEN "scan" ELSE "put",
              message |-> m, at |-> 1, copies |-> 0, all |-> TRUE]
    /\ UNCHANGED <<locks, answers>> /\ queueFrame /\ transportFrame

\* Is there a listener to metadata? Asked before the queue is locked.
ScanListeners ==
    /\ handling.pc = "scan" /\ Free("listeners")
    /\ handling' = [handling EXCEPT !.pc = "enqueue"]
    /\ UNCHANGED <<locks, answers>> /\ queueFrame /\ transportFrame

\* The queue is locked for the whole message.
UpdatesTake ==
    /\ handling.pc = "enqueue" /\ Free("updates")
    /\ locks' = Taken("updates", "transport")
    /\ handling' = [handling EXCEPT !.pc = "each"]
    /\ UNCHANGED answers /\ queueFrame /\ transportFrame

NewEntry(meta, path) ==
    LET entry == [n |-> received + 1, meta |-> meta, path |-> path]
    IN  /\ queue' = Enqueue(queue, entry)
        /\ arrived' = arrived \cup {entry}
        /\ received' = received + 1

\* The next entry of the message; metadata that nobody wants is not copied.
EnqueueUpdate ==
    /\ handling.pc = "each" /\ handling.at <= Len(handling.message.updates)
    /\ LET update == handling.message.updates[handling.at]
       IN  IF update.meta /\ MetaListeners = {} THEN queueFrame
           ELSE NewEntry(update.meta, update.path)
    /\ handling' = [handling EXCEPT !.at = @ + 1]
    /\ UNCHANGED <<locks, answers>> /\ transportFrame

UpdatesRelease ==
    /\ handling.pc = "each" /\ handling.at > Len(handling.message.updates)
    /\ locks' = Given("updates")
    /\ handling' = [handling EXCEPT !.pc = "put", !.at = 1]
    /\ UNCHANGED answers /\ queueFrame /\ transportFrame

\* The next path of the message, if there is one.
PutTakes ==
    /\ handling.pc = "put" /\ handling.at <= Len(handling.message.put)
    /\ Free("listeners")
    /\ locks' = Taken("listeners", "transport")
    /\ handling' = [handling EXCEPT
            !.pc = "copy",
            !.copies = Cardinality(PutListenersOf(handling.message.put[handling.at]))]
    /\ UNCHANGED answers /\ queueFrame /\ transportFrame

\* The value is queued once for each listener at the path.
PutEnqueues ==
    /\ handling.pc = "copy" /\ handling.copies > 0 /\ Free("updates")
    /\ NewEntry(FALSE, handling.message.put[handling.at])
    /\ handling' = [handling EXCEPT !.copies = @ - 1]
    /\ UNCHANGED <<locks, answers>> /\ transportFrame

\* Variant: the last path decides.
VariantAllMatched(all, path) == PutListenersOf(path) # {}

AllMatched(all, path) == all /\ PutListenersOf(path) # {}

\* Variant: the lock is given back only if the path had a listener.
VariantPutReleases ==
    /\ handling.pc = "copy" /\ handling.copies = 0
    /\ locks' = IF PutListenersOf(handling.message.put[handling.at]) = {}
                  THEN locks ELSE Given("listeners")
    /\ handling' = [handling EXCEPT !.pc = "put", !.at = @ + 1,
                        !.all = AllMatched(@, handling.message.put[handling.at])]
    /\ UNCHANGED answers /\ queueFrame /\ transportFrame

PutReleases ==
    /\ handling.pc = "copy" /\ handling.copies = 0
    /\ locks' = Given("listeners")
    /\ handling' = [handling EXCEPT !.pc = "put", !.at = @ + 1,
                        !.all = AllMatched(@, handling.message.put[handling.at])]
    /\ UNCHANGED answers /\ queueFrame /\ transportFrame

\* One answer for the whole message, if still connected.
MessageDone ==
    /\ handling.pc = "put" /\ handling.at > Len(handling.message.put)
    /\ answers' \in {answers} \cup
          (IF handling.message.put = <<>> THEN {}
           ELSE {answers \cup {[put |-> handling.message.put, completed |-> handling.all]}})
    /\ handling' = [handling EXCEPT !.pc = "idle", !.message = NoMessage, !.at = 1,
                                    !.all = TRUE]
    /\ UNCHANGED locks /\ queueFrame /\ transportFrame

HandleMessage ==
    \/ \E m \in Messages : ReceiveMessage(m)
    \/ ScanListeners
    \/ UpdatesTake
    \/ EnqueueUpdate
    \/ UpdatesRelease
    \/ PutTakes
    \/ PutEnqueues
    \/ PutReleases
    \/ MessageDone

-----------------------------------------------------------------------------
(* The event loop: process_received_updates. *)

loopFrame == UNCHANGED <<handling, received, answers>>

\* Variant: the queue is locked first.
VariantProcessLocks == <<"updates", "listeners">>

\* The semaphores that process takes, in this order.
ProcessLocks == <<"listeners", "updates">>

ProcessTakes ==
    /\ taken < 2 /\ Free(ProcessLocks[taken + 1])
    /\ locks' = Taken(ProcessLocks[taken + 1], "loop")
    /\ taken' = taken + 1
    /\ UNCHANGED <<queue, arrived, last>> /\ loopFrame

\* The listeners an entry is for.
Receivers(entry) ==
    {l \in IF entry.meta THEN MetaListeners ELSE ValueListeners \cup PutListeners :
        entry.path \in Subjects[l]}

\* The oldest entry is handed to the listeners and removed.
Dispatch ==
    /\ taken = 2 /\ queue # <<>>
    /\ last' = [l \in Listeners |->
                   IF l \in Receivers(Head(queue)) THEN Head(queue).n ELSE last[l]]
    /\ queue' = Tail(queue)
    /\ arrived' = {e \in arrived : e.n > Head(queue).n}
    /\ UNCHANGED <<locks, taken>> /\ loopFrame

\* The queue is empty: both semaphores are given back (one step: a task that
\* waits for the second cannot tell).
ProcessReleases ==
    /\ taken = 2 /\ queue = <<>>
    /\ locks' = [l \in DOMAIN locks |-> "free"]
    /\ taken' = 0
    /\ UNCHANGED <<queue, arrived, last>> /\ loopFrame

Process == ProcessTakes \/ Dispatch \/ ProcessReleases

UpdatesNext == HandleMessage \/ Process

UpdatesSpec == UpdatesInit /\ [][UpdatesNext]_updateVars

-----------------------------------------------------------------------------
(* Properties. *)

Entries == [n : 1..received, meta : BOOLEAN, path : Paths]

\* Every variable has its type, and the queue its limit for each kind of entry.
UpdatesTypeOK ==
    /\ queue \in Seq(Entries) /\ arrived \subseteq Entries
    /\ \A meta \in BOOLEAN : Cardinality(OfKind(Range(queue), meta)) <= Limit(meta)
    /\ locks \in [{"listeners", "updates"} -> {"free", "loop", "transport"}]
    /\ taken \in 0..2
    /\ handling \in [pc : {"idle", "scan", "enqueue", "each", "put", "copy"},
               message : Messages \cup {NoMessage},
               at : Nat \ {0}, copies : Nat, all : BOOLEAN]
    /\ received \in Nat
    /\ last \in [Listeners -> 0..received]
    /\ answers \subseteq [put : Seq(Paths), completed : BOOLEAN]

\* "A meta burst cannot evict pending value deltas, and vice versa"
\* (enqueue_received_update): what waits of each kind are the latest entries of
\* that kind, as many as its limit lets it keep, whatever the other kind did.
KindsIndependent ==
    \A meta \in BOOLEAN :
        LET waiting == OfKind(Range(queue), meta)
            since   == OfKind(arrived, meta)
        IN  /\ waiting \subseteq since
            /\ \A e \in waiting, f \in since \ waiting : f.n < e.n
            /\ waiting = since \/ Cardinality(waiting) = Limit(meta)

\* No listener is given an entry after one that came later, although values,
\* metadata and PUTs share the queue and entries are taken out of its middle
\* (process_received_updates, enqueue_received_update).
NeverOlder == [][\A l \in Listeners : last'[l] >= last[l]]_updateVars

\* A PUT of several paths is answered COMPLETED if every one of them had a
\* listener, and FAILED otherwise (on_receive_put).
PutAnswered ==
    \A a \in answers :
        a.completed <=> \A i \in DOMAIN a.put : PutListenersOf(a.put[i]) # {}

\* Every message is handled to its end: the two tasks, which take the two
\* semaphores around each other, never wait for each other
\* (on_receive_updates, on_receive_put, process_received_updates).
MessageEnds == handling.pc # "idle" ~> handling.pc = "idle"

\* Everything that waits is dispatched or makes room: the event loop is not
\* kept from the queue (process_received_updates).
WaitingIsTaken == queue # <<>> ~> queue = <<>>

=============================================================================
