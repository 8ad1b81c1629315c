----------------------------- MODULE RequestMap -----------------------------
(***************************************************************************)
(* PUT requests to the Signal K server: SKRequest and SKPutRequest in      *)
(* src/sensesp/signalk/signalk_put_request.{h,cpp}.                        *)
(*                                                                         *)
(* The event loop sets values and sends requests; each request is a heap   *)
(* object in request_map_ with a timer that gives it up. The transport task*)
(* of the websocket looks the request of a response up, runs its callback  *)
(* with request_map_mutex_ held, and removes and frees it when the response*)
(* is final. The mutex protects the map; the objects are also read and     *)
(* written without it: by the timer that fires, and by send_request when it*)
(* returns. Reading one that was freed gives anything: the id still there, *)
(* or Garbage.                                                             *)
(*                                                                         *)
(* A critical section in which a task does nothing but use the map is one  *)
(* step, enabled while no other task holds the mutex.                      *)
(***************************************************************************)
EXTENDS Integers, FiniteSets

CONSTANTS
    Putters,  \* the SKPutRequest objects
    Ids,      \* request ids (uuids, never used twice); bounds the requests sent
    NoId,     \* the empty id
    Garbage   \* what freed memory may hold

ASSUME IdsAssumption == NoId \notin Ids /\ Garbage \notin Ids /\ NoId # Garbage

VARIABLES
    map,       \* the ids in request_map_
    object,    \* PendingRequest objects: not allocated, alive or freed
    cleanup,   \* timeout_cleanup of an object is not null
    timer,     \* the delay event of a request (ReactESP)
    holder,    \* the transport task holds request_map_mutex_
    caller,    \* the event loop: its place, request and SKPutRequest
    response,  \* the transport task: its place, request and kind of response
    pendingId, \* pending_request_id_ of each SKPutRequest
    owner,     \* history: the SKPutRequest that made a request
    sent,      \* history: the requests the server received
    finals,    \* history: final responses handed to the callback
    gaveUp     \* history: the requests the timer removed

requestVars == <<map, object, cleanup, timer, holder, caller, response,
          pendingId, owner, sent, finals, gaveUp>>

loopVars      == <<caller, pendingId, owner, sent>>
transportVars == <<holder, response, finals>>

RequestInit ==
    /\ map = {}
    /\ object = [id \in Ids |-> "none"]
    /\ cleanup = [id \in Ids |-> FALSE]
    /\ timer = [id \in Ids |-> "none"]
    /\ holder = FALSE
    /\ caller = [pc |-> "idle", id |-> NoId, p |-> NoId]
    /\ response = [pc |-> "idle", id |-> NoId, final |-> FALSE]
    /\ pendingId = [p \in Putters |-> NoId]
    /\ owner = [id \in Ids |-> NoId]
    /\ sent = {}
    /\ finals = [id \in Ids |-> 0]
    /\ gaveUp = {}

\* What a read of the id of request id may return.
ReadId(id) == IF object[id] = "alive" THEN {id} ELSE {id, Garbage}

-----------------------------------------------------------------------------
(* The event loop: SKPutRequest::set and send_request. *)

NoCall == [pc |-> "idle", id |-> NoId, p |-> NoId]

\* Variant: a new value does not ask whether a request is outstanding.
VariantRequestPending(p) == FALSE

RequestPending(p) == pendingId[p] \in map

\* A new value, if no request is outstanding; the request and its timer are
\* made. A value set while one is outstanding, or a duplicate, is ignored.
Set(p) ==
    /\ caller.pc = "idle" /\ ~holder
    /\ ~RequestPending(p)
    /\ \E id \in Ids :
        /\ object[id] = "none"
        /\ object' = [object EXCEPT ![id] = "alive"]
        /\ cleanup' = [cleanup EXCEPT ![id] = TRUE]
        /\ timer' = [timer EXCEPT ![id] = "armed"]
        /\ owner' = [owner EXCEPT ![id] = p]
        /\ caller' = [pc |-> "insert", id |-> id, p |-> p]
    /\ UNCHANGED <<map, pendingId, sent, gaveUp, transportVars>>

Insert ==
    /\ caller.pc = "insert" /\ ~holder
    /\ map' = map \cup {caller.id}
    /\ caller' = [caller EXCEPT !.pc = "send"]
    /\ UNCHANGED <<object, cleanup, timer, pendingId, owner, sent, gaveUp, transportVars>>

\* sendTXT: the request reaches the server, or there is no connection.
SendText ==
    /\ caller.pc = "send"
    /\ sent' \in {sent, sent \cup {caller.id}}
    /\ caller' = [caller EXCEPT !.pc = "return"]
    /\ UNCHANGED <<map, object, cleanup, timer, pendingId, owner, gaveUp, transportVars>>

\* send_request returns the id it reads from the object.
Return ==
    /\ caller.pc = "return"
    /\ \E read \in ReadId(caller.id) : pendingId' = [pendingId EXCEPT ![caller.p] = read]
    /\ caller' = NoCall
    /\ UNCHANGED <<map, object, cleanup, timer, owner, sent, gaveUp, transportVars>>

-----------------------------------------------------------------------------
(* The event loop: a timer runs out. *)

TimerFires(id) ==
    /\ caller.pc = "idle" /\ timer[id] = "armed"
    /\ timer' = [timer EXCEPT ![id] = "running"]
    /\ caller' = [pc |-> "timeout", id |-> id, p |-> NoId]
    /\ UNCHANGED <<map, object, cleanup, pendingId, owner, sent, gaveUp, transportVars>>

TimeoutClears ==
    /\ caller.pc = "timeout"
    /\ cleanup' = [cleanup EXCEPT ![caller.id] = FALSE]
    /\ caller' = [caller EXCEPT !.pc = "remove"]
    /\ UNCHANGED <<map, object, timer, pendingId, owner, sent, gaveUp, transportVars>>

\* Variant: a request without a timer is taken for removed.
VariantRemovable(read) == {id \in map \cap {read} : cleanup[id]}

\* The requests remove_request finds under an id.
Removable(read) == map \cap {read}

TimeoutRemoves ==
    /\ caller.pc = "remove" /\ ~holder
    /\ \E read \in ReadId(caller.id) :
        LET found == Removable(read) IN
        /\ map' = map \ found
        /\ object' = [id \in Ids |-> IF id \in found THEN "freed" ELSE object[id]]
        /\ gaveUp' = gaveUp \cup found
    /\ timer' = [timer EXCEPT ![caller.id] = "done"]
    /\ caller' = NoCall
    /\ UNCHANGED <<cleanup, pendingId, owner, sent, transportVars>>

CallerTask ==
    \/ \E p \in Putters : Set(p)
    \/ Insert
    \/ SendText
    \/ Return
    \/ \E id \in Ids : TimerFires(id)
    \/ TimeoutClears
    \/ TimeoutRemoves

-----------------------------------------------------------------------------
(* The transport task: handle_response. *)

\* A response arrives; the server may send several, and late ones.
Receive(id, final) ==
    /\ response.pc = "idle" /\ id \in sent
    /\ response' = [pc |-> "lookup", id |-> id, final |-> final]
    /\ UNCHANGED <<map, object, cleanup, timer, holder, finals, gaveUp, loopVars>>

\* Variant: the mutex covers the look-up only, not the callback.
VariantLookup ==
    /\ response.pc = "lookup" /\ ~holder
    /\ response' = [response EXCEPT !.pc = IF response.id \in map THEN "callback"
                                                                  ELSE "idle"]
    /\ UNCHANGED <<map, object, cleanup, timer, holder, finals, gaveUp, loopVars>>

Lookup ==
    /\ response.pc = "lookup" /\ ~holder
    /\ IF response.id \in map
       THEN holder' = TRUE /\ response' = [response EXCEPT !.pc = "callback"]
       ELSE holder' = holder /\ response' = [response EXCEPT !.pc = "idle"]
    /\ UNCHANGED <<map, object, cleanup, timer, finals, gaveUp, loopVars>>

\* The callback; a PENDING response leaves the request in place.
Callback ==
    /\ response.pc = "callback"
    /\ IF response.final
       THEN /\ finals' = [finals EXCEPT ![response.id] = @ + 1]
            /\ response' = [response EXCEPT !.pc = "test"]
            /\ holder' = holder
       ELSE /\ response' = [response EXCEPT !.pc = "idle"]
            /\ holder' = FALSE
            /\ UNCHANGED finals
    /\ UNCHANGED <<map, object, cleanup, timer, gaveUp, loopVars>>

TestCleanup ==
    /\ response.pc = "test"
    /\ response' = [response EXCEPT !.pc = IF cleanup[response.id] THEN "cancel"
                                                                   ELSE "erase"]
    /\ UNCHANGED <<map, object, cleanup, timer, holder, finals, gaveUp, loopVars>>

\* Cancels the timer unless it is running already. The code reads the pointer to
\* the timer again here, which a timer that fires may null after the test: what a
\* call on the null pointer does then is not modelled.
Cancel ==
    /\ response.pc = "cancel"
    /\ timer' = [timer EXCEPT ![response.id] = IF @ = "armed" THEN "cancelled" ELSE @]
    /\ response' = [response EXCEPT !.pc = "erase"]
    /\ UNCHANGED <<map, object, cleanup, holder, finals, gaveUp, loopVars>>

\* Variant: the object is freed, and its id stays in the map.
VariantErase ==
    /\ response.pc = "erase"
    /\ object' = [object EXCEPT ![response.id] = "freed"]
    /\ holder' = FALSE
    /\ response' = [response EXCEPT !.pc = "idle"]
    /\ UNCHANGED <<map, cleanup, timer, finals, gaveUp, loopVars>>

Erase ==
    /\ response.pc = "erase"
    /\ map' = map \ {response.id}
    /\ object' = [object EXCEPT ![response.id] = "freed"]
    /\ holder' = FALSE
    /\ response' = [response EXCEPT !.pc = "idle"]
    /\ UNCHANGED <<cleanup, timer, finals, gaveUp, loopVars>>

HandleResponse ==
    \/ Lookup
    \/ Callback
    \/ TestCleanup
    \/ Cancel
    \/ Erase

RequestNext ==
    \/ CallerTask
    \/ \E id \in Ids, final \in BOOLEAN : Receive(id, final)
    \/ HandleResponse

RequestSpec == RequestInit /\ [][RequestNext]_requestVars

-----------------------------------------------------------------------------
(* Properties. *)

\* Every variable has its type; the map holds pointers to live objects.
RequestTypeOK ==
    /\ map \subseteq {id \in Ids : object[id] = "alive"}
    /\ sent \subseteq Ids /\ gaveUp \subseteq Ids
    /\ object \in [Ids -> {"none", "alive", "freed"}]
    /\ cleanup \in [Ids -> BOOLEAN]
    /\ timer \in [Ids -> {"none", "armed", "running", "cancelled", "done"}]
    /\ holder \in BOOLEAN
    /\ caller \in [pc : {"idle", "insert", "send", "return", "timeout", "remove"},
               id : Ids \cup {NoId}, p : Putters \cup {NoId}]
    /\ response \in [pc : {"idle", "lookup", "callback", "test", "cancel", "erase"},
               id : Ids \cup {NoId}, final : BOOLEAN]
    /\ pendingId \in [Putters -> Ids \cup {NoId, Garbage}]
    /\ owner \in [Ids -> Putters \cup {NoId}]
    /\ finals \in [Ids -> Nat]

\* An SKPutRequest never has two requests outstanding, although it learns the
\* id of its request from an object that may be freed by then (set,
\* request_pending).
OneOutstanding ==
    \A i, j \in map : owner[i] = owner[j] => i = j

\* Every request has one outcome: one final response reaches its callback, or
\* the timer gives it up, and never both, however the answer races the timeout
\* and however often the server answers (handle_response, remove_request).
OneOutcome ==
    \A id \in Ids : finals[id] <= 1 /\ (id \in gaveUp => finals[id] = 0)

\* Every request ends, answered or not ("or nullptr if no such id is found"): a
\* lost answer cannot block an SKPutRequest for good (the timeout of
\* send_request).
RequestsEnd == \A id \in Ids : id \in map ~> id \notin map

\* "After 10 seconds, if we haven't already handled a response, assume its not
\* coming" (send_request): the timeout goes on only for a request that has not
\* been handled.
TimeoutOnlyUnanswered == caller.pc = "remove" => object[caller.id] = "alive"

\* "@return The request Id that is sent to the server" (send_request).
SentIdReturned ==
    [][caller.pc = "return" /\ caller'.pc = "idle"
         => pendingId'[caller.p] = caller.id]_requestVars

=============================================================================
