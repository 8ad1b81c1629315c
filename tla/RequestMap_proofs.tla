-------------------------- MODULE RequestMap_proofs --------------------------
(***************************************************************************)
(* Proofs about RequestMap for any number of SKPutRequest objects and of   *)
(* requests.                                                               *)
(***************************************************************************)
EXTENDS RequestMap, TLAPS

Sending == {"insert", "send", "return"}
Holding == {"callback", "test", "cancel", "erase"}

\* The transport task holds the mutex while it uses a request, and so the
\* request stays in the map.
Locked ==
    /\ holder <=> response.pc \in Holding
    /\ response.pc \in Holding => response.id \in map

\* A request that has yet to be tracked has no history.
Fresh ==
    /\ \A id \in Ids :
        object[id] = "none" \/ (caller.pc = "insert" /\ caller.id = id)
            => id \notin map /\ id \notin gaveUp /\ finals[id] = 0
    /\ caller.pc = "insert" => object[caller.id] = "alive"

\* A request that ended is not tracked, except one that the transport task is
\* removing.
Ended ==
    /\ \A id \in gaveUp : id \notin map
    /\ \A id \in Ids :
        finals[id] # 0 => id \notin map \/ (response.id = id /\ response.pc \in Holding \ {"callback"})

\* A tracked request is the one its SKPutRequest knows of, or is about to.
Known ==
    /\ caller.pc \in Sending =>
        /\ caller.p \in Putters /\ caller.id \in Ids /\ owner[caller.id] = caller.p
        /\ \A id \in map : owner[id] = caller.p => id = caller.id
    /\ \A id \in map :
        /\ owner[id] \in Putters
        /\ pendingId[owner[id]] = id \/ (caller.pc \in Sending /\ caller.id = id)
    /\ caller.pc \in {"timeout", "remove"} => caller.id \in Ids
    /\ response.pc # "idle" => response.id \in Ids

IInv == RequestTypeOK /\ Locked /\ Fresh /\ Ended /\ Known /\ OneOutcome

-----------------------------------------------------------------------------
(* One lemma for each part, one step for each action. *)

\* A read of a live object returns its id.
LEMMA ReadAlive == \A id \in Ids : object[id] = "alive" => ReadId(id) = {id}
BY DEF ReadId

\* Every read is an id or garbage.
LEMMA ReadType == \A id \in Ids : ReadId(id) \subseteq Ids \cup {Garbage}
BY DEF ReadId

\* Every step keeps every type: what is freed leaves the map in the same step.
LEMMA TypeStep == IInv /\ [RequestNext]_requestVars => RequestTypeOK'
<1> SUFFICES ASSUME IInv, [RequestNext]_requestVars PROVE RequestTypeOK'
  OBVIOUS
<1> USE DEF RequestTypeOK, loopVars, transportVars
<1> DEFINE Places == [pc : {"idle", "lookup", "callback", "test", "cancel", "erase"},
                      id : Ids \cup {NoId}, final : BOOLEAN]
<1>0. RequestTypeOK
  BY DEF IInv
<1>1. ASSUME NEW p \in Putters, Set(p) PROVE RequestTypeOK'
  <2>1. PICK id \in Ids :
          /\ object[id] = "none"
          /\ object' = [object EXCEPT ![id] = "alive"]
          /\ cleanup' = [cleanup EXCEPT ![id] = TRUE]
          /\ timer' = [timer EXCEPT ![id] = "armed"]
          /\ owner' = [owner EXCEPT ![id] = p]
          /\ caller' = [pc |-> "insert", id |-> id, p |-> p]
    BY <1>1 DEF Set
  <2>2. id \notin map
    BY <1>0, <2>1
  <2>3. map' \subseteq {i \in Ids : object'[i] = "alive"}
    BY <1>0, <1>1, <2>1, <2>2 DEF Set
  <2> QED BY <1>0, <1>1, <2>1, <2>3 DEF Set
<1>2. CASE Insert
  <2>1. caller.id \in Ids /\ object[caller.id] = "alive"
    BY <1>2 DEF IInv, Known, Sending, Fresh, Insert
  <2> QED BY <1>0, <1>2, <2>1 DEF Insert
<1>3. CASE SendText
  <2>1. caller.id \in Ids
    BY <1>3 DEF IInv, Known, Sending, SendText
  <2> QED BY <1>0, <1>3, <2>1 DEF SendText
<1>4. CASE Return
  <2>1. caller.id \in Ids
    BY <1>4 DEF IInv, Known, Sending, Return
  <2>2. pendingId' \in [Putters -> Ids \cup {NoId, Garbage}]
    <3>1. PICK read \in ReadId(caller.id) : pendingId' = [pendingId EXCEPT ![caller.p] = read]
      BY <1>4 DEF Return
    <3>2. read \in Ids \cup {Garbage}
      BY <2>1, <3>1, ReadType
    <3>3. pendingId \in [Putters -> Ids \cup {NoId, Garbage}]
      BY <1>0
    <3> QED BY <3>1, <3>2, <3>3
  <2> QED BY <1>0, <1>4, <2>2 DEF Return, NoCall
<1>5. ASSUME NEW id \in Ids, TimerFires(id) PROVE RequestTypeOK'
  BY <1>0, <1>5 DEF TimerFires
<1>6. CASE TimeoutClears
  BY <1>0, <1>6 DEF TimeoutClears
<1>7. CASE TimeoutRemoves
  <2>1. PICK read \in ReadId(caller.id) :
          /\ map' = map \ Removable(read)
          /\ object' = [id \in Ids |-> IF id \in Removable(read) THEN "freed" ELSE object[id]]
          /\ gaveUp' = gaveUp \cup Removable(read)
    BY <1>7 DEF TimeoutRemoves
  <2>2. Removable(read) \subseteq map
    BY DEF Removable
  <2>3. map' \subseteq {i \in Ids : object'[i] = "alive"} /\ gaveUp' \subseteq Ids
    BY <1>0, <2>1, <2>2
  <2>4. object' \in [Ids -> {"none", "alive", "freed"}]
    BY <1>0, <2>1
  <2>5. timer' \in [Ids -> {"none", "armed", "running", "cancelled", "done"}]
        /\ caller' \in [pc : {"idle", "insert", "send", "return", "timeout", "remove"},
                    id : Ids \cup {NoId}, p : Putters \cup {NoId}]
    BY <1>0, <1>7 DEF TimeoutRemoves, NoCall
  <2> QED BY <1>0, <1>7, <2>3, <2>4, <2>5 DEF TimeoutRemoves
<1>8. ASSUME NEW id \in Ids, NEW final \in BOOLEAN, Receive(id, final) PROVE RequestTypeOK'
  BY <1>0, <1>8 DEF Receive
<1>9. CASE Lookup
  <2>1. holder' \in BOOLEAN
    BY <1>0, <1>9, Zenon DEF Lookup
  <2>2. response' \in Places
    <3>1. [response EXCEPT !.pc = "callback"] \in Places
      BY <1>0
    <3>2. [response EXCEPT !.pc = "idle"] \in Places
      BY <1>0
    <3> QED BY <1>9, <3>1, <3>2, Zenon DEF Lookup
  <2>3. UNCHANGED <<map, object, cleanup, timer, finals, gaveUp, caller, pendingId, owner, sent>>
    BY <1>9 DEF Lookup
  <2> QED BY <1>0, <2>1, <2>2, <2>3
<1>10. CASE Callback
  <2>1. finals[response.id] \in Nat
    BY <1>0, <1>10 DEF IInv, Known, Callback
  <2>2. finals' \in [Ids -> Nat]
    BY <1>0, <1>10, <2>1 DEF Callback
  <2>3. [response EXCEPT !.pc = "test"] \in Places /\ [response EXCEPT !.pc = "idle"] \in Places
    BY <1>0
  <2>4. response' \in Places /\ holder' \in BOOLEAN
    BY <1>0, <1>10, <2>3, Zenon DEF Callback
  <2> QED BY <1>0, <1>10, <2>2, <2>4 DEF Callback
<1>11. CASE TestCleanup
  BY <1>0, <1>11 DEF TestCleanup
<1>12. CASE Cancel
  <2>1. timer' \in [Ids -> {"none", "armed", "running", "cancelled", "done"}]
    BY <1>0, <1>12 DEF Cancel
  <2> QED BY <1>0, <1>12, <2>1 DEF Cancel
<1>13. CASE Erase
  <2>1. map' \subseteq {i \in Ids : object'[i] = "alive"}
    BY <1>0, <1>13 DEF Erase
  <2> QED BY <1>0, <1>13, <2>1 DEF Erase
<1>14. CASE UNCHANGED requestVars
  BY <1>0, <1>14 DEF requestVars
<1> QED BY <1>1, <1>2, <1>3, <1>4, <1>5, <1>6, <1>7, <1>8, <1>9, <1>10, <1>11,
           <1>12, <1>13, <1>14 DEF RequestNext, CallerTask, HandleResponse

\* The steps of the transport task keep the lock discipline, and no other task
\* removes a request while it holds the mutex.
LEMMA LockedStep == IInv /\ [RequestNext]_requestVars => Locked'
<1> SUFFICES ASSUME IInv, [RequestNext]_requestVars PROVE Locked'
  OBVIOUS
<1> USE DEF Locked, Holding, loopVars, transportVars
<1>0. Locked /\ response \in [pc : {"idle", "lookup", "callback", "test", "cancel", "erase"},
                       id : Ids \cup {NoId}, final : BOOLEAN]
  BY DEF IInv, RequestTypeOK
<1>1. ASSUME NEW p \in Putters, Set(p) PROVE Locked'
  BY <1>0, <1>1 DEF Set
<1>2. CASE Insert
  BY <1>0, <1>2 DEF Insert
<1>3. CASE SendText
  BY <1>0, <1>3 DEF SendText
<1>4. CASE Return
  BY <1>0, <1>4 DEF Return
<1>5. ASSUME NEW id \in Ids, TimerFires(id) PROVE Locked'
  BY <1>0, <1>5 DEF TimerFires
<1>6. CASE TimeoutClears
  BY <1>0, <1>6 DEF TimeoutClears
<1>7. CASE TimeoutRemoves
  BY <1>0, <1>7 DEF TimeoutRemoves
<1>8. ASSUME NEW id \in Ids, NEW final \in BOOLEAN, Receive(id, final) PROVE Locked'
  BY <1>0, <1>8 DEF Receive
<1>9. CASE Lookup
  BY <1>0, <1>9 DEF Lookup
<1>10. CASE Callback
  BY <1>0, <1>10 DEF Callback
<1>11. CASE TestCleanup
  BY <1>0, <1>11 DEF TestCleanup
<1>12. CASE Cancel
  BY <1>0, <1>12 DEF Cancel
<1>13. CASE Erase
  BY <1>0, <1>13 DEF Erase
<1>14. CASE UNCHANGED requestVars
  BY <1>0, <1>14 DEF requestVars
<1> QED BY <1>1, <1>2, <1>3, <1>4, <1>5, <1>6, <1>7, <1>8, <1>9, <1>10, <1>11,
           <1>12, <1>13, <1>14 DEF RequestNext, CallerTask, HandleResponse

\* A request is tracked once, after it is made.
LEMMA FreshStep == IInv /\ [RequestNext]_requestVars => Fresh'
<1> SUFFICES ASSUME IInv, [RequestNext]_requestVars PROVE Fresh'
  OBVIOUS
<1> USE DEF Fresh, loopVars, transportVars
<1>0. /\ Fresh /\ RequestTypeOK
      /\ caller.pc = "insert" => caller.id \in Ids
      /\ response.pc \in Holding => response.id \in map
  BY DEF IInv, Locked, Known, Sending
<1>1. ASSUME NEW p \in Putters, Set(p) PROVE Fresh'
  BY <1>0, <1>1 DEF Set, RequestTypeOK
<1>2. CASE Insert
  BY <1>0, <1>2 DEF Insert, RequestTypeOK
<1>3. CASE SendText
  BY <1>0, <1>3 DEF SendText, RequestTypeOK
<1>4. CASE Return
  BY <1>0, <1>4 DEF Return, NoCall
<1>5. ASSUME NEW id \in Ids, TimerFires(id) PROVE Fresh'
  BY <1>0, <1>5 DEF TimerFires
<1>6. CASE TimeoutClears
  BY <1>0, <1>6 DEF TimeoutClears, RequestTypeOK
<1>7. CASE TimeoutRemoves
  BY <1>0, <1>7 DEF TimeoutRemoves, Removable, NoCall
<1>8. ASSUME NEW id \in Ids, NEW final \in BOOLEAN, Receive(id, final) PROVE Fresh'
  BY <1>0, <1>8 DEF Receive
<1>9. CASE Lookup
  BY <1>0, <1>9 DEF Lookup
<1>10. CASE Callback
  BY <1>0, <1>10 DEF Callback, Holding, RequestTypeOK
<1>11. CASE TestCleanup
  BY <1>0, <1>11 DEF TestCleanup
<1>12. CASE Cancel
  BY <1>0, <1>12 DEF Cancel
<1>13. CASE Erase
  BY <1>0, <1>13 DEF Erase, Holding, RequestTypeOK
<1>14. CASE UNCHANGED requestVars
  BY <1>0, <1>14 DEF requestVars
<1> QED BY <1>1, <1>2, <1>3, <1>4, <1>5, <1>6, <1>7, <1>8, <1>9, <1>10, <1>11,
           <1>12, <1>13, <1>14 DEF RequestNext, CallerTask, HandleResponse

\* A request that ended stays so, and ends once: the timer and the transport
\* task remove only what the map still has, under the mutex.
LEMMA EndedStep == IInv /\ [RequestNext]_requestVars => Ended' /\ OneOutcome'
<1> SUFFICES ASSUME IInv, [RequestNext]_requestVars PROVE Ended' /\ OneOutcome'
  OBVIOUS
<1> USE DEF Ended, OneOutcome, loopVars, transportVars
<1>0. /\ Ended /\ OneOutcome /\ Locked /\ map \subseteq Ids
      /\ finals \in [Ids -> Nat] /\ gaveUp \subseteq Ids
      /\ caller.pc = "insert" => caller.id \notin gaveUp /\ finals[caller.id] = 0
      /\ response \in [pc : {"idle", "lookup", "callback", "test", "cancel", "erase"},
                 id : Ids \cup {NoId}, final : BOOLEAN]
  BY DEF IInv, RequestTypeOK, Fresh, Known, Sending
<1>1. ASSUME NEW p \in Putters, Set(p) PROVE Ended' /\ OneOutcome'
  BY <1>0, <1>1 DEF Set
<1>2. CASE Insert
  BY <1>0, <1>2 DEF Insert
<1>3. CASE SendText
  BY <1>0, <1>3 DEF SendText
<1>4. CASE Return
  BY <1>0, <1>4 DEF Return
<1>5. ASSUME NEW id \in Ids, TimerFires(id) PROVE Ended' /\ OneOutcome'
  BY <1>0, <1>5 DEF TimerFires
<1>6. CASE TimeoutClears
  BY <1>0, <1>6 DEF TimeoutClears
<1>7. CASE TimeoutRemoves
  <2>1. PICK found : found \subseteq map /\ map' = map \ found /\ gaveUp' = gaveUp \cup found
    BY <1>7 DEF TimeoutRemoves, Removable
  <2>2. response.pc \notin Holding /\ finals' = finals /\ response' = response
    BY <1>0, <1>7 DEF TimeoutRemoves, Locked
  <2> QED BY <1>0, <2>1, <2>2 DEF Holding
<1>8. ASSUME NEW id \in Ids, NEW final \in BOOLEAN, Receive(id, final)
      PROVE Ended' /\ OneOutcome'
  BY <1>0, <1>8 DEF Receive, Holding
<1>9. CASE Lookup
  BY <1>0, <1>9 DEF Lookup, Holding
<1>10. CASE Callback
  <2>1. response.id \in map /\ finals[response.id] = 0 /\ response.id \notin gaveUp /\ response.id \in Ids
    BY <1>0, <1>10 DEF Callback, Locked, Holding
  <2>2. map' = map /\ gaveUp' = gaveUp
    BY <1>10 DEF Callback
  <2>3. CASE response.final
    <3>1. finals' = [finals EXCEPT ![response.id] = 1] /\ response' = [response EXCEPT !.pc = "test"]
      BY <1>0, <1>10, <2>1, <2>3 DEF Callback
    <3> QED BY <1>0, <2>1, <2>2, <3>1 DEF Holding
  <2>4. CASE ~response.final
    <3>1. finals' = finals /\ response.pc = "callback"
      BY <1>10, <2>4 DEF Callback
    <3> QED BY <1>0, <2>2, <3>1 DEF Holding
  <2> QED BY <2>3, <2>4
<1>11. CASE TestCleanup
  BY <1>0, <1>11 DEF TestCleanup, Holding
<1>12. CASE Cancel
  BY <1>0, <1>12 DEF Cancel, Holding
<1>13. CASE Erase
  BY <1>0, <1>13 DEF Erase, Holding
<1>14. CASE UNCHANGED requestVars
  BY <1>0, <1>14 DEF requestVars
<1> QED BY <1>1, <1>2, <1>3, <1>4, <1>5, <1>6, <1>7, <1>8, <1>9, <1>10, <1>11,
           <1>12, <1>13, <1>14 DEF RequestNext, CallerTask, HandleResponse

\* A SKPutRequest knows its tracked request: the id it reads when send_request
\* returns is the right one as long as the request is tracked.
LEMMA KnownStep == IInv /\ [RequestNext]_requestVars => Known'
<1> SUFFICES ASSUME IInv, [RequestNext]_requestVars PROVE Known'
  OBVIOUS
<1> USE DEF Known, Sending, loopVars, transportVars
<1>0. Known /\ RequestTypeOK
  BY DEF IInv
<1>1. ASSUME NEW p \in Putters, Set(p) PROVE Known'
  <2>1. PICK id \in Ids :
          /\ object[id] = "none"
          /\ owner' = [owner EXCEPT ![id] = p]
          /\ caller' = [pc |-> "insert", id |-> id, p |-> p]
    BY <1>1 DEF Set
  <2>2. id \notin map /\ map' = map /\ pendingId' = pendingId /\ response' = response
        /\ caller.pc = "idle" /\ pendingId[p] \notin map
    BY <1>0, <1>1, <2>1 DEF Set, RequestTypeOK, RequestPending
  <2>3. \A i \in map : owner[i] # p /\ owner'[i] = owner[i] /\ pendingId[owner[i]] = i
    BY <1>0, <2>1, <2>2 DEF RequestTypeOK
  <2>4. owner'[id] = p
    BY <1>0, <2>1 DEF RequestTypeOK
  <2> QED BY <1>0, <2>1, <2>2, <2>3, <2>4
<1>2. CASE Insert
  BY <1>0, <1>2 DEF Insert, RequestTypeOK
<1>3. CASE SendText
  BY <1>0, <1>3 DEF SendText, RequestTypeOK
<1>4. CASE Return
  <2>1. PICK read \in ReadId(caller.id) : pendingId' = [pendingId EXCEPT ![caller.p] = read]
    BY <1>4 DEF Return
  <2>2. caller.id \in map => read = caller.id
    BY <1>0, <2>1, ReadAlive DEF RequestTypeOK
  <2>3. map' = map /\ owner' = owner /\ response' = response /\ caller'.pc = "idle" /\ caller.pc = "return"
    BY <1>4 DEF Return, NoCall
  <2>4. ASSUME NEW id \in map PROVE owner[id] \in Putters /\ pendingId'[owner[id]] = id
    <3>1. CASE owner[id] = caller.p
      BY <1>0, <2>1, <2>2, <2>3, <3>1 DEF RequestTypeOK
    <3>2. CASE owner[id] # caller.p
      BY <1>0, <2>1, <2>3, <3>2 DEF RequestTypeOK
    <3> QED BY <3>1, <3>2
  <2> QED BY <1>0, <2>3, <2>4
<1>5. ASSUME NEW id \in Ids, TimerFires(id) PROVE Known'
  BY <1>0, <1>5 DEF TimerFires
<1>6. CASE TimeoutClears
  BY <1>0, <1>6 DEF TimeoutClears, RequestTypeOK
<1>7. CASE TimeoutRemoves
  BY <1>0, <1>7 DEF TimeoutRemoves, Removable, NoCall
<1>8. ASSUME NEW id \in Ids, NEW final \in BOOLEAN, Receive(id, final) PROVE Known'
  BY <1>0, <1>8 DEF Receive
<1>9. CASE Lookup
  BY <1>0, <1>9 DEF Lookup, RequestTypeOK
<1>10. CASE Callback
  BY <1>0, <1>10 DEF Callback, RequestTypeOK
<1>11. CASE TestCleanup
  BY <1>0, <1>11 DEF TestCleanup, RequestTypeOK
<1>12. CASE Cancel
  BY <1>0, <1>12 DEF Cancel, RequestTypeOK
<1>13. CASE Erase
  BY <1>0, <1>13 DEF Erase, RequestTypeOK
<1>14. CASE UNCHANGED requestVars
  BY <1>0, <1>14 DEF requestVars
<1> QED BY <1>1, <1>2, <1>3, <1>4, <1>5, <1>6, <1>7, <1>8, <1>9, <1>10, <1>11,
           <1>12, <1>13, <1>14 DEF RequestNext, CallerTask, HandleResponse

-----------------------------------------------------------------------------
(* Theorems. *)

\* The inductive invariant holds in every state of every run.
THEOREM InvAlways == RequestSpec => []IInv
<1>1. RequestInit => IInv
  <2> SUFFICES ASSUME RequestInit PROVE IInv
    OBVIOUS
  <2>1. RequestTypeOK
    BY DEF RequestInit, RequestTypeOK
  <2>2. Locked
    BY DEF RequestInit, Locked, Holding
  <2>3. Fresh /\ Ended /\ Known /\ OneOutcome
    BY DEF RequestInit, Fresh, Ended, Known, OneOutcome, Sending
  <2> QED BY <2>1, <2>2, <2>3 DEF IInv
<1>2. IInv /\ [RequestNext]_requestVars => IInv'
  BY TypeStep, LockedStep, FreshStep, EndedStep, KnownStep DEF IInv
<1> QED BY <1>1, <1>2, PTL DEF RequestSpec

\* Every variable keeps its type, and the map only points to live objects
\* (handle_response, remove_request).
THEOREM TypeCorrect == RequestSpec => []RequestTypeOK
<1>1. IInv => RequestTypeOK
  BY DEF IInv
<1> QED BY <1>1, InvAlways, PTL

\* An SKPutRequest has at most one request outstanding (request_pending).
THEOREM OneRequest == RequestSpec => []OneOutstanding
<1>1. IInv => OneOutstanding
  BY DEF IInv, Known, OneOutstanding
<1> QED BY <1>1, InvAlways, PTL

\* A request ends once, by a final response or by its timeout (handle_response,
\* remove_request).
THEOREM OneEnd == RequestSpec => []OneOutcome
<1>1. IInv => OneOutcome
  BY DEF IInv
<1> QED BY <1>1, InvAlways, PTL
=============================================================================
