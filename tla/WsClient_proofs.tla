--------------------------- MODULE WsClient_proofs ---------------------------
(***************************************************************************)
(* Proofs about WsClient for every set of handles, every generation width  *)
(* and every choice of intervals and build options.                        *)
(***************************************************************************)
EXTENDS WsClient, TLAPS

-----------------------------------------------------------------------------
(* Lemmas about the operators that the actions are built from.             *)

\* set_connection_state leaves a state of the enumeration, whatever it is told.
LEMMA SetStateType ==
    \A s \in States, rejected \in BOOLEAN :
        certError \in BOOLEAN /\ SetState(s, rejected)
            => state' \in States /\ certError' \in BOOLEAN
BY DEF SetState, States, Retryable

\* The doubling interval stays between its bounds.
LEMMA IntervalType ==
    ASSUME interval \in MinInterval..MaxInterval, ScheduleReconnect
    PROVE  interval' \in MinInterval..MaxInterval /\ due' \in BOOLEAN
<1>1. /\ interval \in Int /\ MinInterval \in Int /\ MaxInterval \in Int
      /\ 0 < MinInterval /\ MinInterval <= interval /\ interval <= MaxInterval
  BY IntervalAssumption
<1>2. due' \in BOOLEAN
  BY DEF ScheduleReconnect
<1>3. interval' = IF 2 * interval < MaxInterval THEN 2 * interval
                                                ELSE MaxInterval
  BY DEF ScheduleReconnect
<1>4. interval' \in Int /\ MinInterval <= interval' /\ interval' <= MaxInterval
  BY <1>1, <1>3
<1> QED BY <1>1, <1>2, <1>4

\* A new generation is a generation, and never the one before it.
LEMMA GenerationType ==
    ASSUME generation \in 0..(Generations - 1)
    PROVE  /\ NextGeneration \in 0..(Generations - 1)
           /\ NextGeneration # generation
BY GenerationsAssumption DEF NextGeneration

\* A freed client is a client.
LEMMA FreeClientType == FreeClient \in Clients
BY GenerationsAssumption DEF FreeClient, Clients, Phases, HandlerPcs, Events

\* Credentials stay credentials whichever part of them is changed.
LEMMA CredsType ==
    ASSUME NEW c \in Creds, NEW b \in BOOLEAN, NEW a \in Anchors
    PROVE  /\ [c EXCEPT !.token = b] \in Creds
           /\ [c EXCEPT !.href = b] \in Creds
           /\ [c EXCEPT !.ssl = b] \in Creds
           /\ [c EXCEPT !.anchor = a] \in Creds
BY DEF Creds

\* save() writes credentials back as they are.
LEMMA SaveType == \A c \in Creds : Save(c) => cred' \in Creds /\ saved' \in Creds
BY DEF Save

\* The verify callback stashes an anchor, drops the stash or leaves it alone.
LEMMA VerifyType ==
    ASSUME pendingCa \in Anchors, NEW seen \in SUBSET Anchors,
           NEW rejected \in BOOLEAN, Verify(seen, rejected)
    PROVE  pendingCa' \in Anchors
BY DEF Verify, Stashable, Anchors

\* What a handshake may find to pin are anchors, of its own.
LEMMA PinsType == Pins \subseteq Anchors /\ "http" \notin Pins
BY PinsAssumption DEF Anchors

\* A client stays a client whichever part of it is changed.
LEMMA ClientType ==
    ASSUME NEW c \in Clients
    PROVE  /\ \A p \in Phases : [c EXCEPT !.phase = p] \in Clients
           /\ \A q \in Seq(Events) : [c EXCEPT !.queue = q] \in Clients
           /\ \A a \in HandlerPcs : [c EXCEPT !.at = a] \in Clients
           /\ \A b \in BOOLEAN : [c EXCEPT !.stop = b] \in Clients
           /\ \A g \in 0..(Generations - 1) : [c EXCEPT !.gen = g] \in Clients
BY DEF Clients

\* So does one that is freed under a handler.
LEMMA FreedType == \A c \in Clients : Freed(c) \in Clients
<1> SUFFICES ASSUME NEW c \in Clients PROVE Freed(c) \in Clients
  OBVIOUS
<1>1. c.at \in HandlerPcs
  BY DEF Clients
<1> QED BY <1>1, FreeClientType, ClientType DEF Freed

\* A step of the transport keeps the clients clients.
LEMMA TransportType ==
    ASSUME cl \in [Handles -> Clients], NEW h \in Handles,
           NEW phase \in Phases, NEW events \in Seq(Events),
           Transport(h, phase, events)
    PROVE  cl' \in [Handles -> Clients]
<1>1. cl' = [cl EXCEPT ![h] = [[cl[h] EXCEPT !.phase = phase] EXCEPT !.queue = events]]
  BY DEF Transport
<1> QED BY <1>1, ClientType

\* So does a step of the event handler.
LEMMA HandlerGotoType ==
    ASSUME cl \in [Handles -> Clients], NEW h \in Handles, NEW at \in HandlerPcs,
           HandlerGoto(h, at)
    PROVE  cl' \in [Handles -> Clients]
<1>1. cl' = [cl EXCEPT ![h] = [cl[h] EXCEPT !.at = at]]
  BY DEF HandlerGoto
<1> QED BY <1>1, ClientType

-----------------------------------------------------------------------------
(* Type correctness.                                                       *)

\* The device starts with every variable in its type.
LEMMA TypeInit == Init => TypeOK
<1> SUFFICES ASSUME Init PROVE TypeOK
  OBVIOUS
<1>1. cl \in [Handles -> Clients]
  BY FreeClientType DEF Init
<1>2. interval \in MinInterval..MaxInterval /\ generation \in 0..(Generations - 1)
  BY GenerationsAssumption, IntervalAssumption DEF Init
<1>3. cred \in Creds /\ saved \in Creds /\ pendingCa \in Anchors
  BY DEF Init, Anchors
<1>7. sslBuild \in BOOLEAN
  BY BuildAssumption DEF Init
<1>4. el \in [pc : ElPcs, old : Handles \cup {NoHandle}]
  BY DEF Init, ElPcs
<1>5. worker \in [pc : WorkerPcs, h : Handles \cup {NoHandle}]
  BY DEF Init, WorkerPcs
<1>6. web \in Webs
  BY EditsAssumption DEF Init, Creds, Webs
<1> QED BY <1>1, <1>2, <1>3, <1>4, <1>5, <1>6, <1>7 DEF Init, TypeOK, States

\* The event loop holds a handle when detach_teardown() hands it on.
DetachHolds == el.pc = "reap" => el.old # NoHandle

\* The 100 ms tick, connect() and send_delta() keep every type. The handle that
\* detach_teardown() hands on must not be null for that.
LEMMA TypeEventLoop ==
    ASSUME TypeOK, DetachHolds, EventLoop PROVE TypeOK'
<1> USE DEF TypeOK, vars, eventVars, clientVars, credVars, envVars
<1>1. ASSUME NEW ok \in BOOLEAN, TickReap(ok) PROVE TypeOK'
  BY <1>1 DEF TickReap, ReapAsync, ElGoto, ElPcs, ReaperPcs
<1>2. CASE ConnectGuard
  BY <1>2 DEF ConnectGuard, ElGoto, ElPcs
<1>3. CASE BumpGeneration
  BY <1>3, GenerationType DEF BumpGeneration, ElGoto, ElPcs
<1>4. ASSUME NEW ok \in BOOLEAN, DetachReap(ok) PROVE TypeOK'
  BY <1>4 DEF DetachReap, DetachHolds, ReapAsync, ElPcs, ReaperPcs
<1>5. CASE BeginAttempt
  <2>1. interval' \in MinInterval..MaxInterval /\ due' \in BOOLEAN
    BY <1>5, IntervalType DEF BeginAttempt
  <2>2. state' \in States /\ certError' \in BOOLEAN
    BY <1>5, SetStateType DEF BeginAttempt, States
  <2>3. el' \in [pc : ElPcs, old : Handles \cup {NoHandle}]
    BY <1>5 DEF BeginAttempt, ElGoto, ElPcs
  <2>4. authJob' \in BOOLEAN /\ pendingCa' \in Anchors
    BY <1>5 DEF BeginAttempt, ClearPendingTofu, Anchors
  <2> QED BY <1>5, <2>1, <2>2, <2>3, <2>4 DEF BeginAttempt
<1>6. ASSUME NEW ok \in BOOLEAN, SpawnWorker(ok) PROVE TypeOK'
  <2>1. UNCHANGED <<state, certError>> \/ SetState("Disconnected", FALSE)
    BY <1>6 DEF SpawnWorker
  <2>4. state' \in States /\ certError' \in BOOLEAN
    BY <2>1, SetStateType DEF States
  <2>2. el' \in [pc : ElPcs, old : Handles \cup {NoHandle}]
    BY <1>6 DEF SpawnWorker, ElGoto, ElPcs
  <2>3. authJob' \in BOOLEAN
    BY <1>6 DEF SpawnWorker
  <2>5. worker' \in [pc : WorkerPcs, h : Handles \cup {NoHandle}]
    <3>1. worker' = worker \/ worker' = [pc |-> "resolve", h |-> NoHandle]
      BY <1>6 DEF SpawnWorker
    <3> QED BY <3>1 DEF WorkerPcs
  <2> QED BY <1>6, <2>2, <2>3, <2>4, <2>5 DEF SpawnWorker
<1>7. CASE SendGuard
  BY <1>7 DEF SendGuard, ElGoto, ElPcs
<1>8. CASE SendDrop
  BY <1>8, SetStateType DEF SendDrop, ElGoto, ElPcs, States
<1>9. ASSUME NEW aborts \in BOOLEAN, SendTx(aborts) PROVE TypeOK'
  <2>1. UNCHANGED <<state, certError>> \/ SetState("Disconnected", FALSE)
    BY <1>9 DEF SendTx
  <2>4. state' \in States /\ certError' \in BOOLEAN
    BY <2>1, SetStateType DEF States
  <2>2. cl' \in [Handles -> Clients]
    <3>1. CASE aborts
      <4>1. client \in Handles
        BY <1>9, <3>1 DEF SendTx, IsOpen
      <4>2. cl' = [cl EXCEPT ![client] = [cl[client] EXCEPT !.phase = "backoff"]]
        BY <1>9, <3>1, <4>1 DEF SendTx
      <4> QED BY <4>1, <4>2, ClientType DEF Phases
    <3>2. CASE ~aborts
      BY <1>9, <3>2 DEF SendTx
    <3> QED BY <3>1, <3>2
  <2>3. el' \in [pc : ElPcs, old : Handles \cup {NoHandle}]
    BY <1>9 DEF SendTx, ElGoto, ElPcs
  <2> QED BY <1>9, <2>2, <2>3, <2>4 DEF SendTx
<1> QED BY <1>1, <1>2, <1>3, <1>4, <1>5, <1>6, <1>7, <1>8, <1>9 DEF EventLoop

\* So do the legs of run_connect_attempt() and connect_ws().
LEMMA TypeWorker ==
    ASSUME TypeOK, Worker PROVE TypeOK'
<1> USE DEF TypeOK, vars, eventVars, clientVars, credVars, envVars
<1>1. ASSUME NEW found \in BOOLEAN, NEW tls \in BOOLEAN, Resolve(found, tls)
      PROVE  TypeOK'
  <2>1. cred' \in Creds
    BY <1>1, CredsType DEF Resolve
  <2>2. UNCHANGED <<state, certError>> \/ SetState("Disconnected", FALSE)
    BY <1>1 DEF Resolve, Fail
  <2>3. state' \in States /\ certError' \in BOOLEAN
    BY <2>2, SetStateType DEF States
  <2>4. worker' \in [pc : WorkerPcs, h : Handles \cup {NoHandle}]
    BY <1>1 DEF Resolve, Fail, WorkerGoto, WorkerPcs
  <2>5. addr' \in BOOLEAN
    BY <1>1 DEF Resolve
  <2> QED BY <1>1, <2>1, <2>3, <2>4, <2>5 DEF Resolve
<1>2. ASSUME NEW redirected \in BOOLEAN, Probe(redirected) PROVE TypeOK'
  <2>1. cred' \in Creds /\ saved' \in Creds
    <3>1. UNCHANGED <<cred, saved>> \/ Save([cred EXCEPT !.ssl = TRUE])
      BY <1>2 DEF Probe
    <3> QED BY <3>1, CredsType, SaveType
  <2>2. worker' \in [pc : WorkerPcs, h : Handles \cup {NoHandle}]
    BY <1>2 DEF Probe, WorkerGoto, WorkerPcs
  <2> QED BY <1>2, <2>1, <2>2 DEF Probe
<1>3. ASSUME NEW a \in {"href", "404", "other", "rejected"}, Access(a)
      PROVE  TypeOK'
  <2>1. cred' \in Creds /\ saved' \in Creds
    <3>1. \/ UNCHANGED <<cred, saved>>
          \/ Save([cred EXCEPT !.href = TRUE])
          \/ cred' = [cred EXCEPT !.token = FALSE] /\ saved' = saved
      BY <1>3 DEF Access
    <3> QED BY <3>1, CredsType, SaveType
  <2>2. \/ UNCHANGED <<state, certError>>
        \/ \E rejected \in BOOLEAN : SetState("Disconnected", rejected)
    BY <1>3 DEF Access, Fail
  <2>3. state' \in States /\ certError' \in BOOLEAN
    BY <2>2, SetStateType DEF States
  <2>4. worker' \in [pc : WorkerPcs, h : Handles \cup {NoHandle}]
    BY <1>3 DEF Access, Fail, WorkerGoto, WorkerPcs
  <2>5. pendingCa' \in Anchors
    <3>1. {"http"} \subseteq Anchors /\ (a = "rejected") \in BOOLEAN
      BY DEF Anchors
    <3> QED BY <1>3, <3>1, VerifyType DEF Access
  <2> QED BY <1>3, <2>1, <2>3, <2>4, <2>5 DEF Access
<1>4. ASSUME NEW a \in {"approved", "completed", "404 or 500", "other", "rejected"},
             Poll(a)
      PROVE  TypeOK'
  <2>1. cred' \in Creds /\ saved' \in Creds
    <3>1. UNCHANGED <<cred, saved>> \/ Save([cred EXCEPT !.href = FALSE])
      BY <1>4 DEF Poll
    <3> QED BY <3>1, CredsType, SaveType
  <2>2. \/ UNCHANGED <<state, certError>>
        \/ \E rejected \in BOOLEAN : SetState("Disconnected", rejected)
    BY <1>4 DEF Poll, Fail
  <2>3. state' \in States /\ certError' \in BOOLEAN
    BY <2>2, SetStateType DEF States
  <2>4. worker' \in [pc : WorkerPcs, h : Handles \cup {NoHandle}]
    BY <1>4 DEF Poll, Fail, WorkerGoto, WorkerPcs
  <2>5. pendingCa' \in Anchors
    <3>1. {"http"} \subseteq Anchors /\ (a = "rejected") \in BOOLEAN
      BY DEF Anchors
    <3> QED BY <1>4, <3>1, VerifyType DEF Poll
  <2> QED BY <1>4, <2>1, <2>3, <2>4, <2>5 DEF Poll
<1>5. CASE StoreToken
  <2>1. cred' \in Creds /\ saved' \in Creds
    BY <1>5, CredsType, SaveType DEF StoreToken
  <2>2. worker' \in [pc : WorkerPcs, h : Handles \cup {NoHandle}]
    BY <1>5 DEF StoreToken, WorkerGoto, WorkerPcs
  <2> QED BY <1>5, <2>1, <2>2 DEF StoreToken
<1>6. ASSUME NEW a \in {"426", "401", "other"}, TestToken(a) PROVE TypeOK'
  <2>1. cred' \in Creds /\ saved' \in Creds
    <3>1. UNCHANGED <<cred, saved>> \/ Save([cred EXCEPT !.token = FALSE])
      BY <1>6 DEF TestToken
    <3> QED BY <3>1, CredsType, SaveType
  <2>2. UNCHANGED <<state, certError>> \/ SetState("Disconnected", FALSE)
    BY <1>6 DEF TestToken, Fail
  <2>3. state' \in States /\ certError' \in BOOLEAN
    BY <2>2, SetStateType DEF States
  <2>4. worker' \in [pc : WorkerPcs, h : Handles \cup {NoHandle}]
    BY <1>6 DEF TestToken, Fail, WorkerGoto, WorkerPcs
  <2> QED BY <1>6, <2>1, <2>3, <2>4 DEF TestToken
<1>7. ASSUME NEW ok \in BOOLEAN, ConnectWs(ok) PROVE TypeOK'
  <2>1. \/ SetState("Disconnected", FALSE)
        \/ SetState("Connecting", FALSE)
    BY <1>7 DEF ConnectWs, Fail
  <2>2. state' \in States /\ certError' \in BOOLEAN
    BY <2>1, SetStateType DEF States
  <2>3. worker' \in [pc : WorkerPcs, h : Handles \cup {NoHandle}]
    BY <1>7 DEF ConnectWs, Fail, WorkerGoto, WorkerPcs
  <2>4. pendingCa' \in Anchors
    BY <1>7 DEF ConnectWs, ClearPendingTofu, Anchors
  <2>5. /\ client' \in Handles \cup {NoHandle} /\ tearing' \in BOOLEAN
        /\ generation' \in 0..(Generations - 1)
    BY <1>7, GenerationType DEF ConnectWs
  <2>6. CASE UNCHANGED clientVars
    BY <1>7, <2>2, <2>3, <2>4, <2>6 DEF ConnectWs
  <2>7. CASE client # NoHandle /\ ReapAsync(client, ok)
    <3>1. pendingTd' \in Handles \cup {NoHandle}
      BY <2>7 DEF ReapAsync
    <3>2. \/ reapers' = reapers
          \/ reapers' = reapers \cup {[h |-> client, pc |-> "stop"]}
      BY <2>7 DEF ReapAsync
    <3>3. reapers' \subseteq [h : Handles, pc : ReaperPcs]
      BY <2>7, <3>2 DEF ReaperPcs
    <3> QED BY <1>7, <2>2, <2>3, <2>4, <2>5, <3>1, <3>3 DEF ConnectWs
  <2> QED BY <1>7, <2>6, <2>7 DEF ConnectWs
<1>8. ASSUME NEW h \in Handles \cup {NoHandle}, InitClient(h) PROVE TypeOK'
  <2>1. CASE h = NoHandle
    <3>1. state' \in States /\ certError' \in BOOLEAN
      BY <1>8, <2>1, SetStateType DEF InitClient, Fail, States
    <3>2. worker' \in [pc : WorkerPcs, h : Handles \cup {NoHandle}]
      BY <1>8, <2>1 DEF InitClient, Fail, WorkerGoto, WorkerPcs
    <3> QED BY <1>8, <2>1, <3>1, <3>2 DEF InitClient
  <2>2. CASE h # NoHandle
    <3>1. [FreeClient EXCEPT !.phase = "init", !.sent = cred.token] \in Clients
      BY FreeClientType DEF Clients, Phases, Creds
    <3>2. cl' \in [Handles -> Clients]
      BY <1>8, <2>2, <3>1 DEF InitClient
    <3>3. worker' \in [pc : WorkerPcs, h : Handles \cup {NoHandle}]
      BY <1>8, <2>2 DEF InitClient, WorkerPcs
    <3> QED BY <1>8, <2>2, <3>2, <3>3 DEF InitClient
  <2> QED BY <2>1, <2>2
<1>9. CASE StoreClient
  <2>1. cl' \in [Handles -> Clients]
    <3>1. cl' = [cl EXCEPT ![worker.h] = [cl[worker.h] EXCEPT !.gen = generation]]
      BY <1>9 DEF StoreClient
    <3> QED BY <3>1, ClientType
  <2>2. worker' \in [pc : WorkerPcs, h : Handles \cup {NoHandle}]
    BY <1>9 DEF StoreClient, WorkerGoto, WorkerPcs
  <2> QED BY <1>9, <2>1, <2>2 DEF StoreClient
<1>10. ASSUME NEW ok \in BOOLEAN, StartClient(ok) PROVE TypeOK'
  <2>1. cl' \in [Handles -> Clients]
    <3>1. CASE cl' = cl
      BY <3>1
    <3>2. CASE cl' = [cl EXCEPT ![worker.h].phase = "trying"]
      <4>1. cl' = [cl EXCEPT ![worker.h] = [cl[worker.h] EXCEPT !.phase = "trying"]]
        BY <3>2
      <4> QED BY <4>1, ClientType DEF Phases
    <3> QED BY <1>10, <3>1, <3>2 DEF StartClient
  <2>2. worker' \in [pc : WorkerPcs, h : Handles \cup {NoHandle}]
    <3>1. \/ worker' = [pc |-> "done", h |-> NoHandle]
          \/ worker' = [worker EXCEPT !.pc = "destroy"]
      BY <1>10 DEF StartClient, WorkerGoto
    <3> QED BY <3>1 DEF WorkerPcs
  <2>3. client' \in Handles \cup {NoHandle}
    BY <1>10 DEF StartClient
  <2> QED BY <1>10, <2>1, <2>2, <2>3 DEF StartClient
<1>11. CASE DestroyUnstarted
  <2>1. state' \in States /\ certError' \in BOOLEAN
    BY <1>11, SetStateType DEF DestroyUnstarted, States
  <2>2. cl' \in [Handles -> Clients]
    BY <1>11, FreeClientType DEF DestroyUnstarted
  <2>3. worker' \in [pc : WorkerPcs, h : Handles \cup {NoHandle}]
    BY <1>11 DEF DestroyUnstarted, WorkerPcs
  <2> QED BY <1>11, <2>1, <2>2, <2>3 DEF DestroyUnstarted
<1>12. CASE WorkerExit
  BY <1>12 DEF WorkerExit, WorkerGoto, WorkerPcs
<1> QED BY <1>1, <1>2, <1>3, <1>4, <1>5, <1>6, <1>7, <1>8, <1>9, <1>10, <1>11,
           <1>12 DEF Worker

\* So does the transport of a client.
LEMMA TypeTransport ==
    ASSUME TypeOK, NEW h \in Handles, TransportTask(h) PROVE TypeOK'
<1> USE DEF TypeOK, vars, eventVars, clientVars, credVars, envVars
<1>0. /\ <<>> \in Seq(Events)
      /\ \A e \in Events : <<e>> \in Seq(Events)
  OBVIOUS
<1>1. CASE UpgradeOk(h)
  <2>1. cl' \in [Handles -> Clients]
    BY <1>0, <1>1, TransportType DEF UpgradeOk, Phases, Events
  <2>2. pendingCa' \in Anchors
    BY <1>1, PinsType, VerifyType DEF UpgradeOk
  <2> QED BY <1>1, <2>1, <2>2 DEF UpgradeOk
<1>2. CASE UpgradeRefused(h)
  <2>1. /\ <<"disconnected">> \in Seq(Events)
        /\ <<"error401", "disconnected">> \in Seq(Events)
    BY DEF Events
  <2>2. cl' \in [Handles -> Clients]
    BY <1>2, <2>1, TransportType DEF UpgradeRefused, Phases
  <2>3. pendingCa' \in Anchors
    BY <1>2, PinsType, VerifyType DEF UpgradeRefused
  <2> QED BY <1>2, <2>2, <2>3 DEF UpgradeRefused
<1>3. ASSUME NEW rejected \in BOOLEAN, UpgradeError(h, rejected) PROVE TypeOK'
  <2>1. <<"error", "disconnected">> \in Seq(Events)
    BY DEF Events
  <2>2. cl' \in [Handles -> Clients]
    BY <1>3, <2>1, TransportType DEF UpgradeError, Phases
  <2>3. certError' \in BOOLEAN
    BY <1>3 DEF UpgradeError
  <2>4. pendingCa' \in Anchors
    BY <1>3, PinsType, VerifyType DEF UpgradeError
  <2> QED BY <1>3, <2>2, <2>3, <2>4 DEF UpgradeError
<1>4. CASE Reconnect(h)
  <2>1. cl' \in [Handles -> Clients]
    BY <1>0, <1>4, TransportType DEF Reconnect, Phases
  <2>2. pendingCa' \in Anchors
    BY <1>4 DEF Reconnect, Anchors
  <2>3. UNCHANGED <<state, certError, clientVars, authJob, eventVars, cred, saved,
                    addr, worker, envVars>>
    BY <1>4 DEF Reconnect
  <2> HIDE DEF Reconnect
  <2> QED BY <2>1, <2>2, <2>3
<1>5. ASSUME NEW p \in {"backoff", "closing"},
             NEW e \in {<<>>, <<"closed">>, <<"disconnected">>}, Lose(h, p, e)
      PROVE  TypeOK'
  <2>1. e \in Seq(Events)
    BY <1>0 DEF Events
  <2>2. cl' \in [Handles -> Clients]
    BY <1>5, <2>1, TransportType DEF Lose, Phases
  <2> QED BY <1>5, <2>2 DEF Lose
<1>6. CASE TaskEnds(h)
  <2>1. cl' \in [Handles -> Clients]
    BY <1>0, <1>6, TransportType DEF TaskEnds, Phases
  <2> QED BY <1>6, <2>1 DEF TaskEnds
<1> QED BY <1>1, <1>2, <1>3, <1>4, <1>5, <1>6 DEF TransportTask

\* So do on_connected(), on_disconnected() and on_error().
LEMMA TypeHandler ==
    ASSUME TypeOK, NEW h \in Handles, Handler(h) PROVE TypeOK'
<1> USE DEF TypeOK, vars, eventVars, clientVars, credVars, envVars
<1>0. {"idle", "clear", "subscribe"} \subseteq HandlerPcs /\ Events \subseteq HandlerPcs
  BY DEF HandlerPcs
<1>1. CASE Dispatch(h)
  <2>1. cl[h] \in Clients /\ cl[h].queue \in Seq(Events) /\ cl[h].queue # <<>>
    BY <1>1 DEF Dispatch, Clients
  <2>2. Head(cl[h].queue) \in Events /\ Tail(cl[h].queue) \in Seq(Events)
    BY <2>1
  <2>3. PICK at \in HandlerPcs :
          cl' = [cl EXCEPT ![h] = [[cl[h] EXCEPT !.queue = Tail(cl[h].queue)]
                                          EXCEPT !.at = at]]
    BY <1>0, <1>1, <2>2 DEF Dispatch
  <2>4. cl' \in [Handles -> Clients]
    BY <2>1, <2>2, <2>3, ClientType
  <2> QED BY <1>1, <2>4 DEF Dispatch
<1>2. CASE OnDisconnected(h)
  <2>1. cl' \in [Handles -> Clients]
    BY <1>0, <1>2, HandlerGotoType DEF OnDisconnected
  <2>2. state' \in States /\ certError' \in BOOLEAN
    BY <1>2, SetStateType DEF OnDisconnected, States
  <2> QED BY <1>2, <2>1, <2>2 DEF OnDisconnected
<1>3. CASE OnError(h)
  <2>1. cl' \in [Handles -> Clients]
    BY <1>0, <1>3, HandlerGotoType DEF OnError
  <2>2. state' \in States /\ certError' \in BOOLEAN
    BY <1>3, SetStateType DEF OnError, States
  <2> QED BY <1>3, <2>1, <2>2 DEF OnError
<1>4. CASE ClearToken(h)
  <2>1. cl' \in [Handles -> Clients]
    BY <1>0, <1>4, HandlerGotoType DEF ClearToken
  <2>2. cred' \in Creds /\ saved' \in Creds
    BY <1>4, CredsType, SaveType DEF ClearToken
  <2>3. interval' \in MinInterval..MaxInterval
    BY <1>4, IntervalAssumption DEF ClearToken
  <2> QED BY <1>4, <2>1, <2>2, <2>3 DEF ClearToken
<1>5. CASE OnConnected(h)
  <2>1. cl' \in [Handles -> Clients]
    BY <1>0, <1>5, HandlerGotoType DEF OnConnected
  <2>2. cred' \in Creds /\ saved' \in Creds
    <3>1. UNCHANGED <<cred, saved>> \/ Save([cred EXCEPT !.anchor = pendingCa])
      BY <1>5 DEF OnConnected
    <3> QED BY <3>1, CredsType, SaveType
  <2>3. state' \in States /\ certError' \in BOOLEAN
    BY <1>5, SetStateType DEF OnConnected, States
  <2>4. interval' \in MinInterval..MaxInterval
    BY <1>5, IntervalAssumption DEF OnConnected
  <2>5. pendingCa' \in Anchors
    BY <1>5 DEF OnConnected, Anchors
  <2> QED BY <1>5, <2>1, <2>2, <2>3, <2>4, <2>5 DEF OnConnected
<1>6. ASSUME NEW aborts \in BOOLEAN, Subscribe(h, aborts) PROVE TypeOK'
  <2>1. cl' \in [Handles -> Clients]
    <3>1. CASE aborts
      <4>1. client \in Handles
        BY <1>6, <3>1 DEF Subscribe, IsOpen
      <4>2. <<"disconnected">> \in Seq(Events)
        BY DEF Events
      <4> DEFINE lost == [[cl[client] EXCEPT !.phase = "backoff"]
                                      EXCEPT !.queue = <<"disconnected">>]
                 c1 == [cl EXCEPT ![client] = lost]
      <4>3. lost \in Clients
        BY <4>1, <4>2, ClientType DEF Phases
      <4>4. c1 \in [Handles -> Clients]
        BY <4>3
      <4>5. cl' = [c1 EXCEPT ![h] = [c1[h] EXCEPT !.at = "idle"]]
        BY <1>6, <3>1, <4>1 DEF Subscribe
      <4> HIDE DEF c1
      <4> QED BY <1>0, <4>4, <4>5, ClientType
    <3>2. CASE ~aborts
      BY <1>0, <1>6, <3>2, HandlerGotoType DEF Subscribe
    <3> QED BY <3>1, <3>2
  <2> QED BY <1>6, <2>1 DEF Subscribe
<1> QED BY <1>1, <1>2, <1>3, <1>4, <1>5, <1>6 DEF Handler

\* So does teardown_task().
LEMMA TypeReaper ==
    ASSUME TypeOK, NEW r \in reapers, Reaper(r) PROVE TypeOK'
<1> USE DEF TypeOK, vars, eventVars, clientVars, credVars, envVars
<1>1. CASE ReaperStop(r)
  <2>1. cl' \in [Handles -> Clients]
    <3>1. cl' = [cl EXCEPT ![r.h] = [cl[r.h] EXCEPT !.stop = TRUE]]
      BY <1>1 DEF ReaperStop
    <3> QED BY <3>1, ClientType
  <2>2. reapers' \subseteq [h : Handles, pc : ReaperPcs]
    BY <1>1 DEF ReaperStop, ReaperPcs
  <2> QED BY <1>1, <2>1, <2>2 DEF ReaperStop
<1>2. CASE ReaperDestroy(r)
  BY <1>2, FreedType DEF ReaperDestroy, ReaperPcs
<1>3. CASE ReaperExit(r)
  BY <1>3 DEF ReaperExit
<1> QED BY <1>1, <1>2, <1>3 DEF Reaper

\* So do the clock, the network, the server and a restart.
LEMMA TypeEnvironment ==
    ASSUME TypeOK, BecomeDue \/ NetworkChanges \/ TokenRevoked \/ Reboot
    PROVE  TypeOK'
<1> USE DEF TypeOK, vars, eventVars, clientVars, credVars, envVars
<1>1. CASE BecomeDue
  BY <1>1 DEF BecomeDue
<1>2. CASE NetworkChanges
  BY <1>2 DEF NetworkChanges
<1>3. CASE TokenRevoked
  BY <1>3 DEF TokenRevoked
<1>4. CASE Reboot
  <2>1. cl' \in [Handles -> Clients]
    BY <1>4, FreeClientType DEF Reboot
  <2>2. interval' \in MinInterval..MaxInterval /\ generation' \in 0..(Generations - 1)
    BY <1>4, GenerationsAssumption, IntervalAssumption DEF Reboot
  <2>3. el' \in [pc : ElPcs, old : Handles \cup {NoHandle}]
    BY <1>4 DEF Reboot, ElPcs
  <2>4. worker' \in [pc : WorkerPcs, h : Handles \cup {NoHandle}]
    BY <1>4 DEF Reboot, WorkerPcs
  <2>5. state' \in States /\ pendingCa' \in Anchors
    BY <1>4 DEF Reboot, States, Anchors
  <2> QED BY <1>4, <2>1, <2>2, <2>3, <2>4, <2>5 DEF Reboot
<1> QED BY <1>1, <1>2, <1>3, <1>4

\* What the settings page writes are credentials.
LEMMA PageType ==
    ASSUME NEW p \in Pages, NEW ssl \in BOOLEAN, NEW clears \in BOOLEAN
    PROVE  LET edited == [p EXCEPT !.token = @ /\ ~clears]
           IN  /\ edited \in Pages
               /\ [token |-> edited.token, href |-> edited.href,
                   ssl |-> ssl, anchor |-> edited.anchor] \in Creds
<1> DEFINE edited == [p EXCEPT !.token = p.token /\ ~clears]
<1>1. (p.token /\ ~clears) \in BOOLEAN
  OBVIOUS
<1> DEFINE kept == p.token /\ ~clears
<1>2. kept \in BOOLEAN
  BY <1>1
<1> HIDE DEF kept
<1>3. [p EXCEPT !.token = kept] \in Pages
  BY <1>2 DEF Pages
<1>4. edited \in Pages
  BY <1>3 DEF kept
<1> HIDE DEF edited
<1>5. [token |-> edited.token, href |-> edited.href,
       ssl |-> ssl, anchor |-> edited.anchor] \in Creds
  BY <1>4 DEF Pages, Creds
<1> QED BY <1>4, <1>5 DEF edited

\* The requests of the settings page keep every type.
LEMMA TypeBrowser ==
    ASSUME TypeOK, Browser PROVE TypeOK'
<1> USE DEF TypeOK, vars, eventVars, clientVars, credVars, envVars
<1>1. CASE PageLoads
  <2>1. [token |-> cred.token, href |-> cred.href, anchor |-> cred.anchor] \in Pages
    BY DEF Creds, Pages
  <2>2. web' \in Webs
    BY <1>1, <2>1 DEF PageLoads, Webs
  <2> QED BY <1>1, <2>2 DEF PageLoads
<1>2. ASSUME NEW p \in Pages \cup {NoPage}, NEW c \in Creds, WebWrites(p, c)
      PROVE  TypeOK'
  <2>1. web' \in Webs
    <3>1. web.edits + 1 \in 0..MaxEdits
      BY <1>2, EditsAssumption DEF WebWrites, Webs
    <3>2. (web.disturbed \/ Attempting) \in BOOLEAN
      BY DEF Attempting, Webs
    <3> DEFINE d == web.disturbed \/ Attempting
    <3>3. d \in BOOLEAN
      BY <3>2
    <3>4. web' = [page |-> IF web.edits + 1 < MaxEdits THEN p ELSE NoPage,
                  edits |-> web.edits + 1, disturbed |-> d]
      BY <1>2 DEF WebWrites
    <3> HIDE DEF d
    <3> QED BY <3>1, <3>3, <3>4 DEF Webs
  <2>2. cred' \in Creds /\ saved' \in Creds
    BY <1>2, SaveType DEF WebWrites
  <2> QED BY <1>2, <2>1, <2>2 DEF WebWrites
<1>3. ASSUME NEW ssl \in BOOLEAN, NEW clears \in BOOLEAN, PageSaves(ssl, clears)
      PROVE  TypeOK'
  <2>1. web.page \in Pages
    BY <1>3 DEF PageSaves, Webs
  <2> QED BY <1>2, <1>3, <2>1, PageType DEF PageSaves
<1>4. CASE ResetTofu
  <2>1. [cred EXCEPT !.anchor = "none"] \in Creds
    BY CredsType DEF Anchors
  <2>2. web.page \in Pages \cup {NoPage}
    BY DEF Webs
  <2> DEFINE written == [cred EXCEPT !.anchor = "none"]
  <2>3. WebWrites(web.page, written)
    BY <1>4 DEF ResetTofu
  <2> HIDE DEF written
  <2> QED BY <1>2, <2>1, <2>2, <2>3 DEF written
<1> QED BY <1>1, <1>3, <1>4 DEF Browser

\* Every step keeps every type.
LEMMA TypeStep == TypeOK /\ DetachHolds /\ [Next]_vars => TypeOK'
<1> SUFFICES ASSUME TypeOK, DetachHolds, [Next]_vars PROVE TypeOK'
  OBVIOUS
<1>1. CASE UNCHANGED vars
  BY <1>1 DEF TypeOK, vars
<1> QED BY <1>1, TypeEventLoop, TypeWorker, TypeTransport, TypeHandler,
           TypeReaper, TypeEnvironment, TypeBrowser DEF Next

-----------------------------------------------------------------------------
(***************************************************************************)
(* The inductive invariant. OwnedOnce and AtMostOneClient hold because the *)
(* single client of the device is handed from one owner to the next, and   *)
(* because the event loop and the worker exclude each other while they do  *)
(* so: Control says who may run, Exclusive where the client is, Memory     *)
(* that it is nowhere else, Gens which generation its events carry.        *)
(***************************************************************************)
Building == {"store", "start", "destroy"}
Legs == WorkerPcs \ {"none", "done"}

\* authJob covers a worker; the event loop is not in connect() while there is one.
Control ==
    /\ worker.pc # "none" \/ el.pc = "spawn" => authJob
    /\ el.pc \in {"bump", "reap", "begin", "spawn"}
            => worker.pc = "none" /\ client = NoHandle
    /\ el.old # NoHandle <=> el.pc \in {"bump", "reap"}
    /\ worker.h # NoHandle <=> worker.pc \in Building

\* tearing covers a teardown, of which there is one; while it runs there is no
\* other client and nothing makes one.
Exclusive ==
    /\ tearing <=> pendingTd # NoHandle \/ reapers # {}
    /\ \A r, s \in reapers : r = s
    /\ pendingTd # NoHandle => reapers = {}
    /\ tearing => /\ client = NoHandle /\ el.old = NoHandle
                  /\ worker.pc = "none" /\ el.pc # "spawn"
    /\ worker.pc \in Legs
            => client = IF worker.pc = "start" THEN worker.h ELSE NoHandle

Held(h) ==
    \/ h \in {client, el.old, pendingTd, worker.h}
    \/ \E r \in reapers : r.h = h /\ r.pc # "clear"

\* The memory in use is that of the client that one of the tasks holds.
Memory ==
    /\ \A h \in Handles : cl[h].phase # "free" <=> Held(h)
    /\ worker.pc \in Building => cl[worker.h].phase = "init"

\* Only a client that is connected, or was, has events.
Handling ==
    \A h \in Handles :
        \/ cl[h].phase \in {"up", "backoff", "closing"}
        \/ cl[h].at = "idle" /\ cl[h].queue = <<>>

\* The events of the client in client_ carry the generation; those of a client
\* past the bump carry another.
Gens ==
    /\ client # NoHandle => cl[client].gen = generation
    /\ el.pc = "bump" => cl[el.old].gen = generation
    /\ \A h \in Handles :
        \/ el.pc = "reap" /\ el.old = h
        \/ pendingTd = h
        \/ \E r \in reapers : r.h = h /\ r.pc # "clear"
        => cl[h].gen # generation

\* The state of an attempt, until its worker moves it.
Attempt ==
    /\ el.pc = "spawn" => state = "Authorizing"
    /\ worker.pc \in Legs => /\ state \in {"Authorizing", "Connecting"}
                             /\ el.pc \notin {"drop", "tx"}

\* What the legs of an attempt, and a page that leaves them alone, know of the
\* credentials.
Granted ==
    ~web.disturbed =>
        /\ HrefExcludesToken
        /\ worker.pc = "access" => ~cred.token
        /\ worker.pc = "approved" => ~cred.href
        /\ web.page # NoPage => ~(web.page.href /\ web.page.token)

\* An anchor of an HTTP handshake is only in the stash, and gone from there
\* before there is a client.
Anchored ==
    /\ AnchorFromWebSocket
    /\ web.page # NoPage => web.page.anchor # "http"
    /\ pendingCa = "http" => /\ \A h \in Handles : cl[h].phase = "free"
                             /\ worker.pc \notin Building \cup {"init"}

IInv ==
    /\ TypeOK /\ Control /\ Exclusive /\ Memory /\ Handling /\ Gens
    /\ Attempt /\ Granted /\ Anchored

-----------------------------------------------------------------------------
(* What each kind of task leaves alone.                                    *)

Lifecycle == <<client, generation, tearing, pendingTd, reapers, authJob, el, worker>>

\* The transport and its handler never move the lifecycle of a client: client_,
\* the generation and the flags belong to the event loop and the worker.
LEMMA TransportFrame ==
    ASSUME NEW h \in Handles, TransportTask(h) \/ Handler(h)
    PROVE  UNCHANGED Lifecycle
<1> USE DEF Lifecycle, clientVars, eventVars
<1>1. CASE TransportTask(h)
  BY <1>1 DEF TransportTask, UpgradeOk, UpgradeRefused, UpgradeError, Reconnect,
              Lose, TaskEnds
<1>2. CASE Handler(h)
  BY <1>2 DEF Handler, Dispatch, OnDisconnected, OnError, ClearToken, OnConnected,
              Subscribe
<1> QED BY <1>1, <1>2

\* teardown_task() touches the client it frees and teardown_in_progress_ only.
LEMMA ReaperFrame ==
    ASSUME NEW r \in reapers, Reaper(r)
    PROVE  UNCHANGED <<client, generation, pendingTd, authJob, el, worker, state,
                       certError, cred, saved, pendingCa>>
BY DEF Reaper, ReaperStop, ReaperDestroy, ReaperExit, eventVars, credVars

\* The clock, the network and the server touch none of the fields.
LEMMA EnvironmentFrame ==
    ASSUME BecomeDue \/ NetworkChanges \/ TokenRevoked
    PROVE  UNCHANGED Lifecycle /\ UNCHANGED <<state, certError, cred, saved, pendingCa, cl>>
BY DEF BecomeDue, NetworkChanges, TokenRevoked, Lifecycle, clientVars, eventVars,
       credVars

\* The settings page reaches the credentials and nothing else.
LEMMA BrowserFrame ==
    ASSUME Browser
    PROVE  UNCHANGED Lifecycle /\ UNCHANGED <<state, certError, pendingCa, cl>>
BY DEF Browser, PageLoads, PageSaves, ResetTofu, WebWrites, Lifecycle, clientVars,
       eventVars, credVars

-----------------------------------------------------------------------------
(* Control.                                                                *)

\* auth_job_running_ keeps the event loop out of connect() while a worker runs.
LEMMA ControlStep == IInv /\ [Next]_vars => Control'
<1> SUFFICES ASSUME TypeOK, Control, Exclusive, [Next]_vars PROVE Control'
  BY DEF IInv
<1> USE DEF Control, Building, eventVars, clientVars, ElGoto, WorkerGoto, Fail
<1>0. CASE UNCHANGED Lifecycle
  BY <1>0 DEF Lifecycle
<1>1. ASSUME NEW ok \in BOOLEAN, TickReap(ok) PROVE Control'
  BY <1>1 DEF TickReap, TypeOK
<1>2. CASE ConnectGuard
  BY <1>2 DEF ConnectGuard, TypeOK
<1>3. CASE BumpGeneration
  BY <1>3 DEF BumpGeneration, TypeOK
<1>4. ASSUME NEW ok \in BOOLEAN, DetachReap(ok) PROVE Control'
  BY <1>4 DEF DetachReap, TypeOK
<1>5. CASE BeginAttempt
  BY <1>5 DEF BeginAttempt, TypeOK
<1>6. ASSUME NEW ok \in BOOLEAN, SpawnWorker(ok) PROVE Control'
  <2>1. CASE ok
    BY <1>6, <2>1 DEF SpawnWorker, TypeOK
  <2>2. CASE ~ok
    BY <1>6, <2>2 DEF SpawnWorker, TypeOK
  <2> QED BY <2>1, <2>2
<1>7. CASE SendGuard
  BY <1>7 DEF SendGuard, TypeOK
<1>8. CASE SendDrop
  BY <1>8 DEF SendDrop, TypeOK
<1>9. ASSUME NEW aborts \in BOOLEAN, SendTx(aborts) PROVE Control'
  BY <1>9 DEF SendTx, TypeOK
<1>11. ASSUME NEW found \in BOOLEAN, NEW tls \in BOOLEAN, Resolve(found, tls)
       PROVE  Control'
  BY <1>11 DEF Resolve, TypeOK
<1>12. ASSUME NEW redirected \in BOOLEAN, Probe(redirected) PROVE Control'
  BY <1>12 DEF Probe, TypeOK
<1>13. ASSUME NEW a \in {"href", "404", "other", "rejected"}, Access(a)
       PROVE  Control'
  BY <1>13 DEF Access, TypeOK
<1>14. ASSUME NEW a \in {"approved", "completed", "404 or 500", "other", "rejected"},
              Poll(a)
       PROVE  Control'
  BY <1>14 DEF Poll, TypeOK
<1>15. CASE StoreToken
  BY <1>15 DEF StoreToken, TypeOK
<1>16. ASSUME NEW a \in {"426", "401", "other"}, TestToken(a) PROVE Control'
  BY <1>16 DEF TestToken, TypeOK
<1>17. ASSUME NEW ok \in BOOLEAN, ConnectWs(ok) PROVE Control'
  BY <1>17 DEF ConnectWs, TypeOK
<1>18. ASSUME NEW h \in Handles \cup {NoHandle}, InitClient(h) PROVE Control'
  <2>1. CASE h = NoHandle
    BY <1>18, <2>1 DEF InitClient, TypeOK
  <2>2. CASE h # NoHandle
    BY <1>18, <2>2 DEF InitClient, TypeOK
  <2> QED BY <2>1, <2>2
<1>19. CASE StoreClient
  BY <1>19 DEF StoreClient, TypeOK
<1>20. ASSUME NEW ok \in BOOLEAN, StartClient(ok) PROVE Control'
  BY <1>20 DEF StartClient, TypeOK
<1>21. CASE DestroyUnstarted
  BY <1>21 DEF DestroyUnstarted, TypeOK
<1>22. CASE WorkerExit
  BY <1>22 DEF WorkerExit, TypeOK
<1>23. ASSUME NEW r \in reapers, Reaper(r) PROVE Control'
  BY <1>23, ReaperFrame
<1>24. CASE Reboot
  BY <1>24 DEF Reboot
<1>25. UNCHANGED vars => UNCHANGED Lifecycle
  BY DEF vars, Lifecycle
<1> QED
  BY <1>0, <1>1, <1>2, <1>3, <1>4, <1>5, <1>6, <1>7, <1>8, <1>9, <1>11, <1>12,
     <1>13, <1>14, <1>15, <1>16, <1>17, <1>18, <1>19, <1>20, <1>21, <1>22, <1>23,
     <1>24, <1>25, TransportFrame, EnvironmentFrame, BrowserFrame DEF Next, EventLoop, Worker

-----------------------------------------------------------------------------
(* Exclusive.                                                              *)

\* teardown_in_progress_ covers every teardown and defers bring-up.
LEMMA ExclusiveStep == IInv /\ [Next]_vars => Exclusive'
<1> SUFFICES ASSUME TypeOK, Control, Exclusive, [Next]_vars PROVE Exclusive'
  BY DEF IInv
<1> USE DEF Exclusive, Control, Building, Legs, eventVars, clientVars, ElGoto,
            WorkerGoto, Fail
<1>0. CASE UNCHANGED Lifecycle
  BY <1>0 DEF Lifecycle
<1>1. ASSUME NEW ok \in BOOLEAN, TickReap(ok) PROVE Exclusive'
  BY <1>1 DEF TickReap, ReapAsync, TypeOK
<1>2. CASE ConnectGuard
  BY <1>2 DEF ConnectGuard, TypeOK
<1>3. CASE BumpGeneration
  BY <1>3 DEF BumpGeneration, TypeOK
<1>4. ASSUME NEW ok \in BOOLEAN, DetachReap(ok) PROVE Exclusive'
  BY <1>4 DEF DetachReap, ReapAsync, TypeOK
<1>5. CASE BeginAttempt
  BY <1>5 DEF BeginAttempt, BringUpDeferred, TypeOK
<1>6. ASSUME NEW ok \in BOOLEAN, SpawnWorker(ok) PROVE Exclusive'
  <2>1. CASE ok
    BY <1>6, <2>1 DEF SpawnWorker, TypeOK
  <2>2. CASE ~ok
    BY <1>6, <2>2 DEF SpawnWorker, TypeOK
  <2> QED BY <2>1, <2>2
<1>7. CASE SendGuard
  BY <1>7 DEF SendGuard, TypeOK
<1>8. CASE SendDrop
  BY <1>8 DEF SendDrop, TypeOK
<1>9. ASSUME NEW aborts \in BOOLEAN, SendTx(aborts) PROVE Exclusive'
  BY <1>9 DEF SendTx, TypeOK
<1>11. ASSUME NEW found \in BOOLEAN, NEW tls \in BOOLEAN, Resolve(found, tls)
       PROVE  Exclusive'
  BY <1>11 DEF Resolve, TypeOK
<1>12. ASSUME NEW redirected \in BOOLEAN, Probe(redirected) PROVE Exclusive'
  BY <1>12 DEF Probe, TypeOK
<1>13. ASSUME NEW a \in {"href", "404", "other", "rejected"}, Access(a)
       PROVE  Exclusive'
  BY <1>13 DEF Access, TypeOK
<1>14. ASSUME NEW a \in {"approved", "completed", "404 or 500", "other", "rejected"},
              Poll(a)
       PROVE  Exclusive'
  BY <1>14 DEF Poll, TypeOK
<1>15. CASE StoreToken
  BY <1>15 DEF StoreToken, TypeOK
<1>16. ASSUME NEW a \in {"426", "401", "other"}, TestToken(a) PROVE Exclusive'
  BY <1>16 DEF TestToken, TypeOK
<1>17. ASSUME NEW ok \in BOOLEAN, ConnectWs(ok) PROVE Exclusive'
  BY <1>17 DEF ConnectWs, TypeOK, WorkerPcs
<1>18. ASSUME NEW h \in Handles \cup {NoHandle}, InitClient(h) PROVE Exclusive'
  <2>1. CASE h = NoHandle
    BY <1>18, <2>1 DEF InitClient, TypeOK
  <2>2. CASE h # NoHandle
    BY <1>18, <2>2 DEF InitClient, TypeOK
  <2> QED BY <2>1, <2>2
<1>19. CASE StoreClient
  BY <1>19 DEF StoreClient, TypeOK
<1>20. ASSUME NEW ok \in BOOLEAN, StartClient(ok) PROVE Exclusive'
  BY <1>20 DEF StartClient, TypeOK
<1>21. CASE DestroyUnstarted
  BY <1>21 DEF DestroyUnstarted, TypeOK
<1>22. CASE WorkerExit
  BY <1>22 DEF WorkerExit, TypeOK
<1>23. ASSUME NEW r \in reapers, ReaperStop(r) PROVE Exclusive'
  BY <1>23 DEF ReaperStop, TypeOK
<1>24. ASSUME NEW r \in reapers, ReaperDestroy(r) PROVE Exclusive'
  BY <1>24 DEF ReaperDestroy, TypeOK
<1>25. ASSUME NEW r \in reapers, ReaperExit(r) PROVE Exclusive'
  BY <1>25 DEF ReaperExit, TypeOK
<1>26. CASE Reboot
  BY <1>26 DEF Reboot
<1>27. UNCHANGED vars => UNCHANGED Lifecycle
  BY DEF vars, Lifecycle
<1> QED
  BY <1>0, <1>1, <1>2, <1>3, <1>4, <1>5, <1>6, <1>7, <1>8, <1>9, <1>11, <1>12,
     <1>13, <1>14, <1>15, <1>16, <1>17, <1>18, <1>19, <1>20, <1>21, <1>22, <1>23,
     <1>24, <1>25, <1>26, <1>27, TransportFrame, EnvironmentFrame, BrowserFrame
  DEF Next, EventLoop, Worker, Reaper

-----------------------------------------------------------------------------
(* Memory.                                                                 *)

\* What the steps of a transport task and of a handler do to the clients: at
\* most client h and, through client_, one other that is open, which stay in
\* memory.
LEMMA ClientsKept ==
    ASSUME TypeOK, NEW h \in Handles, TransportTask(h) \/ Handler(h)
    PROVE  \A g \in Handles :
             /\ cl'[g].phase = "free" <=> cl[g].phase = "free"
             /\ cl'[g].phase = "init" <=> cl[g].phase = "init"
             /\ cl'[g].gen = cl[g].gen
<1> USE DEF TypeOK, Clients
<1>1. ASSUME NEW g \in Handles, NEW phase \in Phases, NEW events,
             Transport(h, phase, events)
      PROVE  /\ cl'[g].gen = cl[g].gen
             /\ cl'[g].phase = IF g = h THEN phase ELSE cl[g].phase
  BY <1>1 DEF Transport
<1>2. CASE TransportTask(h)
  <2>1. CASE UpgradeOk(h)
    BY <1>1, <2>1 DEF UpgradeOk, Phases
  <2>2. CASE UpgradeRefused(h)
    BY <1>1, <2>2 DEF UpgradeRefused, Phases
  <2>3. ASSUME NEW rejected \in BOOLEAN, UpgradeError(h, rejected)
        PROVE  \A g \in Handles :
                 /\ cl'[g].phase = "free" <=> cl[g].phase = "free"
                 /\ cl'[g].phase = "init" <=> cl[g].phase = "init"
                 /\ cl'[g].gen = cl[g].gen
    BY <1>1, <2>3 DEF UpgradeError, Phases
  <2>4. CASE Reconnect(h)
    BY <1>1, <2>4 DEF Reconnect, Phases
  <2>5. ASSUME NEW p \in {"backoff", "closing"},
               NEW e \in {<<>>, <<"closed">>, <<"disconnected">>}, Lose(h, p, e)
        PROVE  \A g \in Handles :
                 /\ cl'[g].phase = "free" <=> cl[g].phase = "free"
                 /\ cl'[g].phase = "init" <=> cl[g].phase = "init"
                 /\ cl'[g].gen = cl[g].gen
    BY <1>1, <2>5 DEF Lose, Phases
  <2>6. CASE TaskEnds(h)
    BY <1>1, <2>6 DEF TaskEnds, Phases
  <2> QED BY <1>2, <2>1, <2>2, <2>3, <2>4, <2>5, <2>6 DEF TransportTask
<1>3. CASE Handler(h)
  <2>1. CASE Dispatch(h)
    BY <2>1 DEF Dispatch
  <2>2. ASSUME NEW at, HandlerGoto(h, at)
        PROVE  \A g \in Handles :
                 cl'[g].phase = cl[g].phase /\ cl'[g].gen = cl[g].gen
    BY <2>2 DEF HandlerGoto
  <2>3. CASE OnDisconnected(h)
    BY <2>2, <2>3 DEF OnDisconnected
  <2>4. CASE OnError(h)
    BY <2>2, <2>4 DEF OnError
  <2>5. CASE ClearToken(h)
    BY <2>2, <2>5 DEF ClearToken
  <2>6. CASE OnConnected(h)
    BY <2>2, <2>6 DEF OnConnected
  <2>7. ASSUME NEW aborts \in BOOLEAN, Subscribe(h, aborts)
        PROVE  \A g \in Handles :
                 /\ cl'[g].phase = "free" <=> cl[g].phase = "free"
                 /\ cl'[g].phase = "init" <=> cl[g].phase = "init"
                 /\ cl'[g].gen = cl[g].gen
    <3>1. CASE aborts
      <4>1. client \in Handles /\ cl[client].phase = "up"
        BY <2>7, <3>1 DEF Subscribe, IsOpen
      <4> DEFINE lost == [cl EXCEPT ![client].phase = "backoff",
                                    ![client].queue = <<"disconnected">>]
      <4>2. cl' = [lost EXCEPT ![h].at = "idle"]
        BY <2>7, <3>1 DEF Subscribe
      <4>3. /\ DOMAIN lost = Handles
            /\ \A g \in Handles :
                 /\ lost[g].phase = IF g = client THEN "backoff" ELSE cl[g].phase
                 /\ lost[g].gen = cl[g].gen
                 /\ DOMAIN lost[g] = DOMAIN cl[g]
        BY <4>1
      <4>4. \A g \in Handles : DOMAIN cl[g] = {"phase", "gen", "queue", "at", "stop", "sent"}
        OBVIOUS
      <4> HIDE DEF lost
      <4>5. \A g \in Handles : cl'[g].phase = lost[g].phase /\ cl'[g].gen = lost[g].gen
        BY <4>2, <4>3, <4>4
      <4> QED BY <4>1, <4>3, <4>5
    <3>2. CASE ~aborts
      BY <2>2, <2>7, <3>2 DEF Subscribe
    <3> QED BY <3>1, <3>2
  <2> QED BY <1>3, <2>1, <2>3, <2>4, <2>5, <2>6, <2>7 DEF Handler
<1> QED BY <1>2, <1>3

\* A handle given to reap_async is held by a teardown task or by
\* pending_teardown_, and no other handle is.
LEMMA ReapHolds ==
    ASSUME TypeOK, reapers = {}, NEW old \in Handles, NEW ok \in BOOLEAN,
           ReapAsync(old, ok)
    PROVE  \A h \in Handles :
             (pendingTd' = h \/ \E r \in reapers' : r.h = h /\ r.pc # "clear") <=> h = old
<1>1. CASE ok
  <2>1. reapers' = {[h |-> old, pc |-> "stop"]} /\ pendingTd' = NoHandle
    BY <1>1 DEF ReapAsync
  <2> QED BY <2>1, HandlesAssumption
<1>2. CASE ~ok
  BY <1>2 DEF ReapAsync
<1> QED BY <1>1, <1>2

\* No step frees a client that another party holds, or forgets one in memory.
LEMMA MemoryStep == IInv /\ [Next]_vars => Memory'
<1> SUFFICES ASSUME TypeOK, Control, Exclusive, Memory, [Next]_vars PROVE Memory'
  BY DEF IInv
<1> USE HandlesAssumption DEF Memory, Held, Building, eventVars, clientVars, ElGoto,
            WorkerGoto, Fail
<1>0. ASSUME UNCHANGED Lifecycle, UNCHANGED cl PROVE Memory'
  BY <1>0 DEF Lifecycle
<1>1. ASSUME NEW ok \in BOOLEAN, TickReap(ok) PROVE Memory'
  <2>1. CASE pendingTd = NoHandle
    BY <1>1, <2>1 DEF TickReap, TypeOK
  <2>2. CASE pendingTd # NoHandle
    <3>1. reapers = {} /\ pendingTd \in Handles /\ ReapAsync(pendingTd, ok)
      BY <1>1, <2>2 DEF TickReap, Exclusive, TypeOK
    <3>2. \A h \in Handles :
            (pendingTd' = h \/ \E r \in reapers' : r.h = h /\ r.pc # "clear")
              <=> h = pendingTd
      BY <3>1, ReapHolds
    <3>3. UNCHANGED <<client, worker, cl>> /\ el'.old = el.old
      BY <1>1 DEF TickReap, TypeOK
    <3> QED BY <3>1, <3>2, <3>3
  <2> QED BY <2>1, <2>2
<1>2. CASE ConnectGuard
  BY <1>2 DEF ConnectGuard, Control, TypeOK
<1>3. CASE BumpGeneration
  BY <1>3 DEF BumpGeneration, TypeOK
<1>4. ASSUME NEW ok \in BOOLEAN, DetachReap(ok) PROVE Memory'
  <2>1. reapers = {} /\ el.old \in Handles /\ pendingTd = NoHandle
    BY <1>4 DEF DetachReap, Control, Exclusive, TypeOK
  <2>2. \A h \in Handles :
          (pendingTd' = h \/ \E r \in reapers' : r.h = h /\ r.pc # "clear")
            <=> h = el.old
    BY <1>4, <2>1, ReapHolds DEF DetachReap
  <2>3. UNCHANGED <<client, worker, cl>> /\ el'.old = NoHandle
    BY <1>4 DEF DetachReap
  <2> QED BY <2>1, <2>2, <2>3
<1>5. CASE BeginAttempt
  BY <1>5 DEF BeginAttempt, TypeOK
<1>6. ASSUME NEW ok \in BOOLEAN, SpawnWorker(ok) PROVE Memory'
  <2>1. CASE ok
    BY <1>6, <2>1 DEF SpawnWorker, Control, TypeOK
  <2>2. CASE ~ok
    BY <1>6, <2>2 DEF SpawnWorker, TypeOK
  <2> QED BY <2>1, <2>2
<1>7. CASE SendGuard
  BY <1>7 DEF SendGuard, TypeOK
<1>8. CASE SendDrop
  BY <1>8 DEF SendDrop, TypeOK
<1>9. ASSUME NEW aborts \in BOOLEAN, SendTx(aborts) PROVE Memory'
  <2>1. \A h \in Handles :
          /\ cl'[h].phase = "free" <=> cl[h].phase = "free"
          /\ cl'[h].phase = "init" <=> cl[h].phase = "init"
    <3>1. CASE aborts
      <4>1. client \in Handles /\ cl[client].phase = "up"
        BY <1>9, <3>1 DEF SendTx, IsOpen, TypeOK
      <4>2. cl' = [cl EXCEPT ![client].phase = "backoff"]
        BY <1>9, <3>1 DEF SendTx
      <4> QED BY <4>1, <4>2 DEF TypeOK, Clients
    <3>2. CASE ~aborts
      BY <1>9, <3>2 DEF SendTx
    <3> QED BY <3>1, <3>2
  <2> QED BY <1>9, <2>1 DEF SendTx, Control, TypeOK
<1>11. ASSUME NEW found \in BOOLEAN, NEW tls \in BOOLEAN, Resolve(found, tls)
       PROVE  Memory'
  BY <1>11 DEF Resolve, TypeOK
<1>12. ASSUME NEW redirected \in BOOLEAN, Probe(redirected) PROVE Memory'
  BY <1>12 DEF Probe, TypeOK
<1>13. ASSUME NEW a \in {"href", "404", "other", "rejected"}, Access(a)
       PROVE  Memory'
  <2>1. UNCHANGED <<cl, client, pendingTd, reapers, el>>
    BY <1>13 DEF Access
  <2>2. worker'.h = worker.h /\ worker'.pc \notin Building
    BY <1>13 DEF Access, TypeOK
  <2> QED BY <2>1, <2>2
<1>14. ASSUME NEW a \in {"approved", "completed", "404 or 500", "other", "rejected"},
              Poll(a)
       PROVE  Memory'
  <2>1. UNCHANGED <<cl, client, pendingTd, reapers, el>>
    BY <1>14 DEF Poll
  <2>2. worker'.h = worker.h /\ worker'.pc \notin Building
    BY <1>14 DEF Poll, TypeOK
  <2> QED BY <2>1, <2>2
<1>15. CASE StoreToken
  BY <1>15 DEF StoreToken, TypeOK
<1>16. ASSUME NEW a \in {"426", "401", "other"}, TestToken(a) PROVE Memory'
  BY <1>16 DEF TestToken, TypeOK
<1>17. ASSUME NEW ok \in BOOLEAN, ConnectWs(ok) PROVE Memory'
  BY <1>17 DEF ConnectWs, Exclusive, Legs, WorkerPcs, TypeOK
<1>18. ASSUME NEW h \in Handles \cup {NoHandle}, InitClient(h) PROVE Memory'
  <2>1. CASE h = NoHandle
    BY <1>18, <2>1 DEF InitClient, TypeOK
  <2>2. CASE h # NoHandle
    <3>1. cl' = [cl EXCEPT ![h] = [FreeClient EXCEPT !.phase = "init",
                                                     !.sent = cred.token]]
      BY <1>18, <2>2 DEF InitClient
    <3>2. [FreeClient EXCEPT !.phase = "init", !.sent = cred.token].phase = "init"
      BY DEF FreeClient
    <3>3. \A g \in Handles : cl'[g].phase = IF g = h THEN "init" ELSE cl[g].phase
      BY <3>1, <3>2 DEF TypeOK
    <3>4. worker' = [pc |-> "store", h |-> h] /\ worker.h = NoHandle
      BY <1>18, <2>2 DEF InitClient, Control
    <3> QED BY <1>18, <2>2, <3>3, <3>4 DEF InitClient
  <2> QED BY <2>1, <2>2
<1>19. CASE StoreClient
  BY <1>19 DEF StoreClient, Control, Exclusive, Legs, WorkerPcs, TypeOK, Clients
<1>20. ASSUME NEW ok \in BOOLEAN, StartClient(ok) PROVE Memory'
  BY <1>20 DEF StartClient, Control, Exclusive, Legs, WorkerPcs, TypeOK, Clients
<1>21. CASE DestroyUnstarted
  BY <1>21 DEF DestroyUnstarted, FreeClient, Control, Exclusive, Legs, WorkerPcs, TypeOK
<1>22. CASE WorkerExit
  BY <1>22 DEF WorkerExit, Control, TypeOK
<1>23. ASSUME NEW r \in reapers, ReaperStop(r) PROVE Memory'
  <2>1. reapers = {r} /\ reapers' = {[r EXCEPT !.pc = "join"]} /\ r.pc = "stop"
    BY <1>23 DEF ReaperStop, Exclusive
  <2>2. r \in [h : Handles, pc : ReaperPcs]
    BY DEF TypeOK
  <2>3. \A h \in Handles :
          (\E s \in reapers' : s.h = h /\ s.pc # "clear")
            <=> (\E s \in reapers : s.h = h /\ s.pc # "clear")
    BY <2>1, <2>2
  <2>4. \A h \in Handles : cl'[h].phase = cl[h].phase
    BY <1>23 DEF ReaperStop, TypeOK, Clients
  <2> QED BY <1>23, <2>3, <2>4 DEF ReaperStop, Control, TypeOK
<1>24. ASSUME NEW r \in reapers, ReaperDestroy(r) PROVE Memory'
  BY <1>24 DEF ReaperDestroy, Freed, FreeClient, Exclusive, Control, TypeOK
<1>25. ASSUME NEW r \in reapers, ReaperExit(r) PROVE Memory'
  BY <1>25 DEF ReaperExit, Exclusive, TypeOK
<1>26. CASE Reboot
  BY <1>26 DEF Reboot, FreeClient
<1>27. ASSUME NEW h \in Handles, TransportTask(h) \/ Handler(h) PROVE Memory'
  BY <1>27, ClientsKept, TransportFrame DEF Lifecycle, Control, TypeOK
<1>28. UNCHANGED vars => UNCHANGED Lifecycle /\ UNCHANGED cl
  BY DEF vars, Lifecycle
<1> QED
  BY <1>0, <1>1, <1>2, <1>3, <1>4, <1>5, <1>6, <1>7, <1>8, <1>9, <1>11, <1>12,
     <1>13, <1>14, <1>15, <1>16, <1>17, <1>18, <1>19, <1>20, <1>21, <1>22, <1>23,
     <1>24, <1>25, <1>26, <1>27, <1>28, EnvironmentFrame, BrowserFrame
  DEF Next, EventLoop, Worker, Reaper

-----------------------------------------------------------------------------
(* Handling and Gens.                                                      *)

\* The steps that change a client.
LEMMA ClientSteps ==
    ASSUME [Next]_vars
    PROVE  \/ UNCHANGED cl
           \/ \E aborts \in BOOLEAN : SendTx(aborts)
           \/ \E h \in Handles \cup {NoHandle} : InitClient(h)
           \/ StoreClient
           \/ \E ok \in BOOLEAN : StartClient(ok)
           \/ DestroyUnstarted
           \/ \E h \in Handles : TransportTask(h) \/ Handler(h)
           \/ \E r \in reapers : ReaperStop(r) \/ ReaperDestroy(r)
           \/ Reboot
<1>1. CASE EventLoop
  BY <1>1 DEF EventLoop, TickReap, ConnectGuard, BumpGeneration, DetachReap,
              BeginAttempt, SpawnWorker, SendGuard, SendDrop
<1>2. CASE Worker
  BY <1>2 DEF Worker, Resolve, Probe, Access, Poll, StoreToken, TestToken,
              ConnectWs, WorkerExit
<1>3. ASSUME NEW r \in reapers, ReaperExit(r) PROVE UNCHANGED cl
  BY <1>3 DEF ReaperExit
<1>4. UNCHANGED vars => UNCHANGED cl
  BY DEF vars
<1> QED BY <1>1, <1>2, <1>3, <1>4, EnvironmentFrame, BrowserFrame DEF Next, Reaper

\* A client gets an event to handle only from an open or a lost connection.
LEMMA HandlingStep == IInv /\ [Next]_vars => Handling'
<1> SUFFICES ASSUME TypeOK, Control, Memory, Handling, [Next]_vars PROVE Handling'
  BY DEF IInv
<1> DEFINE Busy == {"up", "backoff", "closing"}
<1> USE DEF Handling, Clients
<1>0. CASE UNCHANGED cl
  BY <1>0
<1>1. ASSUME NEW aborts \in BOOLEAN, SendTx(aborts) PROVE Handling'
  <2>1. CASE aborts
    <3>1. client \in Handles /\ cl' = [cl EXCEPT ![client].phase = "backoff"]
      BY <1>1, <2>1 DEF SendTx, IsOpen, TypeOK
    <3> QED BY <3>1 DEF TypeOK
  <2>2. CASE ~aborts
    BY <1>0, <1>1, <2>2 DEF SendTx
  <2> QED BY <2>1, <2>2
<1>2. ASSUME NEW h \in Handles \cup {NoHandle}, InitClient(h) PROVE Handling'
  <2>1. CASE h = NoHandle
    BY <1>0, <1>2, <2>1 DEF InitClient
  <2>2. CASE h # NoHandle
    <3>1. cl' = [cl EXCEPT ![h] = [FreeClient EXCEPT !.phase = "init",
                                                     !.sent = cred.token]]
      BY <1>2, <2>2 DEF InitClient
    <3>2. cl'[h].at = "idle" /\ cl'[h].queue = <<>>
      BY <3>1, <2>2 DEF FreeClient, TypeOK
    <3>3. \A g \in Handles : g # h => cl'[g] = cl[g]
      BY <3>1, <2>2 DEF TypeOK
    <3> QED BY <3>2, <3>3
  <2> QED BY <2>1, <2>2
<1>3. CASE StoreClient
  <2>1. \A g \in Handles : /\ cl'[g].phase = cl[g].phase
                             /\ cl'[g].at = cl[g].at
                             /\ cl'[g].queue = cl[g].queue
    BY <1>3 DEF StoreClient, TypeOK
  <2> QED BY <2>1
<1>4. ASSUME NEW ok \in BOOLEAN, StartClient(ok) PROVE Handling'
  <2>1. worker.h \in Handles /\ cl[worker.h].phase = "init"
    BY <1>4 DEF StartClient, Building, Control, Memory, TypeOK
  <2>2. CASE ok
    <3>1. cl' = [cl EXCEPT ![worker.h].phase = "trying"]
      BY <1>4, <2>2 DEF StartClient
    <3> QED BY <2>1, <3>1 DEF TypeOK
  <2>3. CASE ~ok
    BY <1>0, <1>4, <2>3 DEF StartClient
  <2> QED BY <2>2, <2>3
<1>5. CASE DestroyUnstarted
  BY <1>5 DEF DestroyUnstarted, FreeClient, TypeOK
<1>6. ASSUME NEW h \in Handles, NEW phase \in Phases, NEW events \in Seq(Events),
             Transport(h, phase, events), phase \in Busy \/ events = <<>>
      PROVE  Handling'
  BY <1>6 DEF Transport, Quiet, TypeOK
<1>7. ASSUME NEW h \in Handles, TransportTask(h) PROVE Handling'
  <2>1. /\ <<>> \in Seq(Events)
        /\ \A e \in Events : <<e>> \in Seq(Events)
        /\ \A e, f \in Events : <<e, f>> \in Seq(Events)
    OBVIOUS
  <2>2. {"connected", "disconnected", "closed", "error", "error401"} = Events
    BY DEF Events
  <2>3. {"trying", "ended"} \cup Busy \subseteq Phases
    BY DEF Phases
  <2>4. CASE UpgradeOk(h)
    BY <1>6, <2>1, <2>2, <2>3, <2>4 DEF UpgradeOk
  <2>5. CASE UpgradeRefused(h)
    BY <1>6, <2>1, <2>2, <2>3, <2>5 DEF UpgradeRefused
  <2>6. ASSUME NEW rejected \in BOOLEAN, UpgradeError(h, rejected) PROVE Handling'
    BY <1>6, <2>1, <2>2, <2>3, <2>6 DEF UpgradeError
  <2>7. CASE Reconnect(h)
    BY <1>6, <2>1, <2>3, <2>7 DEF Reconnect
  <2>8. ASSUME NEW p \in {"backoff", "closing"},
               NEW e \in {<<>>, <<"closed">>, <<"disconnected">>}, Lose(h, p, e)
        PROVE  Handling'
    BY <1>6, <2>1, <2>2, <2>3, <2>8 DEF Lose
  <2>9. CASE TaskEnds(h)
    BY <1>6, <2>1, <2>3, <2>9 DEF TaskEnds
  <2> QED BY <1>7, <2>4, <2>5, <2>6, <2>7, <2>8, <2>9 DEF TransportTask
<1>8. ASSUME NEW h \in Handles, Handler(h) PROVE Handling'
  <2>1. ASSUME NEW at, HandlerGoto(h, at), cl[h].at # "idle" PROVE Handling'
    BY <2>1 DEF HandlerGoto, TypeOK
  <2>2. CASE Dispatch(h)
    BY <2>2 DEF Dispatch, TypeOK
  <2>3. CASE OnDisconnected(h)
    BY <2>1, <2>3 DEF OnDisconnected
  <2>4. CASE OnError(h)
    BY <2>1, <2>4 DEF OnError
  <2>5. CASE ClearToken(h)
    BY <2>1, <2>5 DEF ClearToken
  <2>6. CASE OnConnected(h)
    BY <2>1, <2>6 DEF OnConnected
  <2>7. ASSUME NEW aborts \in BOOLEAN, Subscribe(h, aborts) PROVE Handling'
    <3>1. CASE aborts
      <4>1. client \in Handles /\ cl[h].phase \in Busy
        BY <2>7, <3>1 DEF Subscribe, IsOpen, TypeOK
      <4> DEFINE lost == [cl EXCEPT ![client].phase = "backoff",
                                    ![client].queue = <<"disconnected">>]
      <4>2. cl' = [lost EXCEPT ![h].at = "idle"]
        BY <2>7, <3>1 DEF Subscribe
      <4>3. /\ DOMAIN lost = Handles
            /\ \A g \in Handles :
                 /\ lost[g].phase = IF g = client THEN "backoff" ELSE cl[g].phase
                 /\ lost[g].at = cl[g].at
                 /\ g # client => lost[g].queue = cl[g].queue
                 /\ DOMAIN lost[g] = {"phase", "gen", "queue", "at", "stop", "sent"}
        BY <4>1 DEF TypeOK
      <4> HIDE DEF lost
      <4>4. \A g \in Handles :
              /\ cl'[g].phase = lost[g].phase
              /\ g # h => cl'[g].at = lost[g].at /\ cl'[g].queue = lost[g].queue
        BY <4>2, <4>3
      <4> QED BY <4>1, <4>3, <4>4
    <3>2. CASE ~aborts
      BY <2>1, <2>7, <3>2 DEF Subscribe
    <3> QED BY <3>1, <3>2
  <2> QED BY <1>8, <2>2, <2>3, <2>4, <2>5, <2>6, <2>7 DEF Handler
<1>9. ASSUME NEW r \in reapers, ReaperStop(r) PROVE Handling'
  BY <1>9 DEF ReaperStop, TypeOK
<1>10. ASSUME NEW r \in reapers, ReaperDestroy(r) PROVE Handling'
  BY <1>10 DEF ReaperDestroy, Joined, Freed, FreeClient, TypeOK
<1>11. CASE Reboot
  BY <1>11 DEF Reboot, FreeClient
<1> QED BY <1>0, <1>1, <1>2, <1>3, <1>4, <1>5, <1>7, <1>8, <1>9, <1>10, <1>11,
           ClientSteps

\* detach_teardown() moves the generation away from that of the client it hands on.
LEMMA GensStep == IInv /\ [Next]_vars => Gens'
<1> SUFFICES ASSUME TypeOK, Control, Exclusive, Memory, Gens, [Next]_vars PROVE Gens'
  BY DEF IInv
<1> USE HandlesAssumption DEF Gens, eventVars, clientVars, ElGoto, WorkerGoto, Fail
<1>0. ASSUME UNCHANGED <<client, generation, pendingTd, reapers, el>>,
             \A h \in Handles : cl'[h].gen = cl[h].gen
      PROVE  Gens'
  BY <1>0 DEF Control, TypeOK
<1>1. ASSUME NEW ok \in BOOLEAN, TickReap(ok) PROVE Gens'
  <2>1. CASE pendingTd = NoHandle
    BY <1>1, <2>1 DEF TickReap, TypeOK
  <2>2. CASE pendingTd # NoHandle
    <3>1. reapers = {} /\ pendingTd \in Handles /\ ReapAsync(pendingTd, ok)
      BY <1>1, <2>2 DEF TickReap, Exclusive, TypeOK
    <3>2. \A h \in Handles :
            (pendingTd' = h \/ \E r \in reapers' : r.h = h /\ r.pc # "clear")
              <=> h = pendingTd
      BY <3>1, ReapHolds
    <3>3. UNCHANGED <<client, generation, worker, cl>> /\ el'.pc = "conn"
      BY <1>1 DEF TickReap, TypeOK
    <3> QED BY <3>1, <3>2, <3>3
  <2> QED BY <2>1, <2>2
<1>2. CASE ConnectGuard
  BY <1>2 DEF ConnectGuard, TypeOK
<1>3. CASE BumpGeneration
  <2>1. client = NoHandle /\ pendingTd = NoHandle /\ reapers = {} /\ el.old \in Handles
    BY <1>3 DEF BumpGeneration, Control, Exclusive, TypeOK
  <2>2. generation' # generation
    BY <1>3, GenerationType DEF BumpGeneration, TypeOK
  <2> QED BY <1>3, <2>1, <2>2 DEF BumpGeneration, TypeOK
<1>4. ASSUME NEW ok \in BOOLEAN, DetachReap(ok) PROVE Gens'
  <2>1. reapers = {} /\ el.old \in Handles
    BY <1>4 DEF DetachReap, Control, Exclusive, TypeOK
  <2>2. \A h \in Handles :
          (pendingTd' = h \/ \E r \in reapers' : r.h = h /\ r.pc # "clear")
            <=> h = el.old
    BY <1>4, <2>1, ReapHolds DEF DetachReap
  <2>3. UNCHANGED <<client, generation, cl>> /\ el'.pc = "begin"
    BY <1>4 DEF DetachReap
  <2> QED BY <1>4, <2>1, <2>2, <2>3 DEF DetachReap
<1>5. CASE BeginAttempt
  BY <1>5 DEF BeginAttempt, TypeOK
<1>6. ASSUME NEW ok \in BOOLEAN, SpawnWorker(ok) PROVE Gens'
  BY <1>6 DEF SpawnWorker, TypeOK
<1>7. CASE SendGuard
  BY <1>7 DEF SendGuard, TypeOK
<1>8. CASE SendDrop
  BY <1>8 DEF SendDrop, TypeOK
<1>9. ASSUME NEW aborts \in BOOLEAN, SendTx(aborts) PROVE Gens'
  <2>1. \A h \in Handles : cl'[h].gen = cl[h].gen
    <3>1. CASE aborts
      <4>1. client \in Handles /\ cl' = [cl EXCEPT ![client].phase = "backoff"]
        BY <1>9, <3>1 DEF SendTx, IsOpen, TypeOK
      <4> QED BY <4>1 DEF TypeOK, Clients
    <3>2. CASE ~aborts
      BY <1>9, <3>2 DEF SendTx
    <3> QED BY <3>1, <3>2
  <2>2. UNCHANGED <<client, generation, pendingTd, reapers>> /\ el'.pc = "idle"
    BY <1>9 DEF SendTx, TypeOK
  <2> QED BY <2>1, <2>2 DEF TypeOK
<1>10. ASSUME NEW ok \in BOOLEAN, ConnectWs(ok) PROVE Gens'
  <2>1. UNCHANGED <<client, generation, pendingTd, reapers, el, cl>>
    BY <1>10 DEF ConnectWs, Control, Exclusive, Legs, WorkerPcs, TypeOK
  <2> QED BY <1>0, <2>1
<1>11. ASSUME NEW h \in Handles \cup {NoHandle}, InitClient(h) PROVE Gens'
  <2>1. UNCHANGED <<client, generation, pendingTd, reapers, el>>
    BY <1>11 DEF InitClient
  <2>2. CASE h = NoHandle
    BY <1>0, <1>11, <2>1, <2>2 DEF InitClient
  <2>3. CASE h # NoHandle
    <3>1. worker.pc = "init" /\ client = NoHandle /\ ~tearing /\ el.old = NoHandle
          /\ el.pc \notin {"bump", "reap"}
      BY <1>11 DEF InitClient, Control, Exclusive, Legs, WorkerPcs, TypeOK
    <3> QED BY <2>1, <3>1 DEF Exclusive
  <2> QED BY <2>2, <2>3
<1>12. CASE StoreClient
  <2>1. worker.h \in Handles /\ ~tearing /\ el.old = NoHandle
        /\ el.pc \notin {"bump", "reap"}
    BY <1>12 DEF StoreClient, Control, Exclusive, Building, TypeOK
  <2>2. cl'[worker.h].gen = generation
    BY <1>12, <2>1 DEF StoreClient, TypeOK, Clients
  <2> QED BY <1>12, <2>1, <2>2 DEF StoreClient, Exclusive
<1>13. ASSUME NEW ok \in BOOLEAN, StartClient(ok) PROVE Gens'
  <2>1. UNCHANGED <<generation, pendingTd, reapers, el>> /\ client' \in {client, NoHandle}
    BY <1>13 DEF StartClient
  <2>2. ASSUME cl' = [cl EXCEPT ![worker.h].phase = "trying"]
        PROVE  \A h \in Handles : cl'[h].gen = cl[h].gen
    BY <2>2 DEF TypeOK, Clients
  <2>3. \A h \in Handles : cl'[h].gen = cl[h].gen
    BY <1>13, <2>2 DEF StartClient
  <2> QED BY <2>1, <2>3 DEF Control, TypeOK
<1>14. CASE DestroyUnstarted
  <2>1. UNCHANGED <<client, generation, pendingTd, reapers, el>>
    BY <1>14 DEF DestroyUnstarted
  <2>2. client = NoHandle /\ ~tearing /\ el.pc \notin {"bump", "reap"}
    BY <1>14 DEF DestroyUnstarted, Control, Exclusive, Legs, WorkerPcs, TypeOK
  <2> QED BY <2>1, <2>2 DEF Exclusive
<1>15. ASSUME NEW h \in Handles, TransportTask(h) \/ Handler(h) PROVE Gens'
  BY <1>0, <1>15, ClientsKept, TransportFrame DEF Lifecycle
<1>16. ASSUME NEW r \in reapers, ReaperStop(r) PROVE Gens'
  <2>1. reapers = {r} /\ reapers' = {[r EXCEPT !.pc = "join"]} /\ r.pc = "stop"
    BY <1>16 DEF ReaperStop, Exclusive
  <2>2. r \in [h : Handles, pc : ReaperPcs]
    BY DEF TypeOK
  <2>3. \A h \in Handles :
          (\E s \in reapers' : s.h = h /\ s.pc # "clear")
            <=> (\E s \in reapers : s.h = h /\ s.pc # "clear")
    BY <2>1, <2>2
  <2>4. \A h \in Handles : cl'[h].gen = cl[h].gen
    BY <1>16 DEF ReaperStop, TypeOK, Clients
  <2> QED BY <1>16, <2>3, <2>4 DEF ReaperStop, Control, TypeOK
<1>17. ASSUME NEW r \in reapers, ReaperDestroy(r) PROVE Gens'
  <2>1. reapers = {r} /\ reapers' = {[r EXCEPT !.pc = "clear"]}
    BY <1>17 DEF ReaperDestroy, Exclusive
  <2>2. r \in [h : Handles, pc : ReaperPcs]
    BY DEF TypeOK
  <2>3. \A s \in reapers' : s.pc = "clear"
    BY <2>1, <2>2
  <2>4. client = NoHandle /\ el.old = NoHandle /\ pendingTd = NoHandle
        /\ el.pc \notin {"bump", "reap"}
    BY <2>1 DEF Exclusive, Control
  <2> QED BY <1>17, <2>3, <2>4 DEF ReaperDestroy
<1>18. ASSUME NEW r \in reapers, ReaperExit(r) PROVE Gens'
  BY <1>18 DEF ReaperExit, TypeOK, Control
<1>19. CASE Reboot
  BY <1>19 DEF Reboot
<1>20. UNCHANGED vars => UNCHANGED Lifecycle /\ UNCHANGED cl
  BY DEF vars, Lifecycle
<1>21. (\A h \in Handles : cl'[h].gen = cl[h].gen) \/ ~UNCHANGED cl
  OBVIOUS
<1>22. CASE Worker
  BY <1>0, <1>21, <1>10, <1>11, <1>12, <1>13, <1>14, <1>22
  DEF Worker, Resolve, Probe, Access, Poll, StoreToken, TestToken, WorkerExit
<1> QED
  BY <1>0, <1>1, <1>2, <1>3, <1>4, <1>5, <1>6, <1>7, <1>8, <1>9, <1>15, <1>16,
     <1>17, <1>18, <1>19, <1>20, <1>21, <1>22, EnvironmentFrame, BrowserFrame
  DEF Next, EventLoop, Reaper, Lifecycle

-----------------------------------------------------------------------------
(* Attempt.                                                                *)

\* While an attempt is in its legs, or about to be, no client has a transport
\* task: none handles an event or changes the state.
LEMMA Undisturbed ==
    ASSUME IInv, worker.pc \in Legs \/ el.pc = "spawn", NEW h \in Handles
    PROVE  ~TransportTask(h) /\ ~Handler(h)
<1> USE DEF IInv
<1>1. pendingTd = NoHandle /\ reapers = {} /\ el.old = NoHandle
  BY DEF Exclusive, Control, Legs
<1>2. client = NoHandle \/ client = worker.h
  BY DEF Exclusive, Control
<1>3. cl[h].phase \in {"free", "init"}
  <2>1. CASE h = worker.h
    BY <2>1, HandlesAssumption DEF Memory, Control, Legs, Building
  <2>2. CASE h # worker.h
    BY <1>1, <1>2, <2>2, HandlesAssumption DEF Memory, Held
  <2> QED BY <2>1, <2>2
<1>4. cl[h].at = "idle" /\ cl[h].queue = <<>>
  BY <1>3 DEF Handling
<1>5. ~TransportTask(h)
  BY <1>3 DEF TransportTask, UpgradeOk, UpgradeRefused, UpgradeError, Reconnect,
              Lose, TaskEnds
<1>6. ~Handler(h)
  BY <1>4 DEF Handler, Dispatch, OnDisconnected, OnError, ClearToken, OnConnected,
              Subscribe
<1> QED BY <1>5, <1>6

\* set_connection_state, for the states of an attempt.
LEMMA SetStateAttempt ==
    \A s \in {"Authorizing", "Connecting"}, rejected \in BOOLEAN :
        SetState(s, rejected) => state' = s
BY DEF SetState

\* Nothing but its own worker ends an attempt.
LEMMA AttemptStep == IInv /\ [Next]_vars => Attempt'
<1> SUFFICES ASSUME IInv, [Next]_vars PROVE Attempt'
  OBVIOUS
<1> USE DEF Attempt, Legs, eventVars, clientVars, ElGoto, WorkerGoto, Fail
<1>0. ASSUME UNCHANGED <<state, el, worker>> PROVE Attempt'
  BY <1>0 DEF IInv
<1> USE DEF IInv
<1>1. CASE EventLoop
  <2>1. ASSUME NEW ok \in BOOLEAN, TickReap(ok) PROVE Attempt'
    BY <2>1 DEF TickReap, TypeOK
  <2>2. CASE ConnectGuard
    BY <2>2 DEF ConnectGuard, TypeOK
  <2>3. CASE BumpGeneration
    BY <2>3 DEF BumpGeneration, TypeOK
  <2>4. ASSUME NEW ok \in BOOLEAN, DetachReap(ok) PROVE Attempt'
    BY <2>4 DEF DetachReap, TypeOK
  <2>5. CASE BeginAttempt
    BY <2>5, SetStateAttempt DEF BeginAttempt, Control, TypeOK
  <2>6. ASSUME NEW ok \in BOOLEAN, SpawnWorker(ok) PROVE Attempt'
    <3>1. CASE ok
      BY <2>6, <3>1 DEF SpawnWorker, TypeOK
    <3>2. CASE ~ok
      BY <2>6, <3>2 DEF SpawnWorker, Control, TypeOK
    <3> QED BY <3>1, <3>2
  <2>7. CASE SendGuard
    BY <2>7 DEF SendGuard, TypeOK
  <2>8. CASE SendDrop
    BY <2>8 DEF SendDrop, TypeOK
  <2>9. ASSUME NEW aborts \in BOOLEAN, SendTx(aborts) PROVE Attempt'
    BY <2>9 DEF SendTx, TypeOK
  <2> QED BY <1>1, <2>1, <2>2, <2>3, <2>4, <2>5, <2>6, <2>7, <2>8, <2>9 DEF EventLoop
<1>2. CASE Worker
  <2>1. worker.pc # "none" /\ el' = el
    BY <1>2 DEF Worker, Resolve, Probe, Access, Poll, StoreToken, TestToken,
                ConnectWs, InitClient, StoreClient, StartClient, DestroyUnstarted,
                WorkerExit
  <2>2. el.pc # "spawn"
    BY <2>1 DEF Control
  <2>3. worker'.pc \in {"none", "done"} => Attempt'
    BY <2>1, <2>2
  <2>4. ASSUME NEW ok \in BOOLEAN, ConnectWs(ok), worker'.pc \notin {"none", "done"}
        PROVE  Attempt'
    <3>1. SetState("Connecting", FALSE)
      BY <2>4 DEF ConnectWs, TypeOK
    <3> QED BY <2>1, <2>2, <2>4, <3>1, SetStateAttempt DEF ConnectWs, TypeOK, WorkerPcs
  <2>5. ASSUME UNCHANGED state, worker.pc \in Legs PROVE Attempt'
    BY <2>1, <2>2, <2>5
  <2>6. ASSUME NEW found \in BOOLEAN, NEW tls \in BOOLEAN, Resolve(found, tls)
        PROVE  Attempt'
    BY <2>3, <2>5, <2>6 DEF Resolve, TypeOK, WorkerPcs
  <2>7. ASSUME NEW a \in {"href", "404", "other", "rejected"}, Access(a)
        PROVE  Attempt'
    BY <2>3, <2>5, <2>7 DEF Access, TypeOK, WorkerPcs
  <2>8. ASSUME NEW a \in {"approved", "completed", "404 or 500", "other", "rejected"},
               Poll(a)
        PROVE  Attempt'
    BY <2>3, <2>5, <2>8 DEF Poll, TypeOK, WorkerPcs
  <2>9. ASSUME NEW a \in {"426", "401", "other"}, TestToken(a) PROVE Attempt'
    BY <2>3, <2>5, <2>9 DEF TestToken, TypeOK, WorkerPcs
  <2>10. ASSUME NEW h \in Handles \cup {NoHandle}, InitClient(h) PROVE Attempt'
    BY <2>3, <2>5, <2>10 DEF InitClient, TypeOK, WorkerPcs
  <2>11. CASE DestroyUnstarted
    BY <2>3, <2>11 DEF DestroyUnstarted
  <2>12. CASE WorkerExit
    BY <2>3, <2>12 DEF WorkerExit, TypeOK
  <2>13. ASSUME NEW redirected \in BOOLEAN, Probe(redirected) PROVE Attempt'
    BY <2>5, <2>13 DEF Probe, TypeOK, WorkerPcs
  <2>14. ASSUME NEW ok \in BOOLEAN, StartClient(ok) PROVE Attempt'
    BY <2>5, <2>14 DEF StartClient, TypeOK, WorkerPcs
  <2>15. CASE StoreToken \/ StoreClient
    BY <2>5, <2>15 DEF StoreToken, StoreClient, TypeOK, WorkerPcs
  <2> QED BY <1>2, <2>3, <2>4, <2>6, <2>7, <2>8, <2>9, <2>10, <2>11, <2>12, <2>13,
             <2>14, <2>15 DEF Worker
<1>3. ASSUME NEW h \in Handles, TransportTask(h) \/ Handler(h) PROVE Attempt'
  <2>1. worker.pc \notin Legs /\ el.pc # "spawn"
    BY <1>3, Undisturbed
  <2> QED BY <1>3, <2>1, TransportFrame DEF Lifecycle
<1>4. ASSUME NEW r \in reapers, Reaper(r) PROVE Attempt'
  BY <1>0, <1>4, ReaperFrame
<1>5. CASE Reboot
  BY <1>5 DEF Reboot
<1>6. UNCHANGED vars => UNCHANGED <<state, el, worker>>
  BY DEF vars
<1> QED BY <1>0, <1>1, <1>2, <1>3, <1>4, <1>5, <1>6, EnvironmentFrame, BrowserFrame
       DEF Next, Lifecycle

-----------------------------------------------------------------------------
(* Granted and Anchored.                                                   *)

\* The steps that change the credentials.
LEMMA CredSteps ==
    ASSUME [Next]_vars
    PROVE  \/ UNCHANGED <<cred, saved>>
           \/ \E found, tls \in BOOLEAN : Resolve(found, tls)
           \/ \E redirected \in BOOLEAN : Probe(redirected)
           \/ \E a \in {"href", "404", "other", "rejected"} : Access(a)
           \/ \E a \in {"approved", "completed", "404 or 500", "other", "rejected"} : Poll(a)
           \/ StoreToken
           \/ \E a \in {"426", "401", "other"} : TestToken(a)
           \/ \E h \in Handles : ClearToken(h) \/ OnConnected(h)
           \/ Reboot
           \/ Browser
<1> USE DEF credVars
<1>1. CASE EventLoop
  BY <1>1 DEF EventLoop, TickReap, ConnectGuard, BumpGeneration, DetachReap,
              BeginAttempt, SpawnWorker, SendGuard, SendDrop, SendTx
<1>2. CASE Worker
  BY <1>2 DEF Worker, ConnectWs, InitClient, StoreClient, StartClient,
              DestroyUnstarted, WorkerExit
<1>3. ASSUME NEW h \in Handles, TransportTask(h) PROVE UNCHANGED <<cred, saved>>
  BY <1>3 DEF TransportTask, UpgradeOk, UpgradeRefused, UpgradeError, Reconnect,
              Lose, TaskEnds
<1>4. ASSUME NEW h \in Handles, Handler(h)
      PROVE  UNCHANGED <<cred, saved>> \/ ClearToken(h) \/ OnConnected(h)
  BY <1>4 DEF Handler, Dispatch, OnDisconnected, OnError, Subscribe
<1>5. UNCHANGED vars => UNCHANGED <<cred, saved>>
  BY DEF vars
<1> QED BY <1>1, <1>2, <1>3, <1>4, <1>5, ReaperFrame, EnvironmentFrame DEF Next

\* None but the browser moves its page.
LEMMA WebSteps ==
    ASSUME [Next]_vars PROVE UNCHANGED web \/ Browser
<1> USE DEF envVars
<1>1. CASE EventLoop
  BY <1>1 DEF EventLoop, TickReap, ConnectGuard, BumpGeneration, DetachReap,
              BeginAttempt, SpawnWorker, SendGuard, SendDrop, SendTx
<1>2. CASE Worker
  BY <1>2 DEF Worker, Resolve, Probe, Access, Poll, StoreToken, TestToken, ConnectWs,
              InitClient, StoreClient, StartClient, DestroyUnstarted, WorkerExit
<1>3. ASSUME NEW h \in Handles, TransportTask(h) PROVE UNCHANGED web
  BY <1>3 DEF TransportTask, UpgradeOk, UpgradeRefused, UpgradeError, Reconnect,
              Lose, TaskEnds
<1>4. ASSUME NEW h \in Handles, Handler(h) PROVE UNCHANGED web
  BY <1>4 DEF Handler, Dispatch, OnDisconnected, OnError, ClearToken, OnConnected,
              Subscribe
<1>5. ASSUME NEW r \in reapers, Reaper(r) PROVE UNCHANGED web
  BY <1>5 DEF Reaper, ReaperStop, ReaperDestroy, ReaperExit
<1>6. CASE BecomeDue \/ NetworkChanges \/ TokenRevoked \/ Reboot
  BY <1>6 DEF BecomeDue, NetworkChanges, TokenRevoked, Reboot
<1>7. UNCHANGED vars => UNCHANGED web
  BY DEF vars
<1> QED BY <1>1, <1>2, <1>3, <1>4, <1>5, <1>6, <1>7 DEF Next

\* The steps by which a worker reaches "access" and "approved" and builds a
\* client.
LEMMA LegSteps ==
    ASSUME TypeOK, [Next]_vars
    PROVE  /\ worker'.pc = "access" =>
                \/ worker.pc = "access"
                \/ \E redirected \in BOOLEAN : Probe(redirected)
                \/ \E a \in {"426", "401", "other"} : TestToken(a)
           /\ worker'.pc = "approved" =>
                \/ worker.pc = "approved"
                \/ \E a \in {"approved", "completed", "404 or 500", "other", "rejected"} :
                      Poll(a)
           /\ worker'.pc \in Building \cup {"init"} =>
                \/ worker.pc \in Building \cup {"init"}
                \/ \E ok \in BOOLEAN : ConnectWs(ok)
<1> USE DEF WorkerGoto, Fail, TypeOK
<1>1. CASE EventLoop
  <2>1. \/ worker' = worker
        \/ worker' = [pc |-> "resolve", h |-> NoHandle]
    BY <1>1 DEF EventLoop, TickReap, ConnectGuard, BumpGeneration, DetachReap,
                BeginAttempt, SpawnWorker, SendGuard, SendDrop, SendTx
  <2>2. CASE worker' = worker
    BY <2>2
  <2>3. CASE worker' = [pc |-> "resolve", h |-> NoHandle]
    BY <2>3 DEF Building
  <2> QED BY <2>1, <2>2, <2>3
<1>2. CASE Worker
  <2>1. ASSUME NEW found \in BOOLEAN, NEW tls \in BOOLEAN, Resolve(found, tls)
        PROVE  worker'.pc \notin {"access", "approved", "init"} \cup Building
    BY <2>1 DEF Resolve, Building
  <2>2. ASSUME NEW redirected \in BOOLEAN, Probe(redirected)
        PROVE  worker'.pc \notin {"approved", "init"} \cup Building
    BY <2>2 DEF Probe, Building
  <2>3. ASSUME NEW a \in {"href", "404", "other", "rejected"}, Access(a)
        PROVE  worker'.pc \notin {"access", "approved", "init"} \cup Building
    BY <2>3 DEF Access, Building
  <2>4. ASSUME NEW a \in {"approved", "completed", "404 or 500", "other", "rejected"},
               Poll(a)
        PROVE  worker'.pc \notin {"access", "init"} \cup Building
    BY <2>4 DEF Poll, Building
  <2>5. ASSUME NEW a \in {"426", "401", "other"}, TestToken(a)
        PROVE  worker'.pc \notin {"approved", "init"} \cup Building
    BY <2>5 DEF TestToken, Building
  <2>6. ASSUME NEW h \in Handles \cup {NoHandle}, InitClient(h)
        PROVE  worker'.pc \notin {"access", "approved"} /\ worker.pc = "init"
    <3>1. CASE h = NoHandle
      BY <2>6, <3>1 DEF InitClient
    <3>2. CASE h # NoHandle
      BY <2>6, <3>2 DEF InitClient
    <3> QED BY <3>1, <3>2
  <2>7. ASSUME NEW ok \in BOOLEAN, StartClient(ok)
        PROVE  worker'.pc \notin {"access", "approved"} /\ worker.pc \in Building
    <3>1. CASE ok
      BY <2>7, <3>1 DEF StartClient, Building
    <3>2. CASE ~ok
      BY <2>7, <3>2 DEF StartClient, Building
    <3> QED BY <3>1, <3>2
  <2>8. CASE StoreToken \/ StoreClient \/ WorkerExit
    BY <2>8 DEF StoreToken, StoreClient, WorkerExit, Building
  <2>9. CASE DestroyUnstarted
    BY <2>9 DEF DestroyUnstarted, Building
  <2>10. ASSUME NEW ok \in BOOLEAN, ConnectWs(ok)
         PROVE  worker'.pc \notin {"access", "approved"}
    BY <2>10 DEF ConnectWs
  <2> QED BY <1>2, <2>1, <2>2, <2>3, <2>4, <2>5, <2>6, <2>7, <2>8, <2>9,
             <2>10 DEF Worker
<1>3. CASE Reboot
  BY <1>3 DEF Reboot, Building
<1>4. UNCHANGED vars => UNCHANGED worker
  BY DEF vars
<1> QED BY <1>1, <1>2, <1>3, <1>4, TransportFrame, ReaperFrame, EnvironmentFrame, BrowserFrame
       DEF Next, Lifecycle

\* A request and a token exclude each other along every leg, as long as no page
\* saves in the middle of one.
LEMMA GrantedStep == IInv /\ [Next]_vars => Granted'
<1> SUFFICES ASSUME TypeOK, Granted, [Next]_vars PROVE Granted'
  BY DEF IInv
<1> USE DEF Granted, HrefExcludesToken, Creds, Save, WorkerGoto, Fail, envVars
<1>0. CASE UNCHANGED <<cred, saved, web>>
  <2>1. worker'.pc = "access" => web.disturbed \/ ~cred.token
    <3>1. ASSUME NEW redirected \in BOOLEAN, Probe(redirected), worker'.pc = "access"
          PROVE  ~cred.token
      BY <3>1 DEF Probe, TypeOK
    <3>2. ASSUME NEW a \in {"426", "401", "other"}, TestToken(a), worker'.pc = "access"
          PROVE  ~cred.token
      BY <1>0, <3>2 DEF TestToken, TypeOK
    <3> QED BY <3>1, <3>2, LegSteps
  <2>2. worker'.pc = "approved" => web.disturbed \/ ~cred.href
    <3>1. ASSUME NEW a \in {"approved", "completed", "404 or 500", "other", "rejected"},
                 Poll(a), worker'.pc = "approved"
          PROVE  ~cred.href
      BY <1>0, <3>1 DEF Poll, EndsRequest, TypeOK
    <3> QED BY <3>1, LegSteps
  <2> QED BY <1>0, <2>1, <2>2
<1>1. ASSUME NEW found \in BOOLEAN, NEW tls \in BOOLEAN, Resolve(found, tls)
      PROVE  Granted'
  BY <1>1 DEF Resolve, TypeOK
<1>2. ASSUME NEW redirected \in BOOLEAN, Probe(redirected) PROVE Granted'
  BY <1>2 DEF Probe, TypeOK
<1>3. ASSUME NEW a \in {"href", "404", "other", "rejected"}, Access(a) PROVE Granted'
  BY <1>3 DEF Access, TypeOK
<1>4. ASSUME NEW a \in {"approved", "completed", "404 or 500", "other", "rejected"},
             Poll(a)
      PROVE  Granted'
  BY <1>4 DEF Poll, EndsRequest, TypeOK
<1>5. CASE StoreToken
  BY <1>5 DEF StoreToken, TypeOK
<1>6. ASSUME NEW a \in {"426", "401", "other"}, TestToken(a) PROVE Granted'
  BY <1>6 DEF TestToken, TypeOK
<1>7. ASSUME NEW h \in Handles, ClearToken(h) \/ OnConnected(h) PROVE Granted'
  BY <1>7 DEF ClearToken, OnConnected, eventVars, TypeOK
<1>8. CASE Reboot
  BY <1>8 DEF Reboot
<1>9. CASE Browser
  <2> SUFFICES ASSUME ~web'.disturbed PROVE Granted'
    OBVIOUS
  <2>1. worker' = worker
    BY <1>9, BrowserFrame DEF Lifecycle
  <2>2. CASE PageLoads
    BY <2>1, <2>2 DEF PageLoads, credVars, TypeOK, Webs
  <2>3. ASSUME NEW p, NEW c, WebWrites(p, c), ~(c.href /\ c.token),
               p # NoPage => ~(p.href /\ p.token)
        PROVE  Granted'
    BY <2>1, <2>3 DEF WebWrites, Attempting
  <2>4. ASSUME NEW ssl \in BOOLEAN, NEW clears \in BOOLEAN, PageSaves(ssl, clears)
        PROVE  Granted'
    <3>1. ~web.disturbed
      BY <2>4 DEF PageSaves, WebWrites
    <3>2. web.page \in Pages /\ ~(web.page.href /\ web.page.token)
      BY <2>4, <3>1 DEF PageSaves, TypeOK, Webs
    <3> DEFINE edited == [web.page EXCEPT !.token = @ /\ ~clears]
               written == [token |-> edited.token, href |-> edited.href,
                           ssl |-> ssl, anchor |-> edited.anchor]
    <3>3. ~(edited.href /\ edited.token)
      BY <3>2 DEF Pages
    <3>4. ~(written.href /\ written.token)
      BY <3>3
    <3>5. WebWrites(edited, written)
      BY <2>4 DEF PageSaves
    <3> HIDE DEF edited, written
    <3> QED BY <2>3, <3>3, <3>4, <3>5
  <2>5. CASE ResetTofu
    <3>1. ~web.disturbed
      BY <2>5 DEF ResetTofu, WebWrites
    <3>2. ~(web.page.href /\ web.page.token)
      BY <2>5, <3>1 DEF ResetTofu
    <3> DEFINE written == [cred EXCEPT !.anchor = "none"]
    <3>3. ~(written.href /\ written.token)
      BY <3>1 DEF TypeOK
    <3>4. WebWrites(web.page, written)
      BY <2>5 DEF ResetTofu
    <3> HIDE DEF written
    <3> QED BY <2>3, <3>2, <3>3, <3>4
  <2> QED BY <1>9, <2>2, <2>4, <2>5 DEF Browser
<1> QED BY <1>0, <1>1, <1>2, <1>3, <1>4, <1>5, <1>6, <1>7, <1>8, <1>9, CredSteps, WebSteps

\* A stash of the HTTP handshakes is made only by the worker, before there is a
\* client; the stash of the websocket is its own.
LEMMA StashSteps ==
    ASSUME [Next]_vars, pendingCa' = "http", pendingCa # "http"
    PROVE  \/ \E a \in {"href", "404", "other", "rejected"} : Access(a)
           \/ \E a \in {"approved", "completed", "404 or 500", "other", "rejected"} : Poll(a)
<1> USE DEF credVars, ClearPendingTofu
<1>1. CASE EventLoop
  BY <1>1 DEF EventLoop, TickReap, ConnectGuard, BumpGeneration, DetachReap,
              BeginAttempt, SpawnWorker, SendGuard, SendDrop, SendTx
<1>2. CASE Worker
  BY <1>2 DEF Worker, Resolve, Probe, StoreToken, TestToken, ConnectWs, InitClient,
              StoreClient, StartClient, DestroyUnstarted, WorkerExit
<1>3. ASSUME NEW h \in Handles, TransportTask(h) PROVE FALSE
  <2>1. ASSUME NEW rejected \in BOOLEAN, Verify(Pins, rejected) PROVE FALSE
    BY <2>1, PinsType DEF Verify, Stashable
  <2> QED BY <1>3, <2>1 DEF TransportTask, UpgradeOk, UpgradeRefused, UpgradeError,
                            Reconnect, Lose, TaskEnds
<1>4. ASSUME NEW h \in Handles, Handler(h) PROVE FALSE
  BY <1>4 DEF Handler, Dispatch, OnDisconnected, OnError, ClearToken, OnConnected,
              Subscribe
<1>5. CASE Reboot
  BY <1>5 DEF Reboot
<1>6. UNCHANGED vars => UNCHANGED pendingCa
  BY DEF vars
<1> QED BY <1>1, <1>2, <1>3, <1>4, <1>5, <1>6, ReaperFrame, EnvironmentFrame, BrowserFrame DEF Next

\* clear_pending_tofu() in connect_ws() removes what the HTTP legs stashed.
LEMMA AnchoredStep == IInv /\ [Next]_vars => Anchored'
<1> SUFFICES ASSUME IInv, [Next]_vars PROVE Anchored'
  OBVIOUS
<1> DEFINE PageAnchored == web.page # NoPage => web.page.anchor # "http"
<1>0. Browser => AnchorFromWebSocket' /\ PageAnchored'
  <2> USE DEF AnchorFromWebSocket, IInv, Anchored
  <2>1. CASE PageLoads
    BY <2>1 DEF PageLoads, credVars, TypeOK, Webs
  <2>2. ASSUME NEW p, NEW c, WebWrites(p, c), c.anchor # "http",
               p # NoPage => p.anchor # "http"
        PROVE  AnchorFromWebSocket' /\ PageAnchored'
    BY <2>2 DEF WebWrites, Save
  <2>3. ASSUME NEW ssl \in BOOLEAN, NEW clears \in BOOLEAN, PageSaves(ssl, clears)
        PROVE  AnchorFromWebSocket' /\ PageAnchored'
    <3>1. web.page \in Pages /\ web.page.anchor # "http"
      BY <2>3 DEF PageSaves, TypeOK, Webs
    <3> DEFINE edited == [web.page EXCEPT !.token = @ /\ ~clears]
               written == [token |-> edited.token, href |-> edited.href,
                           ssl |-> ssl, anchor |-> edited.anchor]
    <3>2. edited.anchor # "http" /\ written.anchor # "http"
      BY <3>1 DEF Pages
    <3>3. WebWrites(edited, written)
      BY <2>3 DEF PageSaves
    <3> HIDE DEF edited, written
    <3> QED BY <2>2, <3>2, <3>3
  <2>4. CASE ResetTofu
    <3> DEFINE written == [cred EXCEPT !.anchor = "none"]
    <3>1. written.anchor # "http" /\ web.page.anchor # "http"
      BY <2>4 DEF ResetTofu, TypeOK, Creds
    <3>2. WebWrites(web.page, written)
      BY <2>4 DEF ResetTofu
    <3> HIDE DEF written
    <3> QED BY <2>2, <3>1, <3>2
  <2> QED BY <2>1, <2>3, <2>4 DEF Browser
<1>1. AnchorFromWebSocket'
  <2>1. CASE UNCHANGED <<cred, saved>>
    BY <2>1 DEF AnchorFromWebSocket, IInv, Anchored
  <2>2. ASSUME NEW h \in Handles, OnConnected(h) PROVE AnchorFromWebSocket'
    <3>1. pendingCa # "http"
      BY <2>2 DEF OnConnected, IInv, Handling, Anchored
    <3> QED BY <2>2, <3>1 DEF OnConnected, Save, AnchorFromWebSocket, IInv, Anchored,
                              TypeOK, Creds
  <2> USE DEF AnchorFromWebSocket, IInv, Anchored, TypeOK, Creds, Save
  <2>3. ASSUME NEW found \in BOOLEAN, NEW tls \in BOOLEAN, Resolve(found, tls)
        PROVE  AnchorFromWebSocket'
    BY <2>3 DEF Resolve
  <2>4. ASSUME NEW redirected \in BOOLEAN, Probe(redirected) PROVE AnchorFromWebSocket'
    BY <2>4 DEF Probe
  <2>5. ASSUME NEW a \in {"href", "404", "other", "rejected"}, Access(a)
        PROVE  AnchorFromWebSocket'
    BY <2>5 DEF Access
  <2>6. ASSUME NEW a \in {"approved", "completed", "404 or 500", "other", "rejected"},
               Poll(a)
        PROVE  AnchorFromWebSocket'
    BY <2>6 DEF Poll
  <2>7. CASE StoreToken
    BY <2>7 DEF StoreToken
  <2>8. ASSUME NEW a \in {"426", "401", "other"}, TestToken(a)
        PROVE  AnchorFromWebSocket'
    BY <2>8 DEF TestToken
  <2>9. ASSUME NEW h \in Handles, ClearToken(h) PROVE AnchorFromWebSocket'
    BY <2>9 DEF ClearToken
  <2>10. CASE Reboot
    BY <2>10 DEF Reboot
  <2>11. CASE Browser
    BY <1>0, <2>11
  <2> QED BY <2>1, <2>2, <2>3, <2>4, <2>5, <2>6, <2>7, <2>8, <2>9, <2>10, <2>11, CredSteps
<1>2. ASSUME pendingCa' = "http"
      PROVE  /\ \A h \in Handles : cl'[h].phase = "free"
             /\ worker'.pc \notin Building \cup {"init"}
  <2> USE DEF IInv
  <2>1. CASE pendingCa # "http"
    <3>1. /\ worker.pc \in {"access", "poll"} /\ cl' = cl
          /\ worker'.pc \notin Building \cup {"init"}
      <4>1. ASSUME NEW a \in {"href", "404", "other", "rejected"}, Access(a)
            PROVE  /\ worker.pc \in {"access", "poll"} /\ cl' = cl
                   /\ worker'.pc \notin Building \cup {"init"}
        BY <4>1 DEF Access, Fail, WorkerGoto, Building, TypeOK
      <4>2. ASSUME NEW a \in {"approved", "completed", "404 or 500", "other", "rejected"},
                   Poll(a)
            PROVE  /\ worker.pc \in {"access", "poll"} /\ cl' = cl
                   /\ worker'.pc \notin Building \cup {"init"}
        BY <4>2 DEF Poll, Fail, WorkerGoto, Building, TypeOK
      <4> QED BY <1>2, <2>1, <4>1, <4>2, StashSteps
    <3>2. client = NoHandle /\ el.old = NoHandle /\ worker.h = NoHandle /\ ~tearing
      BY <3>1 DEF Exclusive, Control, Legs, Building, TypeOK
    <3>3. \A h \in Handles : cl[h].phase = "free"
      BY <3>2, HandlesAssumption DEF Memory, Held, Exclusive
    <3> QED BY <3>1, <3>3
  <2>2. CASE pendingCa = "http"
    <3>1. /\ \A h \in Handles : cl[h].phase = "free"
          /\ worker.pc \notin Building \cup {"init"}
      BY <2>2 DEF Anchored
    <3>2. worker'.pc \notin Building \cup {"init"}
      <4>1. ASSUME NEW ok \in BOOLEAN, ConnectWs(ok)
            PROVE  worker'.pc \notin Building \cup {"init"}
        BY <1>2, <4>1 DEF ConnectWs, ClearPendingTofu, Fail, WorkerGoto, Building, TypeOK
      <4> QED BY <3>1, <4>1, LegSteps
    <3>3. \A h \in Handles : cl'[h].phase = "free"
      <4>1. ~ \E aborts \in BOOLEAN : SendTx(aborts) /\ ~UNCHANGED cl
        BY <3>1 DEF SendTx, IsOpen, TypeOK
      <4>2. ~ \E ok \in BOOLEAN : StartClient(ok)
        BY <3>1 DEF StartClient, Building
      <4>3. ~ \E h \in Handles \cup {NoHandle} : InitClient(h)
        BY <3>1 DEF InitClient
      <4>4. ~StoreClient /\ ~DestroyUnstarted
        BY <3>1 DEF StoreClient, DestroyUnstarted, Building
      <4>5. ASSUME NEW r \in reapers, ReaperStop(r) \/ ReaperDestroy(r)
            PROVE  \A h \in Handles : cl'[h].phase = "free"
        <5>1. CASE ReaperStop(r)
          BY <3>1, <5>1 DEF ReaperStop, TypeOK, Clients
        <5>2. CASE ReaperDestroy(r)
          BY <3>1, <5>2 DEF ReaperDestroy, Freed, FreeClient, TypeOK
        <5> QED BY <4>5, <5>1, <5>2
      <4>6. CASE Reboot
        BY <4>6 DEF Reboot, FreeClient
      <4> QED BY <3>1, <4>1, <4>2, <4>3, <4>4, <4>5, <4>6, ClientSteps, ClientsKept
    <3> QED BY <3>2, <3>3
  <2> QED BY <2>1, <2>2
<1>3. PageAnchored'
  BY <1>0, WebSteps DEF IInv, Anchored
<1> QED BY <1>1, <1>2, <1>3 DEF Anchored

-----------------------------------------------------------------------------
(* The theorems.                                                           *)

\* The device starts in the inductive invariant.
LEMMA InvInit == Init => IInv
<1> SUFFICES ASSUME Init PROVE IInv
  OBVIOUS
<1>1. TypeOK
  BY TypeInit
<1>2. \A h \in Handles : cl[h] = FreeClient
  BY DEF Init
<1>3. Memory /\ Handling /\ Gens
  BY <1>2, HandlesAssumption DEF Init, Memory, Handling, Gens, Held, Building, FreeClient
<1>4. Control /\ Exclusive /\ Attempt
  BY DEF Init, Control, Exclusive, Attempt, Building, Legs
<1>5. Granted /\ Anchored
  BY PinsType DEF Init, Granted, Anchored, HrefExcludesToken, AnchorFromWebSocket, Creds
<1> QED BY <1>1, <1>3, <1>4, <1>5 DEF IInv

\* What the inductive invariant says of every state: the whole argument rests
\* on it.
THEOREM InvAlways == Spec => []IInv
<1>1. IInv /\ [Next]_vars => IInv'
  <2> SUFFICES ASSUME IInv, [Next]_vars PROVE IInv'
    OBVIOUS
  <2>1. TypeOK'
    BY TypeStep DEF IInv, Control, DetachHolds
  <2> QED BY <2>1, ControlStep, ExclusiveStep, MemoryStep, HandlingStep, GensStep,
             AttemptStep, GrantedStep, AnchoredStep DEF IInv
<1> QED BY InvInit, <1>1, PTL DEF Spec

\* Every variable keeps its type.
THEOREM TypeCorrect == Spec => []TypeOK
<1>1. IInv => TypeOK
  BY DEF IInv
<1> QED BY InvAlways, <1>1, PTL

\* At most one websocket client exists, for any number of addresses: bring-up
\* waits for the teardown of the previous one.
THEOREM OneClient == Spec => []AtMostOneClient
<1>1. IInv => AtMostOneClient
  <2> SUFFICES ASSUME IInv, NEW g \in Handles, NEW h \in Handles,
                      cl[g].phase # "free", cl[h].phase # "free"
               PROVE  g = h
    BY DEF AtMostOneClient
  <2>1. Held(g) /\ Held(h)
    BY DEF IInv, Memory
  <2> QED BY <2>1, HandlesAssumption DEF IInv, Held, Exclusive, Control, Legs, Building,
             TypeOK, WorkerPcs
<1> QED BY InvAlways, <1>1, PTL

\* A client in memory is owned by exactly one party and freed memory by none.
THEOREM OneOwner == Spec => []OwnedOnce
<1>1. IInv => OwnedOnce
  <2> SUFFICES ASSUME IInv, NEW h \in Handles
               PROVE  IF cl[h].phase = "free" THEN Owners(h) = {}
                      ELSE \E o \in Owners(h) : Owners(h) = {o}
    BY DEF OwnedOnce
  <2> USE DEF IInv
  <2>1. CASE cl[h].phase = "free"
    BY <2>1, HandlesAssumption DEF Memory, Held, Owners
  <2>2. CASE cl[h].phase # "free"
    <3>1. Held(h)
      BY <2>2 DEF Memory
    <3> USE HandlesAssumption DEF Exclusive, Control, Legs, Building, TypeOK, WorkerPcs
    <3>2. CASE client = h
      <4>1. /\ el.old # h /\ pendingTd # h /\ reapers = {}
            /\ ~(worker.h = h /\ worker.pc \in {"store", "destroy"})
        BY <3>2
      <4>2. Owners(h) = {[h |-> h, pc |-> "client_"]}
        BY <3>2, <4>1 DEF Owners
      <4> QED BY <2>2, <4>2
    <3>3. CASE el.old = h
      <4>1. client # h /\ pendingTd # h /\ reapers = {} /\ worker.h # h
        BY <3>3
      <4>2. Owners(h) = {[h |-> h, pc |-> "detach"]}
        BY <3>3, <4>1 DEF Owners
      <4> QED BY <2>2, <4>2
    <3>4. CASE pendingTd = h
      <4>1. client # h /\ el.old # h /\ reapers = {} /\ worker.h # h
        BY <3>4
      <4>2. Owners(h) = {[h |-> h, pc |-> "pending"]}
        BY <3>4, <4>1 DEF Owners
      <4> QED BY <2>2, <4>2
    <3>5. CASE worker.h = h /\ client # h
      <4>1. /\ worker.pc \in {"store", "destroy"} /\ el.old # h /\ pendingTd # h
            /\ reapers = {}
        BY <3>5
      <4>2. Owners(h) = {[h |-> h, pc |-> "worker"]}
        BY <3>5, <4>1 DEF Owners
      <4> QED BY <2>2, <4>2
    <3>6. ASSUME NEW r \in reapers, r.h = h, r.pc # "clear"
          PROVE  \E o \in Owners(h) : Owners(h) = {o}
      <4>1. client # h /\ el.old # h /\ pendingTd # h /\ worker.h # h /\ reapers = {r}
        BY <3>6
      <4>2. Owners(h) = {r}
        BY <3>6, <4>1 DEF Owners
      <4> QED BY <4>2
    <3> QED BY <2>2, <3>1, <3>2, <3>3, <3>4, <3>5, <3>6 DEF Held
  <2> QED BY <2>1, <2>2
<1> QED BY InvAlways, <1>1, PTL

\* A handler never runs for a client that is not connected or was not: not for
\* one that is freed, nor for one whose task has ended.
THEOREM HandlersAlive == Spec => []HandlerAlive
<1>1. IInv => HandlerAlive
  BY DEF IInv, Handling, HandlerAlive
<1> QED BY InvAlways, <1>1, PTL

\* A device never has both a pending access request and a token, in memory or
\* in its file, wherever a restart falls.
THEOREM OneCredential == Spec => []HrefExcludesToken
<1>1. IInv => HrefExcludesToken
  BY DEF IInv, Granted, HrefExcludesToken
<1> QED BY InvAlways, <1>1, PTL

\* No anchor comes from the handshake of an HTTP request.
THEOREM AnchorsFromWebSocket == Spec => []AnchorFromWebSocket
<1>1. IInv => AnchorFromWebSocket
  BY DEF IInv, Anchored
<1> QED BY InvAlways, <1>1, PTL

\* While a worker is in the legs of an attempt, no other task moves the state,
\* and none but the HTTP task the credentials.
THEOREM AttemptsOwnState == Spec => AttemptOwnsState
<1>1. IInv /\ [Next]_vars
        => [Attempting /\ worker' = worker
              => /\ UNCHANGED <<state, certError>>
                 /\ UNCHANGED cred \/ web'.disturbed]_vars
  <2> SUFFICES ASSUME IInv, Next, Attempting, worker' = worker
               PROVE  \/ UNCHANGED <<state, certError, cred>>
                      \/ UNCHANGED <<state, certError>> /\ web'.disturbed
    BY DEF vars
  <2>1. worker.pc \in Legs
    BY DEF IInv, TypeOK, Legs, Attempting
  <2>2. CASE EventLoop
    <3>1. el.pc \notin {"bump", "reap", "begin", "spawn", "drop", "tx"}
      BY <2>1 DEF IInv, Control, Attempt, Legs
    <3> QED BY <2>2, <3>1 DEF EventLoop, TickReap, ConnectGuard, BumpGeneration,
                DetachReap, BeginAttempt, SpawnWorker, SendGuard, SendDrop, SendTx, credVars
  <2>3. CASE Worker
    <3> USE DEF IInv, TypeOK, WorkerGoto, Fail
    <3>1. ASSUME NEW found \in BOOLEAN, NEW tls \in BOOLEAN, Resolve(found, tls)
          PROVE  FALSE
      BY <3>1 DEF Resolve
    <3>2. ASSUME NEW redirected \in BOOLEAN, Probe(redirected) PROVE FALSE
      BY <3>2 DEF Probe
    <3>3. ASSUME NEW a \in {"href", "404", "other", "rejected"}, Access(a) PROVE FALSE
      BY <3>3 DEF Access
    <3>4. ASSUME NEW a \in {"approved", "completed", "404 or 500", "other", "rejected"},
                 Poll(a)
          PROVE  FALSE
      BY <3>4 DEF Poll
    <3>5. CASE StoreToken \/ StoreClient \/ WorkerExit
      BY <3>5 DEF StoreToken, StoreClient, WorkerExit
    <3>6. ASSUME NEW a \in {"426", "401", "other"}, TestToken(a) PROVE FALSE
      BY <3>6 DEF TestToken
    <3>7. ASSUME NEW ok \in BOOLEAN, ConnectWs(ok) PROVE FALSE
      BY <3>7 DEF ConnectWs
    <3>8. ASSUME NEW h \in Handles \cup {NoHandle}, InitClient(h) PROVE FALSE
      <4>1. CASE h = NoHandle
        BY <3>8, <4>1 DEF InitClient
      <4>2. CASE h # NoHandle
        BY <3>8, <4>2 DEF InitClient
      <4> QED BY <4>1, <4>2
    <3>9. ASSUME NEW ok \in BOOLEAN, StartClient(ok) PROVE FALSE
      <4>1. CASE ok
        BY <3>9, <4>1 DEF StartClient
      <4>2. CASE ~ok
        BY <3>9, <4>2 DEF StartClient
      <4> QED BY <4>1, <4>2
    <3>10. CASE DestroyUnstarted
      BY <3>10 DEF DestroyUnstarted
    <3> QED BY <2>3, <3>1, <3>2, <3>3, <3>4, <3>5, <3>6, <3>7, <3>8, <3>9, <3>10 DEF Worker
  <2>4. ~Reboot
    BY DEF Reboot, Attempting
  <2>5. CASE Browser
    <3>2. ASSUME NEW p, NEW c, WebWrites(p, c) PROVE web'.disturbed
      BY <3>2 DEF WebWrites
    <3>1. UNCHANGED cred \/ web'.disturbed
      BY <2>5, <3>2 DEF Browser, PageLoads, PageSaves, ResetTofu, credVars
    <3> QED BY <2>5, <3>1, BrowserFrame
  <2> QED BY <2>1, <2>2, <2>3, <2>4, <2>5, Undisturbed, ReaperFrame, EnvironmentFrame DEF Next
<1> QED BY InvAlways, <1>1, PTL DEF Spec, AttemptOwnsState

\* An event is handled only for the client in client_, or in the gap of
\* detach_teardown before the generation moves on.
THEOREM LateEvents == Spec => LateEventsDropped
<1>1. IInv /\ [Next]_vars
        => [\A h \in Handles :
              cl[h].at = "idle" /\ cl'[h].at # "idle" => client = h \/ el.old = h]_vars
  <2> SUFFICES ASSUME IInv, Next, NEW h \in Handles, cl[h].at = "idle", cl'[h].at # "idle"
               PROVE  client = h \/ el.old = h
    BY DEF vars
  <2> USE DEF IInv, TypeOK, Clients
  <2>1. Dispatch(h) /\ cl[h].gen = generation
    <3>1. cl' # cl
      OBVIOUS
    <3>2. ASSUME NEW aborts \in BOOLEAN, SendTx(aborts) PROVE FALSE
      <4>1. client \in Handles /\ cl' = [cl EXCEPT ![client].phase = "backoff"]
        BY <3>1, <3>2 DEF SendTx, IsOpen
      <4> QED BY <4>1
    <3>3. ASSUME NEW g \in Handles \cup {NoHandle}, InitClient(g) PROVE FALSE
      <4>1. cl' = [cl EXCEPT ![g] = [FreeClient EXCEPT !.phase = "init",
                                                       !.sent = cred.token]]
        BY <3>1, <3>3 DEF InitClient
      <4> QED BY <4>1 DEF FreeClient
    <3>4. CASE StoreClient
      BY <3>4 DEF StoreClient
    <3>5. ASSUME NEW ok \in BOOLEAN, StartClient(ok) PROVE FALSE
      <4>1. cl' = [cl EXCEPT ![worker.h].phase = "trying"]
        BY <3>1, <3>5 DEF StartClient
      <4> QED BY <4>1
    <3>6. CASE DestroyUnstarted
      BY <3>6 DEF DestroyUnstarted, FreeClient
    <3>7. ASSUME NEW g \in Handles, TransportTask(g) PROVE FALSE
      <4>1. ASSUME NEW phase, NEW events, Transport(g, phase, events) PROVE FALSE
        BY <4>1 DEF Transport
      <4> QED BY <3>7, <4>1 DEF TransportTask, UpgradeOk, UpgradeRefused, UpgradeError,
                                Reconnect, Lose, TaskEnds
    <3>8. ASSUME NEW g \in Handles, Handler(g) PROVE Dispatch(h) /\ cl[h].gen = generation
      <4>1. ASSUME NEW at, HandlerGoto(g, at), cl[g].at # "idle" PROVE FALSE
        BY <4>1 DEF HandlerGoto
      <4>2. CASE Dispatch(g)
        BY <4>2 DEF Dispatch
      <4>3. CASE OnDisconnected(g) \/ OnError(g) \/ ClearToken(g) \/ OnConnected(g)
        BY <4>1, <4>3 DEF OnDisconnected, OnError, ClearToken, OnConnected
      <4>4. ASSUME NEW aborts \in BOOLEAN, Subscribe(g, aborts) PROVE FALSE
        <5>1. CASE aborts
          <6>1. client \in Handles
            BY <4>4, <5>1 DEF Subscribe, IsOpen
          <6> DEFINE lost == [cl EXCEPT ![client].phase = "backoff",
                                        ![client].queue = <<"disconnected">>]
          <6>2. cl' = [lost EXCEPT ![g].at = "idle"]
            BY <4>4, <5>1 DEF Subscribe
          <6>3. DOMAIN lost = Handles /\ lost[h].at = cl[h].at
            BY <6>1
          <6>4. DOMAIN lost[g] = {"phase", "gen", "queue", "at", "stop", "sent"}
            BY <6>1
          <6> HIDE DEF lost
          <6> QED BY <6>2, <6>3, <6>4
        <5>2. CASE ~aborts
          BY <4>1, <4>4, <5>2 DEF Subscribe
        <5> QED BY <5>1, <5>2
      <4> QED BY <3>8, <4>2, <4>3, <4>4 DEF Handler
    <3>9. ASSUME NEW r \in reapers, ReaperStop(r) \/ ReaperDestroy(r) PROVE FALSE
      <4>1. CASE ReaperStop(r)
        BY <4>1 DEF ReaperStop
      <4>2. CASE ReaperDestroy(r)
        BY <4>2 DEF ReaperDestroy, Freed, FreeClient
      <4> QED BY <3>9, <4>1, <4>2
    <3>10. CASE Reboot
      BY <3>10 DEF Reboot, FreeClient
    <3> QED BY <3>1, <3>2, <3>3, <3>4, <3>5, <3>6, <3>7, <3>8, <3>9, <3>10, ClientSteps
  <2>2. cl[h].phase \in {"up", "backoff", "closing"}
    BY <2>1 DEF Dispatch, Handling
  <2>3. Held(h) /\ worker.h # h
    BY <2>2, HandlesAssumption DEF Memory, Control
  <2> QED BY <2>1, <2>3 DEF Held, Gens
<1> QED BY InvAlways, <1>1, PTL DEF Spec, LateEventsDropped
=============================================================================
