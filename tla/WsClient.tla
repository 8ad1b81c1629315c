------------------------------- MODULE WsClient -------------------------------
(***************************************************************************)
(* The Signal K websocket connection of a SensESP device: SKWSClient in    *)
(* src/sensesp/signalk/signalk_ws_client.{h,cpp}.                          *)
(*                                                                         *)
(* Four kinds of task share one SKWSClient object without a lock:          *)
(*   - the event loop, which every 100 ms retries a failed teardown,       *)
(*     dispatches a connection attempt when one is due and sends deltas;   *)
(*   - a one-shot worker, which makes the blocking requests of an attempt  *)
(*     (mDNS, TLS probe, access request) and builds the websocket client;  *)
(*   - the transport task of a websocket client, which connects, reconnects*)
(*     by itself and runs the event handler;                               *)
(*   - a one-shot teardown task, which stops and frees a detached client.  *)
(* A websocket client is a heap object: Handles is the set of its possible *)
(* addresses, and an address is used again once its client is freed.       *)
(* Time is abstract: a backoff runs out at an arbitrary moment.            *)
(***************************************************************************)
EXTENDS Integers, Sequences

CONSTANTS
    Handles,       \* addresses the allocator can give a websocket client
    NoHandle,      \* the null handle
    Generations,   \* client_generation_ counts modulo this number (2^32)
    MinInterval,   \* the first reconnect interval (2000 ms)
    MaxInterval,   \* the cap of the doubling interval (60000 ms)
    Builds,        \* the values SENSESP_SSL_SUPPORT may have
    Pins,          \* what a websocket handshake may find to pin: "leaf", "ca"
    UseMdns,       \* use_mdns_: the server address comes from mDNS
    CanReboot,     \* whether the device may restart at any moment
    NetChanges,    \* whether the network may go and come
    NoPage,        \* no settings page has been loaded
    MaxEdits       \* bound on what the user saves or resets in the settings page

ASSUME HandlesAssumption == NoHandle \notin Handles
ASSUME GenerationsAssumption == Generations \in Nat /\ Generations > 1
ASSUME IntervalAssumption ==
    /\ MinInterval \in Nat /\ MaxInterval \in Nat
    /\ 0 < MinInterval /\ MinInterval <= MaxInterval
ASSUME BuildAssumption ==
    Builds \subseteq BOOLEAN /\ {UseMdns, CanReboot, NetChanges} \subseteq BOOLEAN
ASSUME PinsAssumption == Pins \subseteq {"leaf", "ca"}
ASSUME EditsAssumption == MaxEdits \in Nat

VARIABLES
    state,      \* task_connection_state_
    certError,  \* cert_error_
    client,     \* client_
    generation, \* client_generation_
    tearing,    \* teardown_in_progress_
    authJob,    \* auth_job_running_
    pendingTd,  \* pending_teardown_
    interval,   \* connect_interval_ms_
    due,        \* is_connect_due()
    cred,       \* auth_token_, polling_href_, ssl_enabled_, the TOFU anchor
    pendingCa,  \* the TOFU candidate stashed by a handshake, and by which one
    saved,      \* cred as the configuration file has it
    addr,       \* server_address_ and server_port_ are set
    el,         \* the event loop: program counter and local handle
    worker,     \* the connect worker: program counter and local handle
    reapers,    \* the teardown tasks
    cl,         \* the websocket clients, by address
    net,        \* the network provisioner reports a connection
    tokenValid, \* the server accepts the token it issued last
    sslBuild,   \* SENSESP_SSL_SUPPORT: TLS, and the upgrade status is known
    web         \* the settings page: what it was shown, how much it has changed,
                \* and whether it ever did so in the middle of an attempt

eventVars  == <<el, interval, due>>
clientVars == <<client, generation, tearing, pendingTd, reapers>>
credVars   == <<cred, saved, pendingCa>>
envVars    == <<net, tokenValid, sslBuild, web>>
vars == <<state, certError, client, generation, tearing, authJob, pendingTd,
          interval, due, cred, pendingCa, saved, addr, el, worker, reapers,
          cl, net, tokenValid, sslBuild, web>>

-----------------------------------------------------------------------------
States == {"Disconnected", "Authorizing", "Connecting", "Connected",
           "CertificateError"}

\* A TOFU anchor, or the candidate for one: none; any that was seen in the TLS
\* handshake of an HTTP request; the leaf or the CA of the last websocket
\* handshake; the CA of an earlier websocket handshake.
Anchors == {"none", "http", "leaf", "ca", "old ca"}

Creds == [token : BOOLEAN, href : BOOLEAN, ssl : BOOLEAN, anchor : Anchors]

\* What a settings page keeps of them; the TLS switch is the user's to set.
Pages == [token : BOOLEAN, href : BOOLEAN, anchor : Anchors]
Webs == [page : Pages \cup {NoPage}, edits : 0..MaxEdits, disturbed : BOOLEAN]

\* What a websocket client dispatches to websocket_event_handler.
Events == {"connected", "disconnected", "closed", "error", "error401"}

\* The phases of a websocket client: free memory, initialised, opening the
\* connection, open, waiting to reconnect by itself, stopped by a close of the
\* server, and its task gone.
Phases == {"free", "init", "trying", "up", "backoff", "closing", "ended"}

\* Where its task is in the event handler: not in it, or past the generation
\* test with an event to handle, or in the second half of on_error or
\* on_connected.
HandlerPcs == {"idle", "clear", "subscribe"} \cup Events

FreeClient == [phase |-> "free", gen |-> 0, queue |-> <<>>, at |-> "idle",
               stop |-> FALSE, sent |-> FALSE]

Clients == [phase : Phases, gen : 0..(Generations - 1), queue : Seq(Events),
            at : HandlerPcs, stop : BOOLEAN, sent : BOOLEAN]

ElPcs == {"idle", "conn", "bump", "reap", "begin", "spawn", "send", "drop",
          "tx"}
WorkerPcs == {"none", "resolve", "probe", "poll", "approved", "access", "test",
              "build", "init", "store", "start", "destroy", "done"}
ReaperPcs == {"stop", "join", "clear"}

Retryable == {"Disconnected", "CertificateError"}

Init ==
    /\ sslBuild \in Builds
    /\ saved \in {c \in Creds : c.anchor \in {"none"} \cup Pins}
    /\ cred = saved
    /\ state = "Disconnected"
    /\ certError = FALSE
    /\ client = NoHandle
    /\ generation = 0
    /\ tearing = FALSE
    /\ authJob = FALSE
    /\ pendingTd = NoHandle
    /\ interval = MinInterval
    /\ due = TRUE
    /\ pendingCa = "none"
    /\ addr = FALSE
    /\ el = [pc |-> "idle", old |-> NoHandle]
    /\ worker = [pc |-> "none", h |-> NoHandle]
    /\ reapers = {}
    /\ cl = [h \in Handles |-> FreeClient]
    /\ net \in BOOLEAN /\ (net \/ NetChanges)
    /\ tokenValid \in BOOLEAN
    /\ web = [page |-> NoPage, edits |-> 0, disturbed |-> saved.href /\ saved.token]

-----------------------------------------------------------------------------
\* set_connection_state: a certificate rejection turns a disconnect into a
\* certificate error, and an attempt or a success clears the flag. `rejected`
\* says that the step's own handshake has just raised it.
SetState(s, rejected) ==
    LET shown == IF s = "Disconnected" /\ (certError \/ rejected)
                   THEN "CertificateError" ELSE s
    IN  /\ state' = shown
        /\ certError' = (shown \in Retryable /\ (certError \/ rejected))

\* save(): the whole configuration is written.
Save(c) == cred' = c /\ saved' = c

\* Operators called Variant... are plausible mistakes in the operator that follows
\* each; no specification uses them. A property that a mistake does not break
\* would say nothing about the code.

\* The doubling without its cap.
VariantScheduleReconnect == due' = FALSE /\ interval' = 2 * interval

\* schedule_reconnect: the attempt is no longer due, the next wait is doubled.
ScheduleReconnect ==
    /\ due' = FALSE
    /\ interval' = IF 2 * interval < MaxInterval THEN 2 * interval
                                                 ELSE MaxInterval

ElGoto(pc) == el' = [el EXCEPT !.pc = pc]
WorkerGoto(pc) == worker' = [worker EXCEPT !.pc = pc]

\* A retried teardown that keeps the handle to retry it again.
VariantReapTwice(old, spawned) ==
    IF spawned
      THEN /\ reapers' = reapers \cup {[h |-> old, pc |-> "stop"]}
           /\ UNCHANGED pendingTd
      ELSE pendingTd' = old /\ UNCHANGED reapers

\* A failed spawn that forgets the handle.
VariantReapOnce(old, spawned) ==
    IF spawned
      THEN /\ reapers' = reapers \cup {[h |-> old, pc |-> "stop"]}
           /\ pendingTd' = NoHandle
      ELSE UNCHANGED <<reapers, pendingTd>>

\* reap_async(old) for a handle that is not null: a task takes the handle
\* over, or, if none can be created, it waits for the next tick.
ReapAsync(old, spawned) ==
    IF spawned
      THEN /\ reapers' = reapers \cup {[h |-> old, pc |-> "stop"]}
           /\ pendingTd' = NoHandle
      ELSE /\ pendingTd' = old
           /\ UNCHANGED reapers

\* clear_pending_tofu.
VariantClearPendingTofu == UNCHANGED pendingCa
ClearPendingTofu == pendingCa' = "none"

\* client_generation_.fetch_add(1): late events of a detached client become
\* stale.
VariantNextGeneration == generation
NextGeneration == (generation + 1) % Generations

\* connect() lets a teardown in flight finish first.
VariantBringUpDeferred == FALSE
BringUpDeferred == tearing

\* esp_websocket_client_is_connected(client_.load()).
IsOpen == client # NoHandle /\ cl[client].phase = "up"

-----------------------------------------------------------------------------
(***************************************************************************)
(* The event loop: the 100 ms callback of the constructor.                 *)
(***************************************************************************)

\* reap_async(pending_teardown_.load()), at the start of every tick.
TickReap(spawned) ==
    /\ el.pc = "idle"
    /\ IF pendingTd = NoHandle
         THEN spawned /\ UNCHANGED <<reapers, pendingTd>>
         ELSE ReapAsync(pendingTd, spawned)
    /\ ElGoto("conn")
    /\ UNCHANGED <<state, certError, client, generation, tearing, authJob,
                   interval, due, credVars, addr, worker, cl, envVars>>

\* connect(), its early returns and client_.exchange(nullptr) of
\* detach_teardown(). The state is read once: the transport task may move it
\* at any later step.
ConnectGuard ==
    /\ el.pc = "conn"
    /\ IF due /\ state \in Retryable /\ ~authJob
         THEN /\ el' = [pc  |-> IF client = NoHandle THEN "begin" ELSE "bump",
                        old |-> client]
              /\ client' = NoHandle
         ELSE ElGoto("send") /\ UNCHANGED client
    /\ UNCHANGED <<state, certError, generation, tearing, authJob, pendingTd,
                   interval, due, credVars, addr, worker, reapers, cl, envVars>>

\* detach_teardown() changes the generation.
BumpGeneration ==
    /\ el.pc = "bump"
    /\ generation' = NextGeneration
    /\ ElGoto("reap")
    /\ UNCHANGED <<state, certError, client, tearing, authJob, pendingTd,
                   interval, due, credVars, addr, worker, reapers, cl, envVars>>

\* A detached teardown that nothing waits for.
VariantDetachReap(spawned) ==
    /\ el.pc = "reap"
    /\ ReapAsync(el.old, spawned)
    /\ el' = [pc |-> "begin", old |-> NoHandle]
    /\ UNCHANGED <<state, certError, client, generation, tearing, authJob,
                   interval, due, credVars, addr, worker, cl, envVars>>

\* The end of detach_teardown(): teardown_in_progress_ and reap_async(old).
DetachReap(spawned) ==
    /\ el.pc = "reap"
    /\ tearing' = TRUE
    /\ ReapAsync(el.old, spawned)
    /\ el' = [pc |-> "begin", old |-> NoHandle]
    /\ UNCHANGED <<state, certError, client, generation, authJob, interval, due,
                   credVars, addr, worker, cl, envVars>>

\* The rest of connect(): wait for a teardown, clear the stash, schedule the
\* next attempt, wait for the network, claim the attempt.
BeginAttempt ==
    /\ el.pc = "begin"
    /\ IF BringUpDeferred
         THEN /\ ElGoto("send")
              /\ UNCHANGED <<state, certError, authJob, interval, due,
                             pendingCa>>
         ELSE /\ ClearPendingTofu
              /\ ScheduleReconnect
              /\ IF net
                   THEN /\ SetState("Authorizing", FALSE)
                        /\ authJob' = TRUE
                        /\ ElGoto("spawn")
                   ELSE ElGoto("send") /\ UNCHANGED <<state, certError,
                                                      authJob>>
    /\ UNCHANGED <<clientVars, cred, saved, addr, worker, cl, envVars>>

\* xTaskCreate of the connect worker, and the recovery when it fails.
SpawnWorker(spawned) ==
    /\ el.pc = "spawn"
    /\ IF spawned
         THEN /\ worker' = [pc |-> "resolve", h |-> NoHandle]
              /\ UNCHANGED <<state, certError, authJob>>
         ELSE /\ authJob' = FALSE
              /\ SetState("Disconnected", FALSE)
              /\ UNCHANGED worker
    /\ ElGoto("send")
    /\ UNCHANGED <<clientVars, interval, due, credVars, addr, cl, envVars>>

\* send_delta() with the first test alone.
VariantSendGuard ==
    /\ el.pc = "send"
    /\ ElGoto(IF state = "Connected" THEN "tx" ELSE "idle")
    /\ UNCHANGED <<state, certError, clientVars, authJob, interval, due,
                   credVars, addr, worker, cl, envVars>>

\* send_delta(), its two tests: the state, then the client itself.
SendGuard ==
    /\ el.pc = "send"
    /\ ElGoto(IF state # "Connected" THEN "idle"
              ELSE IF IsOpen THEN "tx" ELSE "drop")
    /\ UNCHANGED <<state, certError, clientVars, authJob, interval, due,
                   credVars, addr, worker, cl, envVars>>

\* send_delta() found the client no longer connected.
SendDrop ==
    /\ el.pc = "drop"
    /\ SetState("Disconnected", FALSE)
    /\ ElGoto("idle")
    /\ UNCHANGED <<clientVars, authJob, interval, due, credVars, addr, worker,
                   cl, envVars>>

\* The send of send_delta(). A send that makes no progress makes the client
\* library abort the connection and dispatch the disconnect on this task.
SendTx(aborts) ==
    /\ el.pc = "tx"
    /\ IF aborts
         THEN /\ IsOpen
              /\ cl' = [cl EXCEPT ![client].phase = "backoff"]
              /\ SetState("Disconnected", FALSE)
         ELSE UNCHANGED <<state, certError, cl>>
    /\ ElGoto("idle")
    /\ UNCHANGED <<clientVars, authJob, interval, due, credVars, addr, worker,
                   envVars>>

EventLoop ==
    \/ \E ok \in BOOLEAN : TickReap(ok)
    \/ ConnectGuard
    \/ BumpGeneration
    \/ \E ok \in BOOLEAN : DetachReap(ok)
    \/ BeginAttempt
    \/ \E ok \in BOOLEAN : SpawnWorker(ok)
    \/ SendGuard
    \/ SendDrop
    \/ \E aborts \in BOOLEAN : SendTx(aborts)

-----------------------------------------------------------------------------
(***************************************************************************)
(* The connect worker: run_connect_attempt and the requests it makes.      *)
(***************************************************************************)

\* A failure that leaves the state as it is.
VariantFail(rejected) == UNCHANGED <<state, certError>> /\ WorkerGoto("done")

\* An attempt that ends without a client: Disconnected, and the worker is done.
Fail(rejected) == SetState("Disconnected", rejected) /\ WorkerGoto("done")

\* tofu_verify_callback rejects only what differs from an anchor.
CanReject == sslBuild /\ cred.ssl /\ cred.anchor # "none"

\* What a handshake can stash: a CA stays that is stashed already, whichever
\* handshake saw it (has_pending_ca), unless the leaf replaces it.
Stashable(seen) == IF pendingCa \in {"ca", "old ca"} THEN seen \ {"ca"} ELSE seen

\* tofu_verify_callback. On first use it stashes a candidate. Against a pinned
\* leaf it drops the stash, or rejects the leaf after it has stashed a CA above
\* it. Nothing changes in a handshake that does not get so far, under a pinned
\* CA, or with TOFU switched off.
Verify(seen, rejected) ==
    \/ UNCHANGED pendingCa
    \/ /\ sslBuild /\ cred.ssl
       /\ \/ /\ cred.anchor = "none" /\ ~rejected
             /\ pendingCa' \in Stashable(seen)
          \/ /\ cred.anchor = "leaf"
             /\ pendingCa' \in IF rejected THEN Stashable(seen) \ {"leaf"} ELSE {"none"}

\* The address: get_mdns_service, which also settles ssl_enabled_ and keeps the
\* old address when it finds nothing; or the configured one, which is empty
\* until the user enters it.
Resolve(found, tls) ==
    /\ worker.pc = "resolve"
    /\ addr' = IF UseMdns THEN addr \/ found ELSE found
    /\ cred' = IF UseMdns /\ found THEN [cred EXCEPT !.ssl = tls] ELSE cred
    /\ IF addr' THEN WorkerGoto("probe") /\ UNCHANGED <<state, certError>>
                ELSE Fail(FALSE)
    /\ UNCHANGED <<clientVars, authJob, eventVars, saved, pendingCa, cl,
                   envVars>>

\* detect_ssl, and the choice of the leg: an access request to poll, a token
\* to ask for, a token to use (probed first when the build cannot see the
\* status of the upgrade).
Probe(redirected) ==
    /\ worker.pc = "probe"
    /\ IF ~cred.ssl /\ redirected THEN Save([cred EXCEPT !.ssl = TRUE])
                                  ELSE UNCHANGED <<cred, saved>>
    /\ WorkerGoto(IF cred.href THEN "poll"
                  ELSE IF ~cred.token THEN "access"
                  ELSE IF sslBuild THEN "build"
                  ELSE "test")
    /\ UNCHANGED <<state, certError, clientVars, authJob, eventVars, pendingCa,
                   addr, cl, envVars>>

\* send_access_request. 202, or 400 with the href of an earlier request: poll
\* it in the next attempt. 404: the server has no security. Anything else, or
\* no answer: retry later.
Access(answer) ==
    /\ worker.pc = "access"
    /\ answer \in {"href", "404", "other", "rejected"}
    /\ answer = "rejected" => CanReject
    /\ Verify({"http"}, answer = "rejected")
    /\ CASE answer = "href" -> Save([cred EXCEPT !.href = TRUE]) /\ Fail(FALSE)
         [] answer = "404"  -> /\ cred' = [cred EXCEPT !.token = FALSE]
                               /\ WorkerGoto("build")
                               /\ UNCHANGED <<saved, state, certError>>
         [] OTHER           -> Fail(answer = "rejected") /\ UNCHANGED <<cred,
                                                                        saved>>
    /\ UNCHANGED <<clientVars, authJob, eventVars, addr, cl, envVars>>

\* The answers to a poll that end the request.
VariantEndsRequest == {"completed", "404 or 500"}
EndsRequest == {"approved", "completed", "404 or 500"}

\* poll_access_request. A completed request forgets its href before anything
\* else is saved; 404 and 500 forget it too; every other answer keeps it.
Poll(answer) ==
    /\ worker.pc = "poll"
    /\ answer \in {"approved", "completed", "404 or 500", "other", "rejected"}
    /\ answer = "rejected" => CanReject
    /\ Verify({"http"}, answer = "rejected")
    /\ IF answer \in EndsRequest
         THEN Save([cred EXCEPT !.href = FALSE])
         ELSE UNCHANGED <<cred, saved>>
    /\ IF answer = "approved" THEN WorkerGoto("approved") /\ UNCHANGED <<state,
                                                                         certError>>
                              ELSE Fail(answer = "rejected")
    /\ UNCHANGED <<clientVars, authJob, eventVars, addr, cl, envVars>>

\* The rest of an approved poll: the token is stored in a second save.
StoreToken ==
    /\ worker.pc = "approved"
    /\ Save([cred EXCEPT !.token = TRUE])
    /\ tokenValid' = TRUE
    /\ WorkerGoto("build")
    /\ UNCHANGED <<state, certError, clientVars, authJob, eventVars, pendingCa,
                   addr, cl, net, sslBuild, web>>

\* What makes test_token ask for a new token.
VariantProbeRejects(answer) == FALSE
ProbeRejects(answer) == answer = "401"

\* test_token, the probe of a build without TLS: 426 means the token is valid,
\* 401 that a new one is needed.
TestToken(answer) ==
    /\ worker.pc = "test"
    /\ answer \in {"426", "401", "other"}
    /\ answer = "426" => tokenValid
    /\ answer = "401" => ~tokenValid
    /\ CASE answer = "426" -> /\ WorkerGoto("build")
                              /\ UNCHANGED <<cred, saved, state, certError>>
         [] ProbeRejects(answer) -> /\ Save([cred EXCEPT !.token = FALSE])
                                    /\ WorkerGoto("access")
                                    /\ UNCHANGED <<state, certError>>
         [] OTHER          -> Fail(FALSE) /\ UNCHANGED <<cred, saved>>
    /\ UNCHANGED <<clientVars, authJob, eventVars, pendingCa, addr, cl,
                   envVars>>

\* connect_ws: its guard against a client that was not reaped, or the switch
\* to Connecting.
ConnectWs(spawned) ==
    /\ worker.pc = "build"
    /\ IF client # NoHandle \/ tearing
         THEN /\ Fail(FALSE)
              /\ IF client = NoHandle
                   THEN UNCHANGED <<clientVars, pendingCa>>
                   ELSE /\ client' = NoHandle
                        /\ generation' = NextGeneration
                        /\ tearing' = TRUE
                        /\ ReapAsync(client, spawned)
                        /\ UNCHANGED pendingCa
         ELSE /\ spawned
              /\ ClearPendingTofu
              /\ SetState("Connecting", FALSE)
              /\ WorkerGoto("init")
              /\ UNCHANGED clientVars
    /\ UNCHANGED <<authJob, eventVars, cred, saved, addr, cl, envVars>>

\* esp_websocket_client_init, which fails for want of memory. The header with
\* the token is fixed for the life of this client.
InitClient(h) ==
    /\ worker.pc = "init"
    /\ IF h = NoHandle
         THEN Fail(FALSE) /\ UNCHANGED cl
         ELSE /\ cl[h].phase = "free"
              /\ cl' = [cl EXCEPT ![h] = [FreeClient EXCEPT !.phase = "init",
                                                            !.sent = cred.token]]
              /\ worker' = [pc |-> "store", h |-> h]
              /\ UNCHANGED <<state, certError>>
    /\ UNCHANGED <<clientVars, authJob, eventVars, credVars, addr, envVars>>

\* client_.store(h) and the event handler, tagged with the generation.
StoreClient ==
    /\ worker.pc = "store"
    /\ client' = worker.h
    /\ cl' = [cl EXCEPT ![worker.h].gen = generation]
    /\ WorkerGoto("start")
    /\ UNCHANGED <<state, certError, generation, tearing, pendingTd, reapers,
                   authJob, eventVars, credVars, addr, envVars>>

\* esp_websocket_client_start: a transport task runs, or the shared handle is
\* nulled before the client is freed.
StartClient(started) ==
    /\ worker.pc = "start"
    /\ IF started
         THEN /\ cl' = [cl EXCEPT ![worker.h].phase = "trying"]
              /\ worker' = [pc |-> "done", h |-> NoHandle]
              /\ UNCHANGED client
         ELSE /\ client' = NoHandle
              /\ WorkerGoto("destroy")
              /\ UNCHANGED cl
    /\ UNCHANGED <<state, certError, generation, tearing, pendingTd, reapers,
                   authJob, eventVars, credVars, addr, envVars>>

\* The end of a failed start.
DestroyUnstarted ==
    /\ worker.pc = "destroy"
    /\ cl' = [cl EXCEPT ![worker.h] = FreeClient]
    /\ worker' = [pc |-> "done", h |-> NoHandle]
    /\ SetState("Disconnected", FALSE)
    /\ UNCHANGED <<clientVars, authJob, eventVars, credVars, addr, envVars>>

\* The worker ends without saying so.
VariantWorkerExit ==
    /\ worker.pc = "done"
    /\ WorkerGoto("none")
    /\ UNCHANGED <<state, certError, clientVars, authJob, eventVars, credVars,
                   addr, cl, envVars>>

\* The end of connect_worker.
WorkerExit ==
    /\ worker.pc = "done"
    /\ authJob' = FALSE
    /\ WorkerGoto("none")
    /\ UNCHANGED <<state, certError, clientVars, eventVars, credVars, addr, cl,
                   envVars>>

Worker ==
    \/ \E found, tls \in BOOLEAN : Resolve(found, tls)
    \/ \E redirected \in BOOLEAN : Probe(redirected)
    \/ \E a \in {"href", "404", "other", "rejected"} : Access(a)
    \/ \E a \in {"approved", "completed", "404 or 500", "other", "rejected"} : Poll(a)
    \/ StoreToken
    \/ \E a \in {"426", "401", "other"} : TestToken(a)
    \/ \E ok \in BOOLEAN : ConnectWs(ok)
    \/ \E h \in Handles \cup {NoHandle} : InitClient(h)
    \/ StoreClient
    \/ \E ok \in BOOLEAN : StartClient(ok)
    \/ DestroyUnstarted
    \/ WorkerExit

-----------------------------------------------------------------------------
(***************************************************************************)
(* The transport task of client h (esp_websocket_client, external) and the *)
(* event handler it runs.                                                  *)
(***************************************************************************)

\* The transport task is between two events.
Quiet(h) == cl[h].at = "idle" /\ cl[h].queue = <<>>

\* The client's phase and the events it is about to dispatch.
Transport(h, phase, events) ==
    /\ Quiet(h)
    /\ cl' = [cl EXCEPT ![h].phase = phase, ![h].queue = events]

\* The upgrade is answered. A rejected token is 401; a tokenless client gets
\* in when the server has no security, and 401 otherwise.
UpgradeOk(h) ==
    /\ cl[h].phase = "trying"
    /\ cl[h].sent => tokenValid
    /\ Transport(h, "up", <<"connected">>)
    /\ Verify(Pins, FALSE)
    /\ UNCHANGED <<state, certError, clientVars, authJob, eventVars, cred,
                   saved, addr, worker, envVars>>

\* A build without TLS support is told neither the error nor its status.
UpgradeRefused(h) ==
    /\ cl[h].phase = "trying"
    /\ cl[h].sent => ~tokenValid
    /\ Transport(h, "backoff", IF sslBuild THEN <<"error401", "disconnected">>
                                           ELSE <<"disconnected">>)
    /\ Verify(Pins, FALSE)
    /\ UNCHANGED <<state, certError, clientVars, authJob, eventVars, cred,
                   saved, addr, worker, envVars>>

\* The connection cannot be made: its certificate is rejected, or something fails
\* before its handshake or after it. What the handshake has stashed stays.
UpgradeError(h, rejected) ==
    /\ cl[h].phase = "trying"
    /\ rejected => CanReject
    /\ Transport(h, "backoff", <<"error", "disconnected">>)
    /\ certError' = (certError \/ rejected)
    /\ Verify(Pins, rejected)
    /\ UNCHANGED <<state, clientVars, authJob, eventVars, cred, saved, addr,
                   worker, envVars>>

\* The client reconnects by itself after its own timeout. Nothing of the device
\* runs: a CA in the stash is there at the new handshake, now of an earlier one.
Reconnect(h) ==
    /\ cl[h].phase = "backoff" /\ ~cl[h].stop
    /\ Transport(h, "trying", <<>>)
    /\ pendingCa' = IF pendingCa = "ca" THEN "old ca" ELSE pendingCa
    /\ UNCHANGED <<state, certError, clientVars, authJob, eventVars, cred,
                   saved, addr, worker, envVars>>

\* An open connection is lost: by an error, by a close frame of the server, or
\* by a late TCP close of which no event tells.
Lose(h, phase, events) ==
    /\ cl[h].phase = "up"
    /\ <<phase, events>> \in {<<"backoff", <<"disconnected">> >>,
                             <<"closing", <<"closed">> >>, <<"closing", <<>> >>}
    /\ Transport(h, phase, events)
    /\ UNCHANGED <<state, certError, clientVars, authJob, eventVars, credVars,
                   addr, worker, envVars>>

\* The task ends, after a close of the server or because it is asked to.
TaskEnds(h) ==
    /\ \/ cl[h].phase = "closing"
       \/ cl[h].stop /\ cl[h].phase \in {"trying", "up", "backoff"}
    /\ Transport(h, "ended", <<>>)
    /\ UNCHANGED <<state, certError, clientVars, authJob, eventVars, credVars,
                   addr, worker, envVars>>

\* websocket_event_handler: an event of a client whose generation has passed
\* is dropped. The event is handled at a later step: the client can be
\* detached in between.
Dispatch(h) ==
    /\ cl[h].at = "idle" /\ cl[h].queue # <<>>
    /\ cl' = [cl EXCEPT ![h].queue = Tail(@),
                        ![h].at = IF cl[h].gen = generation
                                    THEN Head(cl[h].queue) ELSE "idle"]
    /\ UNCHANGED <<state, certError, clientVars, authJob, eventVars, credVars,
                   addr, worker, envVars>>

HandlerGoto(h, at) == cl' = [cl EXCEPT ![h].at = at]

\* on_disconnected.
OnDisconnected(h) ==
    /\ cl[h].at \in {"disconnected", "closed"}
    /\ SetState("Disconnected", FALSE)
    /\ HandlerGoto(h, "idle")
    /\ UNCHANGED <<clientVars, authJob, eventVars, credVars, addr, worker,
                   envVars>>

\* should_clear_token_on_status, for a token that is there to clear.
VariantShouldClear(event) == FALSE
ShouldClear(event) == event = "error401" /\ cred.token

\* on_error, its first half.
OnError(h) ==
    /\ cl[h].at \in {"error", "error401"}
    /\ SetState("Disconnected", FALSE)
    /\ HandlerGoto(h, IF ShouldClear(cl[h].at) THEN "clear" ELSE "idle")
    /\ UNCHANGED <<clientVars, authJob, eventVars, credVars, addr, worker,
                   envVars>>

\* on_error, its second half: the rejected token is forgotten.
ClearToken(h) ==
    /\ cl[h].at = "clear"
    /\ Save([cred EXCEPT !.token = FALSE])
    /\ interval' = MinInterval
    /\ HandlerGoto(h, "idle")
    /\ UNCHANGED <<state, certError, clientVars, authJob, due, el, pendingCa,
                   addr, worker, envVars>>

\* on_connected: the stashed anchor is committed, then the state and the
\* backoff are set.
OnConnected(h) ==
    /\ cl[h].at = "connected"
    /\ IF pendingCa = "none" THEN UNCHANGED <<cred, saved>>
                             ELSE Save([cred EXCEPT !.anchor = pendingCa])
    /\ pendingCa' = "none"
    /\ SetState("Connected", FALSE)
    /\ interval' = MinInterval
    /\ HandlerGoto(h, "subscribe")
    /\ UNCHANGED <<clientVars, authJob, due, el, addr, worker, net, tokenValid,
                   sslBuild, web>>

\* subscribe_listeners: the subscription is sent over whatever client_ holds
\* by then; the send may fail and abort the connection.
Subscribe(h, aborts) ==
    /\ cl[h].at = "subscribe"
    /\ IF aborts
         THEN /\ state = "Connected" /\ IsOpen
              /\ cl' = [cl EXCEPT ![client].phase = "backoff",
                                  ![client].queue = <<"disconnected">>,
                                  ![h].at = "idle"]
         ELSE HandlerGoto(h, "idle")
    /\ UNCHANGED <<state, certError, clientVars, authJob, eventVars, credVars,
                   addr, worker, envVars>>

Handler(h) ==
    \/ Dispatch(h)
    \/ OnDisconnected(h)
    \/ OnError(h)
    \/ ClearToken(h)
    \/ OnConnected(h)
    \/ \E aborts \in BOOLEAN : Subscribe(h, aborts)

TransportTask(h) ==
    \/ UpgradeOk(h)
    \/ UpgradeRefused(h)
    \/ \E rejected \in BOOLEAN : UpgradeError(h, rejected)
    \/ Reconnect(h)
    \/ \E p \in {"backoff", "closing"}, e \in {<<>>, <<"closed">>, <<"disconnected">>} :
          Lose(h, p, e)
    \/ TaskEnds(h)

-----------------------------------------------------------------------------
(***************************************************************************)
(* A teardown task.                                                        *)
(***************************************************************************)

\* esp_websocket_client_stop: the task is asked to end, unless it has begun
\* to end by itself.
ReaperStop(r) ==
    /\ r \in reapers /\ r.pc = "stop"
    /\ cl' = [cl EXCEPT ![r.h].stop = TRUE]
    /\ reapers' = (reapers \ {r}) \cup {[r EXCEPT !.pc = "join"]}
    /\ UNCHANGED <<state, certError, client, generation, tearing, pendingTd,
                   authJob, eventVars, credVars, addr, worker, net, tokenValid,
                   sslBuild, web>>

\* The task has ended: stop() joins it, and the grace period outlasts the end
\* of one that stopped by itself.
VariantJoined(r) == TRUE
Joined(r) == cl[r.h].phase = "ended"

\* Freed memory; an event handler that runs in it does not stop for that.
Freed(c) == [FreeClient EXCEPT !.at = c.at]

\* Then the client is freed.
ReaperDestroy(r) ==
    /\ r \in reapers /\ r.pc = "join"
    /\ Joined(r)
    /\ cl' = [cl EXCEPT ![r.h] = Freed(@)]
    /\ reapers' = (reapers \ {r}) \cup {[r EXCEPT !.pc = "clear"]}
    /\ UNCHANGED <<state, certError, client, generation, tearing, pendingTd,
                   authJob, eventVars, credVars, addr, worker, net, tokenValid,
                   sslBuild, web>>

\* teardown_in_progress_ is cleared and the task deletes itself.
ReaperExit(r) ==
    /\ r \in reapers /\ r.pc = "clear"
    /\ tearing' = FALSE
    /\ reapers' = reapers \ {r}
    /\ UNCHANGED <<state, certError, client, generation, pendingTd, authJob,
                   eventVars, credVars, addr, worker, cl, envVars>>

Reaper(r) == ReaperStop(r) \/ ReaperDestroy(r) \/ ReaperExit(r)

-----------------------------------------------------------------------------
(***************************************************************************)
(* The environment.                                                        *)
(***************************************************************************)

\* The backoff runs out.
BecomeDue ==
    /\ due' = TRUE
    /\ UNCHANGED <<state, certError, clientVars, authJob, interval, el,
                   credVars, addr, worker, cl, envVars>>

NetworkChanges ==
    /\ NetChanges
    /\ net' = ~net
    /\ UNCHANGED <<state, certError, clientVars, authJob, eventVars, credVars,
                   addr, worker, cl, tokenValid, sslBuild, web>>

\* The server stops accepting the token it issued.
TokenRevoked ==
    /\ tokenValid' = FALSE
    /\ UNCHANGED <<state, certError, clientVars, authJob, eventVars, credVars,
                   addr, worker, cl, net, sslBuild, web>>

\* The device restarts: only the configuration file survives.
Reboot ==
    /\ CanReboot
    /\ cred' = saved
    /\ state' = "Disconnected" /\ certError' = FALSE
    /\ client' = NoHandle /\ generation' = 0 /\ tearing' = FALSE
    /\ pendingTd' = NoHandle /\ reapers' = {}
    /\ authJob' = FALSE
    /\ interval' = MinInterval /\ due' = TRUE
    /\ pendingCa' = "none" /\ addr' = FALSE
    /\ el' = [pc |-> "idle", old |-> NoHandle]
    /\ worker' = [pc |-> "none", h |-> NoHandle]
    /\ cl' = [h \in Handles |-> FreeClient]
    /\ UNCHANGED <<saved, envVars>>

-----------------------------------------------------------------------------
(***************************************************************************)
(* The HTTP task, at the requests of the settings page of the browser. The *)
(* page sends back everything it was shown, and is not shown it again.     *)
(***************************************************************************)
\* A worker is making an attempt.
Attempting == worker.pc \notin {"none", "done"}

\* What the page writes replaces the credentials and is saved. (A page that may
\* write no more is forgotten.)
WebWrites(page, c) ==
    /\ web.edits < MaxEdits
    /\ Save(c)
    /\ web' = [page |-> IF web.edits + 1 < MaxEdits THEN page ELSE NoPage,
               edits |-> web.edits + 1,
               disturbed |-> web.disturbed \/ Attempting]
    /\ UNCHANGED <<state, certError, clientVars, authJob, eventVars, pendingCa,
                   addr, worker, cl, net, tokenValid, sslBuild>>

\* GET: to_json, as often as the user reloads the page.
PageLoads ==
    /\ web.edits < MaxEdits
    /\ web' = [web EXCEPT !.page = [token |-> cred.token, href |-> cred.href,
                                     anchor |-> cred.anchor]]
    /\ UNCHANGED <<state, certError, clientVars, authJob, eventVars, credVars,
                   addr, worker, cl, net, tokenValid, sslBuild>>

\* PUT: from_json and save(), with the TLS switch as the user left it and the
\* token as it was shown or, by the button that clears it, none.
PageSaves(ssl, clears) ==
    /\ web.page # NoPage
    /\ LET edited == [web.page EXCEPT !.token = @ /\ ~clears]
       IN  WebWrites(edited, [token |-> edited.token, href |-> edited.href,
                              ssl |-> ssl, anchor |-> edited.anchor])

\* POST: reset_tofu, which the page offers when it was shown an anchor.
ResetTofu ==
    /\ web.page # NoPage /\ web.page.anchor # "none"
    /\ WebWrites(web.page, [cred EXCEPT !.anchor = "none"])

Browser ==
    \/ PageLoads
    \/ \E ssl, clears \in BOOLEAN : PageSaves(ssl, clears)
    \/ ResetTofu

-----------------------------------------------------------------------------
Next ==
    \/ EventLoop
    \/ Worker
    \/ \E h \in Handles : TransportTask(h) \/ Handler(h)
    \/ \E r \in reapers : Reaper(r)
    \/ BecomeDue
    \/ NetworkChanges
    \/ TokenRevoked
    \/ Reboot
    \/ Browser

Spec == Init /\ [][Next]_vars

(***************************************************************************)
(* Fairness. Every task that can run runs (FreeRTOS schedules them all); a *)
(* request is answered or times out; a stopped transport task ends; the    *)
(* backoff runs out; and memory for a teardown task is found in the end.   *)
(***************************************************************************)
Upgrade(h) ==
    \/ UpgradeOk(h)
    \/ UpgradeRefused(h)
    \/ \E rejected \in BOOLEAN : UpgradeError(h, rejected)

Fairness ==
    /\ WF_vars(EventLoop)
    /\ WF_vars(Worker)
    /\ \A h \in Handles :
        WF_vars(Upgrade(h)) /\ WF_vars(TaskEnds(h)) /\ WF_vars(Handler(h))
    /\ WF_vars(\E r \in reapers : Reaper(r))
    /\ WF_vars(BecomeDue)
    /\ SF_vars(pendingTd # NoHandle /\ TickReap(TRUE))

FairSpec == Spec /\ Fairness

-----------------------------------------------------------------------------
(***************************************************************************)
(* Properties.                                                             *)
(***************************************************************************)

\* Every variable has its type.
TypeOK ==
    /\ state \in States /\ certError \in BOOLEAN
    /\ client \in Handles \cup {NoHandle}
    /\ pendingTd \in Handles \cup {NoHandle}
    /\ generation \in 0..(Generations - 1)
    /\ tearing \in BOOLEAN /\ authJob \in BOOLEAN
    /\ interval \in MinInterval..MaxInterval /\ due \in BOOLEAN
    /\ cred \in Creds /\ saved \in Creds /\ pendingCa \in Anchors
    /\ addr \in BOOLEAN /\ net \in BOOLEAN /\ tokenValid \in BOOLEAN
    /\ sslBuild \in BOOLEAN
    /\ el \in [pc : ElPcs, old : Handles \cup {NoHandle}]
    /\ worker \in [pc : WorkerPcs, h : Handles \cup {NoHandle}]
    /\ reapers \subseteq [h : Handles, pc : ReaperPcs]
    /\ cl \in [Handles -> Clients]
    /\ web \in Webs

\* Who must free client h: client_ itself, the event loop between the exchange
\* of detach_teardown and the teardown task, pending_teardown_, the worker
\* before it stores the handle or after it takes it back, or a teardown task.
Owners(h) ==
    {o \in [h : {h}, pc : {"client_", "detach", "pending", "worker"}] :
        \/ o.pc = "client_" /\ client = h
        \/ o.pc = "detach" /\ el.old = h
        \/ o.pc = "pending" /\ pendingTd = h
        \/ o.pc = "worker" /\ worker.h = h /\ worker.pc \in {"store", "destroy"}}
    \cup {r \in reapers : r.h = h /\ r.pc # "clear"}

\* Every websocket client in memory is owned by exactly one party, and freed
\* memory by none: no client is leaked, freed twice or used after it is freed,
\* whatever spawn fails and whenever a connection drops (the handling of
\* client_, pending_teardown_ and the teardown task).
OwnedOnce ==
    \A h \in Handles :
        IF cl[h].phase = "free" THEN Owners(h) = {}
                                ELSE \E o \in Owners(h) : Owners(h) = {o}

\* "At most one client ever exists": bring-up waits for the teardown of the
\* previous client (teardown_in_progress_ and its comment).
AtMostOneClient ==
    \A g, h \in Handles :
        cl[g].phase # "free" /\ cl[h].phase # "free" => g = h

\* While a worker is in the legs of an attempt no other task moves the
\* connection state, and none but the HTTP task the credentials: an old client
\* cannot disturb a new attempt (auth_job_running_, teardown_in_progress_ and
\* the join of stop()). from_json takes none of these guards.
AttemptOwnsState ==
    [][Attempting /\ worker' = worker
         => /\ UNCHANGED <<state, certError>>
            /\ UNCHANGED cred \/ web'.disturbed]_vars

\* An event handler past the generation test belongs to the client that
\* client_ holds, or to one whose teardown has yet to be joined: a handler never
\* runs for a client that is freed (websocket_event_handler, teardown_task).
HandlerAlive ==
    \A h \in Handles :
        cl[h].at # "idle" => cl[h].phase \in {"up", "backoff", "closing"}

\* An event of a detached client enters the handler only in the gap between
\* the exchange of client_ and the generation bump of detach_teardown.
LateEventsDropped ==
    [][\A h \in Handles :
         cl[h].at = "idle" /\ cl'[h].at # "idle" => client = h \/ el.old = h]_vars

\* A pending access request and a token never coexist, in memory or in the
\* file, whatever a restart interrupts and however old the page is that writes
\* them: poll_access_request comes first, so a device with both would ignore its
\* token. Only a page that saves in the middle of an attempt can bring back the
\* one while the worker is about to store the other.
HrefExcludesToken ==
    \/ web.disturbed
    \/ /\ ~(cred.href /\ cred.token)
       /\ ~(saved.href /\ saved.token)

\* What an HTTP request saw of a certificate is never pinned, although it is
\* stashed where the websocket handshake stashes its own and on_connected commits
\* whatever is there (connect, connect_ws and their clear_pending_tofu).
AnchorFromWebSocket == cred.anchor # "http" /\ saved.anchor # "http"

\* "Only the WebSocket handshake -- the one whose success reaches on_connected and
\* proves the server holds the leaf's private key -- may populate the anchor that
\* gets committed" (connect_ws). Not so for a CA: one that was stashed by a
\* handshake whose upgrade failed survives the client's own reconnection, which
\* clears nothing, and the next handshake does not replace it (has_pending_ca).
CaOfLastHandshake == cred.anchor # "old ca"

\* No attempt hangs: Authorizing and Connecting are left, because the worker
\* ends in a state of its own or starts a client whose first outcome is heard
\* (the catch-all of poll_access_request, the recovery in connect()).
AttemptEnds ==
    state \in {"Authorizing", "Connecting"} ~> state \notin {"Authorizing", "Connecting"}

\* A teardown always ends, even when its task cannot be created at first: it is
\* not left holding back every later attempt (reap_async, pending_teardown_).
TeardownEnds == tearing ~> ~tearing

\* Connected never outlives the connection: a client that closed without an
\* event, or was detached under a late on_connected, is noticed (send_delta).
ConnectedIsReal ==
    state = "Connected" /\ ~IsOpen ~> state # "Connected" \/ IsOpen

\* While the network stays up a disconnected device starts another attempt or
\* is connected by its client; no teardown, worker or error keeps it from it.
Retries ==
    <>[]net => (state \in Retryable ~> state \in {"Authorizing", "Connected"})

\* The server is found, memory is found, and the server tells the first upgrade
\* of a client, or the probe, what it thinks of the token: not always, but again
\* and again.
Luck ==
    /\ <>[]net
    /\ SF_vars(SpawnWorker(TRUE))
    /\ SF_vars(\E tls \in BOOLEAN : Resolve(TRUE, tls))
    /\ SF_vars(\E h \in Handles : InitClient(h))
    /\ SF_vars(StartClient(TRUE))
    /\ SF_vars(TestToken("401"))
    /\ \A h \in Handles : SF_vars(state = "Connecting" /\ UpgradeRefused(h))

\* A token the server no longer accepts is given up, so that access can be
\* asked for again (on_error on a 401, test_token), unless a connection made
\* with it lives on.
TokenIsReplaced ==
    Luck => (cred.token /\ ~cred.href /\ ~tokenValid
                ~> ~cred.token \/ tokenValid \/ state = "Connected")

=============================================================================
