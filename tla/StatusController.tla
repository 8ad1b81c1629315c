-------------------------- MODULE StatusController --------------------------
(***************************************************************************)
(* What the status LED shows: SystemStatusController                       *)
(* (src/sensesp/controllers/system_status_controller.h), told of the       *)
(* network by NetworkState and of the websocket connection by SKWSClient.  *)
(*                                                                         *)
(* The client's tasks change its state and queue it for the event loop;    *)
(* network drivers do the same with theirs. The controller's status        *)
(* therefore depends on the order in which the event loop takes two streams*)
(* of old news. The client itself is modelled here only by the order of    *)
(* its states (WsClient has the whole of it).                              *)
(***************************************************************************)
EXTENDS NetworkState, TaskQueue  \* the queue and output of connection_state_

VARIABLES
    clientState,  \* task_connection_state_
    storing,      \* set_connection_state in the websocket's own task: the
                  \* state stored and not yet queued, or "none"
    status        \* current_state_

ConnectionStates ==
    {"Disconnected", "Authorizing", "Connecting", "Connected", "CertificateError"}

statusVars == <<netVars, queueVars, clientState, storing, status>>

NoNetwork == {"WifiNoAP", "WifiDisconnected", "WifiManagerActivated"}
Statuses ==
    NoNetwork \cup {"SKWSDisconnected", "SKWSAuthorizing", "SKWSConnecting", "SKWSConnected"}

StatusTypeOK ==
    /\ NetTypeOK /\ QueueTypeOK(ConnectionStates)
    /\ clientState \in ConnectionStates
    /\ storing \in ConnectionStates \cup {"none"}
    /\ status \in Statuses

StatusInit ==
    /\ NetInit /\ QueueInit("Disconnected")
    /\ clientState = "Disconnected" /\ storing = "none"
    /\ status = "WifiNoAP"

-----------------------------------------------------------------------------
(* The client's tasks. set_connection_state stores the state and then queues *)
(* it; the worker's two steps may have the websocket task's between them, and *)
(* the other way round.                                                      *)

\* is_connected() of the provisioner: an address, or a soft AP.
IsConnected == station \/ softAp

\* The states in which a task may set the state s.
Precedes(s) ==
    CASE s = "Authorizing" -> {"Disconnected", "CertificateError"}
      [] s = "Connecting" -> {"Authorizing"}
      [] s = "Connected" -> {"Connecting"}
      [] OTHER -> ConnectionStates

\* The worker sets a state.
WorkerSets(s) ==
    /\ s # "Connected" /\ clientState \in Precedes(s)
    /\ s = "Authorizing" => IsConnected
    /\ clientState' = s
    /\ Push(s)
    /\ UNCHANGED <<netVars, storing, status>>

\* The websocket's own task (on_connected, on_disconnected, on_error) stores a
\* state ...
TransportStores(s) ==
    /\ storing = "none"
    /\ s \notin {"Authorizing", "Connecting"} /\ clientState \in Precedes(s)
    /\ clientState' = s /\ storing' = s
    /\ UNCHANGED <<netVars, queueVars, status>>

\* ... and queues it.
TransportQueues ==
    /\ storing # "none"
    /\ Push(storing)
    /\ storing' = "none"
    /\ UNCHANGED <<netVars, clientState, status>>

-----------------------------------------------------------------------------
(* The event loop. *)

\* set_wifi_state.
StatusOfNetwork(s) ==
    CASE s = "NoAP" -> "WifiNoAP"
      [] s = "Disconnected" -> "WifiDisconnected"
      [] s \in {"Connected", "APMode"} -> "SKWSDisconnected"

\* set_sk_ws_connection_state.
StatusOfConnection(s) ==
    CASE s \in {"Disconnected", "CertificateError"} ->
             IF status \in NoNetwork THEN status ELSE "SKWSDisconnected"
      [] s = "Connecting" -> "SKWSConnecting"
      [] s = "Authorizing" -> "SKWSAuthorizing"
      [] s = "Connected" -> "SKWSConnected"

NetworkObserved ==
    /\ Emit
    /\ status' = StatusOfNetwork(netState')
    /\ UNCHANGED <<queueVars, clientState, storing>>

ConnectionObserved ==
    /\ Pop
    /\ status' = StatusOfConnection(output')
    /\ UNCHANGED <<netVars, clientState, storing>>

StatusNetworkEvent ==
    /\ Drivers
    /\ UNCHANGED <<queueVars, clientState, storing, status>>

StatusNext ==
    \/ NetworkObserved \/ ConnectionObserved
    \/ StatusNetworkEvent
    \/ \E s \in ConnectionStates : WorkerSets(s) \/ TransportStores(s)
    \/ TransportQueues

StatusFairness ==
    /\ WF_statusVars(NetworkObserved) /\ WF_statusVars(ConnectionObserved)
    /\ WF_statusVars(TransportQueues)

StatusSpec == StatusInit /\ [][StatusNext]_statusVars

-----------------------------------------------------------------------------
(* Properties. *)

\* Where the event loop has caught up, what the controller was told is true: the
\* LED shows a connection only if that is the last state queued, whatever a full
\* queue dropped and the network did; and the network state is "Connected" only
\* with an address, "Disconnected" only without, although the callback for the
\* soft AP asks the driver later than the event.
CaughtUp ==
    /\ queue = <<>> /\ status = "SKWSConnected" => lastSet = "Connected"
    /\ deferred = <<>> =>
         /\ netState = "Connected" => station
         /\ netState \in {"NoAP", "Disconnected"} => ~station

\* When the last state that was queued is, for good, not "Connected", the LED
\* stops showing a connection, however many states the full queue dropped and
\* whatever the network did meanwhile.
NoStaleConnected ==
    <>[](lastSet # "Connected") => <>[](status # "SKWSConnected")
=============================================================================
