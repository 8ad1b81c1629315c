------------------------------ MODULE MCNetwork ------------------------------
(***************************************************************************)
(* Three parts of the device that deal with its network, checked one at a  *)
(* time: the value of "unit", chosen in the initial state, says which one  *)
(* takes steps; the variables of the others keep their initial values.     *)
(***************************************************************************)
EXTENDS WiFiWatchdog, StatusController, Failover

CONSTANTS n1, n2

\* One valid slot after an empty one, whose network is slow, or is not; two valid
\* slots with an empty one between; the same with the slow network first.
MCSlotLists ==
    {<<Empty, n1, Empty>>, <<Empty, n2, Empty>>, <<n2, Empty, n1>>,
     <<n1, n2, Empty>>}

MCSlots == {[i \in 0..2 |-> l[i + 1]] : l \in MCSlotLists}

VARIABLE unit

watchdogOnly ==
    <<now, armed, down, downSince, timeout, restart, late, wasUp, outage>>
statusOnly == <<queueVars, clientState, storing, status>>

vars == <<unit, netVars, watchdogOnly, statusOnly, failoverVars>>

NotWatchdog == UNCHANGED <<unit, statusOnly, failoverVars>>
NotStatus == UNCHANGED <<unit, watchdogOnly, failoverVars>>
NotFailover == UNCHANGED <<unit, netVars, watchdogOnly, statusOnly>>

Watchdog(A) == unit = "watchdog" /\ A /\ NotWatchdog
Status(A) == unit = "status" /\ A /\ NotStatus
Provisioner(A) == unit = "failover" /\ A /\ NotFailover

\* The parts that do not move start in one state.
Init ==
    /\ unit \in {"watchdog", "status", "failover"}
    /\ WatchdogInit /\ StatusInit /\ FailoverInit
    /\ unit # "watchdog" => timeout = 1
    /\ unit # "failover" =>
         air = {} /\ ~enabled /\ slots = CHOOSE l \in SlotLists : TRUE

Next ==
    \/ Watchdog(WatchdogNext)
    \/ Status(StatusNext)
    \/ Provisioner(FailoverNext)

Fairness ==
    /\ WF_vars(Watchdog(OnNetworkState))
    /\ WF_vars(Watchdog(Poll))
    /\ WF_vars(Watchdog(RestartEvent))
    /\ WF_vars(Watchdog(Second))
    /\ WF_vars(Status(NetworkObserved))
    /\ WF_vars(Status(ConnectionObserved))
    /\ WF_vars(Status(TransportQueues))
    /\ WF_vars(Provisioner(TickConnected))
    /\ WF_vars(Provisioner(TickReconnect))
    /\ WF_vars(Provisioner(Associated))

Spec == Init /\ [][Next]_vars /\ Fairness

\* What the status LED was told is true once the event loop has caught up
\* (CaughtUp of StatusController); the provisioner joins what it applied, and a
\* network in range in the end (AppliedIsJoined and ConnectsInTheEnd of Failover).
NetworkServed ==
    /\ []CaughtUp /\ []AppliedIsJoined
    /\ unit = "failover" => ConnectsInTheEnd
=============================================================================
