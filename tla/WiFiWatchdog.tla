---------------------------- MODULE WiFiWatchdog ----------------------------
(***************************************************************************)
(* The restart after a long outage: WiFiWatchdog and WiFiWatchdogPolicy    *)
(* (src/sensesp/system/wifi_watchdog.cpp, wifi_watchdog_policy.h), fed by  *)
(* NetworkState.                                                           *)
(*                                                                         *)
(* The policy arms when a link first comes up, and remembers when the link *)
(* went down. The event loop polls it every second. When a restart is due, *)
(* it is delayed by a second and asked for again before it happens, since  *)
(* the link may be back or the timeout raised meanwhile (by the HTTP task).*)
(* Times are read from millis(), a word that wraps; here it counts seconds *)
(* modulo Clock.                                                           *)
(***************************************************************************)
EXTENDS NetworkState, Integers

CONSTANTS
    Clock,       \* how many values millis() has
    MaxTimeout,  \* kMaxTimeoutS
    MaxLate,     \* bound on the seconds a poll may come late
    MaxOutage    \* bound on the history variable outage

ASSUME ClockAssumption ==
    /\ Clock \in Nat /\ MaxTimeout \in Nat \ {0} /\ MaxOutage \in Nat
    /\ MaxLate \in Nat
    /\ MaxTimeout + MaxLate + 1 < Clock /\ MaxTimeout <= MaxOutage

VARIABLES
    now,       \* millis()
    armed,     \* armed_
    down,      \* down_
    downSince, \* down_since_ms_
    timeout,   \* timeout_s_, kept in flash
    restart,   \* restart_event_: "none", "wait" or "due"
    late,      \* seconds since the last poll
    wasUp,     \* history: a link was up since the device booted
    outage     \* history: for how long the network has been reported down

policyVars == <<armed, down, downSince, wasUp>>
watchdogVars ==
    <<netVars, now, armed, down, downSince, timeout, restart, late, wasUp, outage>>

WatchdogTypeOK ==
    /\ NetTypeOK
    /\ now \in 0..Clock - 1 /\ downSince \in 0..Clock - 1
    /\ armed \in BOOLEAN /\ down \in BOOLEAN /\ wasUp \in BOOLEAN
    /\ timeout \in 1..MaxTimeout
    /\ restart \in {"none", "wait", "due"}
    /\ late \in 0..MaxLate + 1
    /\ outage \in 0..MaxOutage

Booted ==
    /\ now = 0 /\ armed = FALSE /\ down = FALSE /\ downSince = 0
    /\ restart = "none" /\ late = 0 /\ wasUp = FALSE /\ outage = 0

WatchdogInit == NetInit /\ Booted /\ timeout \in 1..MaxTimeout

\* wifi_watchdog_link_from_state.
LinkOf(s) ==
    CASE s = "Connected" -> "up"
      [] s \in {"NoAP", "Disconnected"} -> "down"
      [] OTHER -> "neutral"

\* Modular subtraction of two readings of the clock.
Elapsed(t, since) == IF t >= since THEN t - since ELSE t - since + Clock

\* A mistake: every report of an outage begins it anew.
VariantSetLinkState(link) ==
    /\ armed' = (armed \/ link = "up")
    /\ down' = (link = "down")
    /\ downSince' = IF link = "down" THEN now ELSE downSince

\* set_link_state. A repeated report of an outage keeps its beginning.
SetLinkState(link) ==
    /\ armed' = (armed \/ link = "up")
    /\ down' = (link = "down")
    /\ downSince' = IF link = "down" /\ ~down THEN now ELSE downSince

\* on_network_state, an observer of the producer: a network that is back
\* cancels the restart.
OnNetworkState ==
    /\ Emit
    /\ LET link == LinkOf(netState') IN
        /\ SetLinkState(link)
        /\ restart' = IF link = "up" THEN "none" ELSE restart
        /\ wasUp' = (wasUp \/ link = "up")
        /\ outage' = IF link = "down" /\ LinkOf(netState) = "down" THEN outage ELSE 0
    /\ UNCHANGED <<now, timeout, late>>

\* A mistake: the clock is compared with a deadline that may have wrapped.
VariantRestartDue == armed /\ down /\ now >= (downSince + timeout) % Clock

\* restart_due.
RestartDue == armed /\ down /\ Elapsed(now, downSince) >= timeout

\* poll.
Poll ==
    /\ late > 0
    /\ restart' = IF restart = "none" /\ RestartDue THEN "wait" ELSE restart
    /\ late' = 0
    /\ UNCHANGED <<netVars, policyVars, now, timeout, outage>>

\* The delayed event of poll: restart_due is asked again.
RestartFires ==
    /\ restart = "due"
    /\ restart' = "none"
    /\ ~RestartDue
    /\ UNCHANGED <<netVars, policyVars, now, timeout, late, outage>>

\* ESP.restart(): memory is lost, the timeout in flash is loaded again.
Restarts ==
    /\ restart = "due"
    /\ RestartDue
    /\ station' = FALSE /\ softAp' = FALSE /\ apEvents' = 0
    /\ deferred' = <<"NoAP">> /\ netState' = "NoAP"
    /\ now' = 0 /\ armed' = FALSE /\ down' = FALSE /\ downSince' = 0
    /\ restart' = "none" /\ late' = 0 /\ wasUp' = FALSE /\ outage' = 0
    /\ UNCHANGED timeout

\* from_json, from the HTTP task: an invalid timeout is refused.
SetTimeout(t) ==
    /\ t \in 1..MaxTimeout
    /\ timeout' = t
    /\ UNCHANGED <<netVars, policyVars, now, restart, late, outage>>

\* A second passes. A poll, or a restart, is never more than MaxLate late.
Second ==
    /\ late <= MaxLate /\ restart # "due"
    /\ now' = (now + 1) % Clock
    /\ late' = late + 1
    /\ restart' = IF restart = "wait" THEN "due" ELSE restart
    /\ outage' = IF LinkOf(netState) = "down" /\ outage < MaxOutage
                 THEN outage + 1 ELSE outage
    /\ UNCHANGED <<netVars, policyVars, timeout>>

NetworkEvent ==
    /\ Drivers
    /\ UNCHANGED <<now, policyVars, timeout, restart, late, outage>>

RestartEvent == RestartFires \/ Restarts

WatchdogNext ==
    \/ OnNetworkState \/ Poll \/ RestartEvent
    \/ NetworkEvent
    \/ Second
    \/ \E t \in 0..MaxTimeout + 1 : SetTimeout(t)

WatchdogFairness ==
    /\ WF_watchdogVars(OnNetworkState)
    /\ WF_watchdogVars(Poll)
    /\ WF_watchdogVars(RestartEvent)
    /\ WF_watchdogVars(Second)

WatchdogSpec == WatchdogInit /\ [][WatchdogNext]_watchdogVars

-----------------------------------------------------------------------------
(* Properties. *)

\* The device restarts itself only when the network has been reported down,
\* without interruption, for as long as the timeout says at that moment, and
\* only if it ever had a network (WiFiWatchdogPolicy: "a wrap of the clock
\* during an outage does not fire early"; "a device that boots without a
\* reachable access point keeps running").
RestartJustified ==
    [][Restarts => wasUp /\ outage >= timeout]_watchdogVars

\* An outage of a network the device once had does not last for ever, however
\* often the timeout is changed: poll and the delayed event see it in time, on
\* a clock that wraps.
OutageEnds == []<>~(armed /\ LinkOf(netState) = "down")
=============================================================================
