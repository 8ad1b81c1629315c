---------------------------- MODULE NetworkState ----------------------------
(***************************************************************************)
(* What a device knows of its network: NetworkStateProducer                *)
(* (src/sensesp/net/network_state.cpp).                                    *)
(*                                                                         *)
(* The network drivers report events on a task of their own. The callback  *)
(* of an event only defers the emission of a state to the event loop,      *)
(* which takes the deferred emissions in order, so that observers run in   *)
(* one task. When the soft AP stops, the callback asks the driver whether  *)
(* the station is up, which may have changed since the event.              *)
(***************************************************************************)
EXTENDS Naturals, Sequences

CONSTANTS
    MaxDeferred  \* bound on the emissions that wait for the event loop

ASSUME DeferredAssumption == MaxDeferred \in Nat \ {0}

VARIABLES
    station,  \* the station has an address (WiFi.isConnected(), or Ethernet)
    softAp,   \* the soft AP runs
    apEvents, \* "AP stop" events whose callback has not run yet
    deferred, \* the states to emit, oldest first
    netState  \* output_ of the producer

netVars == <<station, softAp, apEvents, deferred, netState>>

NetStates == {"NoAP", "Disconnected", "Connected", "APMode"}

NetTypeOK ==
    /\ station \in BOOLEAN /\ softAp \in BOOLEAN
    /\ apEvents \in 0..1
    /\ deferred \in Seq(NetStates) /\ Len(deferred) <= MaxDeferred
    /\ netState \in NetStates

\* The constructor defers one emission of the initial state.
NetInit ==
    /\ station = FALSE /\ softAp = FALSE /\ apEvents = 0
    /\ deferred = <<"NoAP">> /\ netState = "NoAP"

\* defer_emit: one more emission waits for the event loop.
DeferEmit(s) ==
    /\ Len(deferred) < MaxDeferred
    /\ deferred' = Append(deferred, s)

GotIp ==
    /\ station' = TRUE
    /\ DeferEmit("Connected")
    /\ UNCHANGED <<softAp, apEvents, netState>>

\* The station or the Ethernet link is lost, or an attempt of it failed.
StaDisconnected ==
    /\ station' = FALSE
    /\ DeferEmit("Disconnected")
    /\ UNCHANGED <<softAp, apEvents, netState>>

ApStart ==
    /\ ~softAp /\ softAp' = TRUE
    /\ DeferEmit("APMode")
    /\ UNCHANGED <<station, apEvents, netState>>

ApStop ==
    /\ softAp /\ apEvents = 0
    /\ softAp' = FALSE
    /\ apEvents' = 1
    /\ UNCHANGED <<station, deferred, netState>>

\* Stopping the soft AP is not an outage while the station is up.
ApStopCallback ==
    /\ apEvents = 1 /\ apEvents' = 0
    /\ IF station THEN UNCHANGED deferred ELSE DeferEmit("Disconnected")
    /\ UNCHANGED <<station, softAp, netState>>

Drivers == GotIp \/ StaDisconnected \/ ApStart \/ ApStop \/ ApStopCallback

\* The event loop runs the oldest deferred emission; observers run with it.
Emit ==
    /\ deferred # <<>>
    /\ netState' = Head(deferred)
    /\ deferred' = Tail(deferred)
    /\ UNCHANGED <<station, softAp, apEvents>>
=============================================================================
