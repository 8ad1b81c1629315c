---------------------------- MODULE Network_proofs ----------------------------
(***************************************************************************)
(* Proofs about WiFiWatchdog for every width of its clock, every range of  *)
(* timeouts and every number of deferred emissions; about StatusController *)
(* for every size of its queue; and about Failover for all lists of slots. *)
(***************************************************************************)
EXTENDS WiFiWatchdog, StatusController, Failover, SequenceTheorems,
        WellFoundedInduction, TLAPS

Links == {"up", "down", "neutral"}

-----------------------------------------------------------------------------
(* Lemmas about the network and the clock. *)

LEMMA LinkType == \A s \in NetStates : LinkOf(s) \in Links
BY DEF NetStates, LinkOf, Links

\* A deferred emission is a state, and they never are more than there is room for.
LEMMA DeferType ==
    ASSUME NetTypeOK, NEW s \in NetStates, DeferEmit(s)
    PROVE  deferred' \in Seq(NetStates) /\ Len(deferred') <= MaxDeferred
BY DeferredAssumption DEF NetTypeOK, DeferEmit

LEMMA DriversType == NetTypeOK /\ Drivers => NetTypeOK'
<1> SUFFICES ASSUME NetTypeOK, Drivers PROVE NetTypeOK'
  OBVIOUS
<1>1. CASE GotIp
  BY <1>1, DeferType DEF GotIp, NetTypeOK, NetStates
<1>2. CASE StaDisconnected
  BY <1>2, DeferType DEF StaDisconnected, NetTypeOK, NetStates
<1>3. CASE ApStart
  BY <1>3, DeferType DEF ApStart, NetTypeOK, NetStates
<1>4. CASE ApStop
  <2>1. station' \in BOOLEAN /\ softAp' \in BOOLEAN
    BY <1>4, Zenon DEF ApStop, NetTypeOK
  <2>2. apEvents' \in 0..1
    BY <1>4 DEF ApStop
  <2> QED BY <1>4, <2>1, <2>2 DEF ApStop, NetTypeOK
<1>5. CASE ApStopCallback
  <2>1. deferred' \in Seq(NetStates) /\ Len(deferred') <= MaxDeferred
    <3>1. CASE station
      BY <1>5, <3>1 DEF ApStopCallback, NetTypeOK
    <3>2. CASE ~station
      <4>1. DeferEmit("Disconnected")
        BY <1>5, <3>2 DEF ApStopCallback
      <4> QED BY <4>1, DeferType DEF NetStates
    <3> QED BY <3>1, <3>2
  <2> QED BY <1>5, <2>1 DEF ApStopCallback, NetTypeOK
<1> QED BY <1>1, <1>2, <1>3, <1>4, <1>5 DEF Drivers

LEMMA EmitType == NetTypeOK /\ Emit => NetTypeOK'
<1> SUFFICES ASSUME NetTypeOK, Emit PROVE NetTypeOK'
  OBVIOUS
<1>1. deferred \in Seq(NetStates) /\ deferred # <<>> /\ Len(deferred) <= MaxDeferred
  BY DEF NetTypeOK, Emit
<1>2. /\ Head(deferred) \in NetStates /\ Tail(deferred) \in Seq(NetStates)
      /\ Len(Tail(deferred)) <= MaxDeferred
  BY <1>1, DeferredAssumption
<1> QED BY <1>2 DEF NetTypeOK, Emit

LEMMA NetInitType == NetInit => NetTypeOK
<1> SUFFICES ASSUME NetInit PROVE NetTypeOK
  OBVIOUS
<1>1. deferred \in Seq(NetStates) /\ Len(deferred) <= MaxDeferred
  <2>1. deferred = <<"NoAP">> /\ "NoAP" \in NetStates
    BY DEF NetInit, NetStates
  <2>2. <<"NoAP">> \in Seq(NetStates) /\ Len(<<"NoAP">>) = 1
    BY <2>1
  <2> QED BY <2>1, <2>2, DeferredAssumption
<1>2. station \in BOOLEAN /\ softAp \in BOOLEAN
  BY Zenon DEF NetInit
<1>3. apEvents \in 0..1 /\ netState \in NetStates
  BY DEF NetInit, NetStates
<1> QED BY <1>1, <1>2, <1>3 DEF NetTypeOK

\* The next reading of the clock.
LEMMA ClockType ==
    ASSUME NEW t \in 0..Clock - 1
    PROVE  (t + 1) % Clock = IF t = Clock - 1 THEN 0 ELSE t + 1
BY ClockAssumption

\* A second makes a period one second longer, or so long that it wraps and
\* looks as if it had just begun.
LEMMA ElapsedGrows ==
    ASSUME NEW t \in 0..Clock - 1, NEW since \in 0..Clock - 1
    PROVE  /\ Elapsed(t, since) \in Nat
           /\ Elapsed((t + 1) % Clock, since) <= Elapsed(t, since) + 1
<1>1. Clock \in Nat
  BY ClockAssumption
<1>2. CASE t = Clock - 1
  BY <1>1, <1>2, ClockType DEF Elapsed
<1>3. CASE t # Clock - 1
  <2>1. (t + 1) % Clock = t + 1
    BY <1>3, ClockType
  <2> QED BY <1>1, <1>3, <2>1 DEF Elapsed
<1> QED BY <1>2, <1>3

-----------------------------------------------------------------------------
(* The type invariant. *)

LEMMA WatchdogInitType == WatchdogInit => WatchdogTypeOK
<1> SUFFICES ASSUME WatchdogInit PROVE WatchdogTypeOK
  OBVIOUS
<1>1. NetTypeOK
  BY NetInitType DEF WatchdogInit
<1>2. 0 \in 0..Clock - 1 /\ 0 \in 0..MaxLate + 1 /\ 0 \in 0..MaxOutage
  BY ClockAssumption
<1> QED BY <1>1, <1>2 DEF WatchdogInit, Booted, WatchdogTypeOK

LEMMA WatchdogNextType ==
    WatchdogTypeOK /\ [WatchdogNext]_watchdogVars => WatchdogTypeOK'
<1> SUFFICES ASSUME WatchdogTypeOK, [WatchdogNext]_watchdogVars
             PROVE  WatchdogTypeOK'
  OBVIOUS
<1> USE DEF WatchdogTypeOK
<1>1. CASE OnNetworkState
  <2>1. NetTypeOK'
    BY <1>1, EmitType DEF OnNetworkState
  <2>2. LinkOf(netState') \in Links
    BY <2>1, LinkType DEF NetTypeOK
  <2>3. /\ armed' = (armed \/ LinkOf(netState') = "up")
        /\ down' = (LinkOf(netState') = "down")
        /\ wasUp' = (wasUp \/ LinkOf(netState') = "up")
    BY <1>1 DEF OnNetworkState, SetLinkState
  <2>4. armed' \in BOOLEAN /\ down' \in BOOLEAN /\ wasUp' \in BOOLEAN
    BY <2>3, Zenon
  <2>5. /\ downSince' \in {downSince, now} /\ restart' \in {"none", restart}
        /\ outage' \in {outage, 0} /\ UNCHANGED <<now, timeout, late>>
    BY <1>1 DEF OnNetworkState, SetLinkState
  <2>6. 0 \in 0..MaxOutage
    BY ClockAssumption
  <2> QED BY <2>1, <2>4, <2>5, <2>6
<1>2. CASE Poll
  <2>1. NetTypeOK'
    BY <1>2 DEF Poll, netVars, NetTypeOK
  <2>2. 0 \in 0..MaxLate + 1
    BY ClockAssumption
  <2> QED BY <1>2, <2>1, <2>2 DEF Poll, policyVars
<1>3. CASE RestartFires
  BY <1>3 DEF RestartFires, policyVars, netVars, NetTypeOK
<1>4. CASE Restarts
  <2>1. NetInit'
    BY <1>4 DEF Restarts, NetInit
  <2>2. NetTypeOK'
    <3>1. deferred' = <<"NoAP">> /\ "NoAP" \in NetStates
      BY <1>4 DEF Restarts, NetStates
    <3>2. <<"NoAP">> \in Seq(NetStates) /\ Len(<<"NoAP">>) = 1
      BY <3>1
    <3>3. deferred' \in Seq(NetStates) /\ Len(deferred') <= MaxDeferred
      BY <3>1, <3>2, DeferredAssumption
    <3>4. station' \in BOOLEAN /\ softAp' \in BOOLEAN
      BY <2>1, Zenon DEF NetInit
    <3>5. apEvents' \in 0..1 /\ netState' \in NetStates
      BY <2>1 DEF NetInit, NetStates
    <3> QED BY <3>3, <3>4, <3>5 DEF NetTypeOK
  <2>3. 0 \in 0..Clock - 1 /\ 0 \in 0..MaxLate + 1 /\ 0 \in 0..MaxOutage
    BY ClockAssumption
  <2> QED BY <1>4, <2>2, <2>3 DEF Restarts
<1>5. CASE NetworkEvent
  <2>1. NetTypeOK'
    BY <1>5, DriversType DEF NetworkEvent
  <2> QED BY <1>5, <2>1 DEF NetworkEvent, policyVars
<1>6. CASE Second
  <2>1. now' \in 0..Clock - 1
    BY <1>6, ClockType, ClockAssumption DEF Second
  <2>2. late' \in 0..MaxLate + 1 /\ outage' \in 0..MaxOutage
    BY <1>6, ClockAssumption DEF Second
  <2> QED BY <1>6, <2>1, <2>2 DEF Second, policyVars, netVars, NetTypeOK
<1>7. ASSUME NEW t \in 0..MaxTimeout + 1, SetTimeout(t) PROVE WatchdogTypeOK'
  BY <1>7 DEF SetTimeout, policyVars, netVars, NetTypeOK
<1>8. CASE UNCHANGED watchdogVars
  BY <1>8 DEF watchdogVars, netVars, NetTypeOK
<1> QED
  BY <1>1, <1>2, <1>3, <1>4, <1>5, <1>6, <1>7, <1>8 DEF WatchdogNext, RestartEvent

\* The watchdog's state keeps its type, its timeout within what it accepts.
THEOREM WatchdogTypeSafety == WatchdogSpec => []WatchdogTypeOK
BY WatchdogInitType, WatchdogNextType, PTL DEF WatchdogSpec

-----------------------------------------------------------------------------
(* A restart is justified. *)

\* The period the policy measures is no longer than the outage was, however
\* often the clock has wrapped, and it is armed only by a link that was up.
Measured ==
    /\ armed => wasUp
    /\ down => /\ LinkOf(netState) = "down"
               /\ outage >= Elapsed(now, downSince) \/ outage = MaxOutage

LEMMA WatchdogInitMeasured == WatchdogInit => Measured
BY DEF WatchdogInit, Booted, Measured

LEMMA WatchdogNextMeasured ==
    WatchdogTypeOK /\ Measured /\ [WatchdogNext]_watchdogVars => Measured'
<1> SUFFICES ASSUME WatchdogTypeOK, Measured, [WatchdogNext]_watchdogVars
             PROVE  Measured'
  OBVIOUS
<1> USE DEF Measured
<1>1. CASE OnNetworkState
  <2>1. armed' => wasUp'
    BY <1>1 DEF OnNetworkState, SetLinkState
  <2>2. now' = now /\ down' = (LinkOf(netState') = "down")
    BY <1>1 DEF OnNetworkState, SetLinkState
  <2>3. ASSUME down'
        PROVE  outage' >= Elapsed(now', downSince') \/ outage' = MaxOutage
    <3>1. CASE down
      <4>1. outage' = outage /\ downSince' = downSince
        BY <1>1, <2>2, <2>3, <3>1 DEF OnNetworkState, SetLinkState
      <4> QED BY <2>2, <3>1, <4>1
    <3>2. CASE ~down
      <4>1. downSince' = now /\ outage' \in {outage, 0}
        BY <1>1, <2>2, <2>3, <3>2 DEF OnNetworkState, SetLinkState
      <4>2. Elapsed(now', downSince') = 0
        BY <2>2, <4>1 DEF Elapsed, WatchdogTypeOK
      <4> QED BY <4>1, <4>2 DEF WatchdogTypeOK
    <3> QED BY <3>1, <3>2
  <2> QED BY <2>1, <2>2, <2>3
<1>2. CASE Poll \/ RestartFires
  BY <1>2 DEF Poll, RestartFires, policyVars, netVars
<1>3. CASE Restarts
  BY <1>3 DEF Restarts
<1>4. CASE NetworkEvent
  <2>1. netState' = netState
    BY <1>4 DEF NetworkEvent, Drivers, GotIp, StaDisconnected, ApStart, ApStop,
                ApStopCallback
  <2> QED BY <1>4, <2>1 DEF NetworkEvent, policyVars
<1>5. CASE Second
  <2>1. UNCHANGED <<armed, wasUp, down, downSince, netState>>
    BY <1>5 DEF Second, policyVars, netVars
  <2>2. ASSUME down
        PROVE  outage' >= Elapsed(now', downSince') \/ outage' = MaxOutage
    <3>1. Elapsed(now', downSince) <= Elapsed(now, downSince) + 1
      BY <1>5, ElapsedGrows DEF Second, WatchdogTypeOK
    <3>2. Elapsed(now, downSince) \in Int /\ Elapsed(now', downSince) \in Int
      BY <1>5, ClockAssumption, ClockType DEF Second, Elapsed, WatchdogTypeOK
    <3>3. outage' = IF outage < MaxOutage THEN outage + 1 ELSE outage
      BY <1>5, <2>2 DEF Second
    <3> QED BY <2>1, <2>2, <3>1, <3>2, <3>3, ClockAssumption DEF WatchdogTypeOK
  <2> QED BY <2>1, <2>2
<1>6. ASSUME NEW t \in 0..MaxTimeout + 1, SetTimeout(t) PROVE Measured'
  BY <1>6 DEF SetTimeout, policyVars, netVars
<1>7. CASE UNCHANGED watchdogVars
  BY <1>7 DEF watchdogVars, netVars
<1> QED
  BY <1>1, <1>2, <1>3, <1>4, <1>5, <1>6, <1>7 DEF WatchdogNext, RestartEvent

\* The device restarts itself only if it ever had a network, and when the network
\* has been reported down, without interruption, for as long as the timeout says
\* at that moment: for any width of the clock, however often it wraps and
\* however often the timeout is changed.
THEOREM RestartIsJustified == WatchdogSpec => RestartJustified
<1>1. WatchdogInit => WatchdogTypeOK /\ Measured
  BY WatchdogInitType, WatchdogInitMeasured
<1>2. WatchdogTypeOK /\ Measured /\ [WatchdogNext]_watchdogVars
        => (WatchdogTypeOK /\ Measured)'
  BY WatchdogNextType, WatchdogNextMeasured
<1>3. WatchdogTypeOK /\ Measured /\ [WatchdogNext]_watchdogVars
        => [Restarts => wasUp /\ outage >= timeout]_watchdogVars
  <2> SUFFICES ASSUME WatchdogTypeOK, Measured, Restarts
               PROVE  wasUp /\ outage >= timeout
    OBVIOUS
  <2>1. armed /\ down /\ Elapsed(now, downSince) >= timeout
    BY DEF Restarts, RestartDue
  <2>2. outage >= Elapsed(now, downSince) \/ outage = MaxOutage
    BY <2>1 DEF Measured
  <2>3. Elapsed(now, downSince) \in Nat
    BY ElapsedGrows DEF WatchdogTypeOK
  <2> QED BY <2>1, <2>2, <2>3, ClockAssumption DEF Measured, WatchdogTypeOK
<1> QED BY <1>1, <1>2, <1>3, PTL DEF WatchdogSpec, RestartJustified

-----------------------------------------------------------------------------
(* What the status LED is told. *)

\* The value that is observed when all of a queue is taken.
Newest(waiting, taken) ==
    IF waiting = <<>> THEN taken ELSE waiting[Len(waiting)]

\* Taking a value from the front does not change which comes last, ...
LEMMA TakenIs ==
    ASSUME NEW V, NEW q \in Seq(V), q # <<>>, NEW x
    PROVE  /\ Head(q) \in V /\ Tail(q) \in Seq(V) /\ Len(Tail(q)) = Len(q) - 1
           /\ Newest(Tail(q), Head(q)) = Newest(q, x)
<1>1. /\ Len(q) \in Nat \ {0} /\ Head(q) = q[1] /\ Head(q) \in V
      /\ Tail(q) \in Seq(V) /\ Len(Tail(q)) = Len(q) - 1
      /\ \A i \in 1..Len(Tail(q)) : Tail(q)[i] = q[i + 1]
  BY HeadTailProperties, EmptySeq, LenProperties
<1>2. CASE Tail(q) = <<>>
  <2>1. Len(q) = 1
    BY <1>1, <1>2, EmptySeq
  <2> QED BY <1>1, <1>2, <2>1 DEF Newest
<1>3. CASE Tail(q) # <<>>
  <2>1. Len(Tail(q)) # 0
    BY <1>1, <1>3, EmptySeq
  <2>2. Tail(q)[Len(Tail(q))] = q[Len(q)]
    BY <1>1, <2>1
  <2> QED BY <1>3, <2>2 DEF Newest
<1> QED BY <1>1, <1>2, <1>3

\* ... and adding one makes it the last.
LEMMA AddedIs ==
    ASSUME NEW V, NEW q \in Seq(V), NEW v \in V, NEW x
    PROVE  /\ Append(q, v) \in Seq(V) /\ Len(Append(q, v)) = Len(q) + 1
           /\ Newest(Append(q, v), x) = v
<1>1. /\ Append(q, v) \in Seq(V) /\ Len(Append(q, v)) = Len(q) + 1
      /\ Append(q, v)[Len(q) + 1] = v /\ Append(q, v) # <<>>
  BY AppendProperties
<1> QED BY <1>1 DEF Newest

\* SafeQueue::push keeps the limit and, full or not, the new value.
LEMMA StoredIs ==
    ASSUME NEW V, queue \in Seq(V), Len(queue) <= MaxSize, NEW v \in V, NEW x
    PROVE  /\ Stored(v) \in Seq(V) /\ Len(Stored(v)) <= MaxSize
           /\ Newest(Stored(v), x) = v
<1>1. MaxSize \in Nat \ {0} /\ Len(queue) \in Nat
  BY MaxSizeAssumption, LenProperties
<1>2. CASE Len(queue) >= MaxSize
  <2>1. queue # <<>>
    BY <1>1, <1>2, EmptySeq
  <2> DEFINE rest == Tail(queue)
  <2>2. rest \in Seq(V) /\ Len(rest) = Len(queue) - 1
    BY <2>1, TakenIs
  <2>3. Stored(v) = Append(rest, v)
    BY <1>2 DEF Stored
  <2> HIDE DEF rest
  <2>4. /\ Stored(v) \in Seq(V) /\ Len(Stored(v)) = Len(rest) + 1
        /\ Newest(Stored(v), x) = v
    BY <2>2, <2>3, AddedIs
  <2> QED BY <1>1, <2>2, <2>4
<1>3. CASE ~(Len(queue) >= MaxSize)
  <2>1. Stored(v) = Append(queue, v)
    BY <1>3 DEF Stored
  <2> QED BY <1>1, <1>3, <2>1, AddedIs
<1> QED BY <1>2, <1>3

\* The last news of the network is true, deferred or emitted.
NewsTrue ==
    LET news == Newest(deferred, netState)
    IN /\ news = "Connected" => station
       /\ news \in {"NoAP", "Disconnected"} => ~station

LEMMA DriversNews ==
    NetTypeOK /\ NewsTrue /\ Drivers => NewsTrue' /\ netState' = netState
<1> SUFFICES ASSUME NetTypeOK, NewsTrue, Drivers PROVE NewsTrue' /\ netState' = netState
  OBVIOUS
<1>1. \A s \in NetStates : DeferEmit(s) => Newest(deferred', netState') = s
  BY AddedIs DEF NetTypeOK, DeferEmit
<1>2. {"NoAP", "Disconnected", "Connected", "APMode"} = NetStates
  BY DEF NetStates
<1>3. CASE GotIp
  BY <1>1, <1>2, <1>3 DEF GotIp, NewsTrue
<1>4. CASE StaDisconnected
  BY <1>1, <1>2, <1>4 DEF StaDisconnected, NewsTrue
<1>5. CASE ApStart
  BY <1>1, <1>2, <1>5 DEF ApStart, NewsTrue
<1>6. CASE ApStop
  BY <1>6 DEF ApStop, NewsTrue
<1>7. CASE ApStopCallback
  BY <1>1, <1>2, <1>7 DEF ApStopCallback, NewsTrue
<1> QED BY <1>3, <1>4, <1>5, <1>6, <1>7 DEF Drivers

\* The inductive invariant: what waits or was taken last is the state set last,
\* and a connection is shown only while it is the output of the producer.
StatusInv ==
    /\ StatusTypeOK /\ NewsTrue
    /\ lastSet = Newest(queue, output)
    /\ status = "SKWSConnected" => output = "Connected"

LEMMA StatusInitInv == StatusInit => StatusInv
<1> SUFFICES ASSUME StatusInit PROVE StatusInv
  OBVIOUS
<1>1. NetTypeOK
  BY NetInitType DEF StatusInit
<1>2. queue = <<>> /\ output = "Disconnected" /\ lastSet = "Disconnected"
  BY DEF StatusInit, QueueInit
<1>3. QueueTypeOK(ConnectionStates)
  BY <1>2, MaxSizeAssumption DEF QueueTypeOK, ConnectionStates
<1>4. NewsTrue
  <2>1. deferred = <<"NoAP">> /\ station = FALSE
    BY DEF StatusInit, NetInit
  <2>2. Newest(deferred, netState) = "NoAP"
    BY <2>1 DEF Newest
  <2> QED BY <2>1, <2>2 DEF NewsTrue
<1>5. /\ clientState \in ConnectionStates /\ storing \in ConnectionStates \cup {"none"}
      /\ status \in Statuses /\ status # "SKWSConnected"
  BY DEF StatusInit, ConnectionStates, Statuses, NoNetwork
<1> QED BY <1>1, <1>2, <1>3, <1>4, <1>5 DEF StatusInv, StatusTypeOK, Newest

\* set_connection_state, its part in the queue.
LEMMA PushKeeps ==
    ASSUME StatusInv, NEW v \in ConnectionStates, Push(v), UNCHANGED <<netVars, status>>,
           clientState' \in ConnectionStates, storing' \in ConnectionStates \cup {"none"}
    PROVE  StatusInv'
<1>1. /\ queue' = Stored(v) /\ lastSet' = v /\ output' = output /\ status' = status
      /\ station' = station /\ softAp' = softAp /\ apEvents' = apEvents
      /\ deferred' = deferred /\ netState' = netState
  BY DEF Push, netVars
<1>2. queue \in Seq(ConnectionStates) /\ Len(queue) <= MaxSize /\ output \in ConnectionStates
  BY DEF StatusInv, StatusTypeOK, QueueTypeOK
<1>3. /\ queue' \in Seq(ConnectionStates) /\ Len(queue') <= MaxSize
      /\ Newest(queue', output') = v
  BY <1>1, <1>2, StoredIs
<1>4. QueueTypeOK(ConnectionStates)'
  BY <1>1, <1>2, <1>3 DEF QueueTypeOK
<1>5. NetTypeOK' /\ NewsTrue'
  BY <1>1 DEF StatusInv, StatusTypeOK, NetTypeOK, NewsTrue
<1> QED BY <1>1, <1>3, <1>4, <1>5 DEF StatusInv, StatusTypeOK

LEMMA StatusNextInv == StatusInv /\ [StatusNext]_statusVars => StatusInv'
<1> SUFFICES ASSUME StatusInv, [StatusNext]_statusVars PROVE StatusInv'
  OBVIOUS
<1>0. /\ NetTypeOK /\ QueueTypeOK(ConnectionStates) /\ clientState \in ConnectionStates
      /\ storing \in ConnectionStates \cup {"none"} /\ status \in Statuses
  BY DEF StatusInv, StatusTypeOK
<1>1. CASE NetworkObserved
  <2>1. /\ deferred # <<>> /\ netState' = Head(deferred) /\ deferred' = Tail(deferred)
        /\ station' = station /\ UNCHANGED <<queueVars, clientState, storing>>
        /\ status' = StatusOfNetwork(netState')
    BY <1>1 DEF NetworkObserved, Emit
  <2>2. NetTypeOK'
    BY <1>0, <1>1, EmitType DEF NetworkObserved
  <2>3. Newest(deferred', netState') = Newest(deferred, netState)
    BY <1>0, <2>1, TakenIs DEF NetTypeOK
  <2>4. status' \in Statuses /\ status' # "SKWSConnected"
    BY <2>1, <2>2 DEF NetTypeOK, NetStates, StatusOfNetwork, Statuses, NoNetwork
  <2>5. NewsTrue'
    BY <2>1, <2>3 DEF StatusInv, NewsTrue
  <2> QED BY <1>0, <2>1, <2>2, <2>4, <2>5 DEF StatusInv, StatusTypeOK, QueueTypeOK, queueVars
<1>2. CASE ConnectionObserved
  <2>1. /\ queue # <<>> /\ queue' = Tail(queue) /\ output' = Head(queue)
        /\ lastSet' = lastSet /\ status' = StatusOfConnection(output')
        /\ UNCHANGED <<netVars, clientState, storing>>
    BY <1>2 DEF ConnectionObserved, Pop
  <2>2. /\ output' \in ConnectionStates /\ queue' \in Seq(ConnectionStates)
        /\ Len(queue') <= MaxSize /\ Newest(queue', output') = Newest(queue, output)
    <3>1. queue \in Seq(ConnectionStates) /\ Len(queue) \in Nat /\ Len(queue) <= MaxSize
      BY <1>0, LenProperties DEF QueueTypeOK
    <3>2. Len(queue') = Len(queue) - 1
      BY <2>1, <3>1, TakenIs
    <3> QED BY <2>1, <3>1, <3>2, TakenIs, MaxSizeAssumption
  <2>3. status' \in Statuses /\ (status' = "SKWSConnected" => output' = "Connected")
    BY <1>0, <2>1, <2>2
    DEF ConnectionStates, StatusOfConnection, Statuses, NoNetwork
  <2>4. NetTypeOK' /\ NewsTrue'
    BY <2>1 DEF StatusInv, StatusTypeOK, NetTypeOK, NewsTrue, netVars
  <2>5. QueueTypeOK(ConnectionStates)'
    BY <1>0, <2>1, <2>2 DEF QueueTypeOK
  <2> QED BY <1>0, <2>1, <2>2, <2>3, <2>4, <2>5 DEF StatusInv, StatusTypeOK
<1>3. CASE StatusNetworkEvent
  <2>1. Drivers /\ UNCHANGED <<queueVars, clientState, storing, status>>
    BY <1>3 DEF StatusNetworkEvent
  <2>2. NetTypeOK' /\ NewsTrue'
    BY <1>0, <2>1, DriversType, DriversNews DEF StatusInv
  <2> QED BY <1>0, <2>1, <2>2 DEF StatusInv, StatusTypeOK, QueueTypeOK, queueVars
<1>4. ASSUME NEW s \in ConnectionStates, WorkerSets(s) PROVE StatusInv'
  BY <1>0, <1>4, PushKeeps DEF WorkerSets
<1>5. ASSUME NEW s \in ConnectionStates, TransportStores(s) PROVE StatusInv'
  <2>1. /\ clientState' = s /\ storing' = s
        /\ UNCHANGED <<netVars, queueVars, status>>
    BY <1>5 DEF TransportStores
  <2>2. NetTypeOK' /\ NewsTrue' /\ QueueTypeOK(ConnectionStates)'
    BY <1>0, <2>1 DEF StatusInv, NetTypeOK, NewsTrue, netVars, QueueTypeOK, queueVars
  <2> QED BY <1>0, <2>1, <2>2 DEF StatusInv, StatusTypeOK, queueVars
<1>6. CASE TransportQueues
  <2>1. storing \in ConnectionStates
    BY <1>0, <1>6 DEF TransportQueues
  <2> QED BY <1>0, <1>6, <2>1, PushKeeps DEF TransportQueues
<1>7. CASE UNCHANGED statusVars
  <2>1. NetTypeOK' /\ NewsTrue' /\ QueueTypeOK(ConnectionStates)'
    BY <1>0, <1>7
    DEF statusVars, StatusInv, NetTypeOK, NewsTrue, netVars, QueueTypeOK, queueVars
  <2> QED BY <1>0, <1>7, <2>1 DEF statusVars, StatusInv, StatusTypeOK, queueVars
<1> QED BY <1>1, <1>2, <1>3, <1>4, <1>5, <1>6, <1>7 DEF StatusNext

\* However large the queue and in whatever order the tasks and the drivers bring
\* their news, the LED shows a connection with nothing left to observe only if
\* that is the state set last, and the network state is then what the station is.
THEOREM StatusIsTrue == StatusSpec => [](StatusTypeOK /\ CaughtUp)
<1>1. StatusInv => StatusTypeOK /\ CaughtUp
  BY DEF StatusInv, NewsTrue, Newest, CaughtUp
<1> QED BY StatusInitInv, StatusNextInv, <1>1, PTL DEF StatusSpec

-----------------------------------------------------------------------------
(* The network the driver is told to join. *)

\* The search of reconnect_cb ends at a valid slot if there is one.
LEMMA NextValidIs ==
    ASSUME FailoverTypeOK, \E i \in DOMAIN slots : Valid(i)
    PROVE  NextValid \in 0..Num - 1 /\ Valid(NextValid)
<1> DEFINE At(k) == Valid((index + k) % Num)
           Places == {k \in 0..Num - 1 : At(k)}
           First(k) == At(k) /\ \A j \in 0..k - 1 : ~At(j)
<1>1. Num \in Nat \ {0} /\ index \in 0..Num - 1 /\ DOMAIN slots = 0..Num - 1
  BY SlotsAssumption DEF FailoverTypeOK
<1>2. PICK i \in 0..Num - 1 : Valid(i)
  BY <1>1
<1>3. Places # {}
  <2> DEFINE k == IF i >= index THEN i - index ELSE i - index + Num
  <2>1. k \in 0..Num - 1 /\ index + k \in {i, i + Num}
    BY <1>1, <1>2
  <2>2. (index + k) % Num = i
    <3>1. i % Num = i /\ (i + Num) % Num = i
      BY <1>1, <1>2
    <3> QED BY <2>1, <3>1
  <2> QED BY <1>2, <2>1, <2>2
<1>4. PICK k \in Places : \A y \in Places : ~(<<y, k>> \in OpToRel(<, Nat))
  <2>1. Places \subseteq Nat
    BY <1>1
  <2> HIDE DEF Places
  <2> QED BY <1>3, <2>1, NatLessThanWellFounded, WFMin
<1>5. k \in 0..Num - 1 /\ First(k)
  <2>1. \A j \in 0..k - 1 : j \in Nat /\ j \in 0..Num - 1 /\ j < k
    <3>1. k \in 0..Num - 1
      OBVIOUS
    <3> HIDE DEF Places
    <3> QED BY <1>1, <3>1
  <2>2. \A j \in 0..k - 1 : <<j, k>> \in OpToRel(<, Nat)
    BY <1>1, <1>4, <2>1 DEF OpToRel
  <2> QED BY <1>4, <2>1, <2>2
<1> DEFINE step == CHOOSE n \in 0..Num - 1 : First(n)
<1>6. step \in 0..Num - 1 /\ At(step)
  <2> HIDE DEF At
  <2> QED BY <1>5
<1>7. NextValid = (index + step) % Num
  BY DEF NextValid
<1>8. (index + step) % Num \in 0..Num - 1
  <2> HIDE DEF step
  <2> QED BY <1>1, <1>6
<1> HIDE DEF step
<1> QED BY <1>6, <1>7, <1>8

FailoverInv == FailoverTypeOK /\ AppliedIsJoined

LEMMA FailoverInitInv == FailoverInit => FailoverInv
<1> SUFFICES ASSUME FailoverInit PROVE FailoverInv
  OBVIOUS
<1>1. enabled \in BOOLEAN /\ autoconnect \in BOOLEAN /\ edited \in BOOLEAN
  BY Zenon DEF FailoverInit
<1> QED BY <1>1, SlotsAssumption, ScansAssumption
        DEF FailoverInit, FailoverInv, FailoverTypeOK, AppliedIsJoined

LEMMA FailoverNextInv == FailoverInv /\ [FailoverNext]_failoverVars => FailoverInv'
<1> SUFFICES ASSUME FailoverInv, [FailoverNext]_failoverVars PROVE FailoverInv'
  OBVIOUS
<1>0. /\ FailoverTypeOK /\ AppliedIsJoined
      /\ Num \in Nat \ {0} /\ MaxSaves \in Nat /\ MaxScans \in Nat
  BY SlotsAssumption, ScansAssumption DEF FailoverInv
<1> USE DEF FailoverInv, FailoverTypeOK, AppliedIsJoined, Valid, settingVars
<1>1. CASE TickConnected
  BY <1>0, <1>1 DEF TickConnected
<1>2. CASE TickReconnect
  <2> DEFINE next == NextValid
  <2>1. next \in 0..Num - 1 /\ slots[next] # Empty
    BY <1>0, <1>2, NextValidIs DEF TickReconnect
  <2>2. slots[next] \in Networks
    BY <1>0, <2>1, SlotsAssumption
  <2>3. /\ lastApplied' = next /\ index' = (next + 1) % Num
        /\ UNCHANGED <<slots, enabled, autoconnect, edited, saves, air, scans>>
        /\ Begin(slots[next], next # lastApplied)
    BY <1>2 DEF TickReconnect, Disconnects
  <2> HIDE DEF next
  <2>4. index' \in 0..Num - 1
    BY <1>0, <2>1, <2>3
  <2>5. CASE sta = "associating" /\ next = lastApplied
    <3>1. UNCHANGED <<sta, target>> /\ age' = IF age < 2 THEN age + 1 ELSE age
      BY <2>3, <2>5 DEF Begin
    <3>2. age' \in 0..2
      BY <1>0, <3>1
    <3> QED BY <1>0, <2>1, <2>3, <2>4, <2>5, <3>1, <3>2
  <2>6. CASE ~(sta = "associating" /\ next = lastApplied)
    <3>1. sta' = "associating" /\ target' = slots[next] /\ age' = 0
      BY <2>3, <2>6 DEF Begin
    <3> QED BY <1>0, <2>1, <2>2, <2>3, <2>4, <3>1
  <2> QED BY <2>5, <2>6
<1>3. CASE StartScan
  BY <1>0, <1>3 DEF StartScan
<1>4. CASE SettingsSaved
  <2>1. enabled' \in BOOLEAN /\ autoconnect' \in BOOLEAN /\ edited' \in BOOLEAN
    BY <1>0, <1>4, Zenon DEF SettingsSaved
  <2>2. edited'
    BY <1>4 DEF SettingsSaved
  <2> QED BY <1>0, <1>4, <2>1, <2>2 DEF SettingsSaved
<1>5. CASE Restart
  <2>1. enabled' \in BOOLEAN /\ autoconnect' \in BOOLEAN /\ edited' \in BOOLEAN
    BY <1>0, <1>5, Zenon DEF Restart
  <2> QED BY <1>0, <1>5, <2>1 DEF Restart
<1>6. CASE Associated \/ Dropped
  BY <1>0, <1>6 DEF Associated, Dropped
<1>7. CASE NetworkAppears
  BY <1>0, <1>7 DEF NetworkAppears
<1>8. CASE NetworkVanishes
  BY <1>0, <1>8 DEF NetworkVanishes
<1>9. CASE UNCHANGED failoverVars
  BY <1>0, <1>9 DEF failoverVars
<1> QED
  BY <1>1, <1>2, <1>3, <1>4, <1>5, <1>6, <1>7, <1>8, <1>9 DEF FailoverNext

\* For every list of slots and whatever is in range: until the settings are edited
\* the driver is told to join the slot that reconnect_cb applied last, which is
\* what its test of the index relies on.
THEOREM SlotsAreJoined == FailoverSpec => [](FailoverTypeOK /\ AppliedIsJoined)
BY FailoverInitInv, FailoverNextInv, PTL DEF FailoverSpec, FailoverInv
=============================================================================
