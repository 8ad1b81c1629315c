---------------------------- MODULE Units_proofs ----------------------------
(***************************************************************************)
(* Proofs about parts that work by themselves: the pulse counter of        *)
(* PinInputs, AsyncResponse, RequestQueue, the button, the transforms that *)
(* measure time, the card that is edited while it is saved, the search for *)
(* networks, and the transforms fed with a stream of values. They hold for *)
(* every number of pulses and commands, all timeouts, finite sets of cards *)
(* and limits, and for every sequence of values.                           *)
(***************************************************************************)
EXTENDS PinInputs, AsyncResponse, RequestQueue, Button, TimedTransforms,
        CardEdits, NetworkScan, Streams, FiniteSetTheorems, SequenceTheorems,
        NaturalsInduction, WellFoundedInduction, TLAPS

-----------------------------------------------------------------------------
(* The pulse counter. *)

Waits == IF pulseWaits THEN 1 ELSE 0

\* Where every pulse is while the event of the counter is at a given instruction:
\* from the copy to the end of the clearing nothing may be counted, which is what
\* the masking is for.
Accounted ==
    /\ counterAt \in {"copy", "clear", "allow"} => masked
    /\ counterAt \in {"idle", "copy", "clear"} => pulses = reported + counter + Waits
    /\ counterAt = "clear" => counted = counter
    /\ counterAt \in {"allow", "notify"} =>
         pulses = reported + counted + counter + Waits

CounterNats == {counter, counted, reported} \subseteq Nat /\ pulses \in 0..MaxPulses

PinPlaces == counterAt \in {"idle", "copy", "clear", "allow", "notify"}

CounterInv == CounterNats /\ PinPlaces /\ pulseWaits \in BOOLEAN /\ Accounted

LEMMA PinInitCounter == PinInit => CounterInv
<1> SUFFICES ASSUME PinInit PROVE CounterInv
  OBVIOUS
<1>1. Waits = 0 /\ pulseWaits \in BOOLEAN
  BY Zenon DEF PinInit, Waits
<1>2. /\ counterAt = "idle" /\ pulses = 0 /\ reported = 0
      /\ counter = 0 /\ counted = 0
  BY DEF PinInit
<1> QED
  BY <1>1, <1>2, PulsesAssumption DEF CounterInv, CounterNats, PinPlaces, Accounted

LEMMA PinNextCounter == CounterInv /\ [PinNext]_pinVars => CounterInv'
<1> SUFFICES ASSUME CounterInv, [PinNext]_pinVars PROVE CounterInv'
  OBVIOUS
<1> USE DEF CounterInv, CounterNats, PinPlaces, Accounted, changeVars
<1>1. CASE Pulse
  <2>1. Waits = 0 /\ Waits' = 1 /\ pulseWaits' \in BOOLEAN
    BY <1>1, Zenon DEF Pulse, Waits
  <2> QED BY <1>1, <2>1, PulsesAssumption DEF Pulse
<1>2. CASE CountPulse
  <2>1. Waits = 1 /\ Waits' = 0 /\ pulseWaits' \in BOOLEAN
    BY <1>2, Zenon DEF CountPulse, Waits
  <2>2. counterAt \in {"idle", "notify"}
    BY <1>2 DEF CountPulse
  <2>3. /\ counter' = counter + 1
        /\ UNCHANGED <<counted, counterAt, pulses, reported>>
    BY <1>2 DEF CountPulse
  <2> QED BY <2>1, <2>2, <2>3
<1>3. CASE Edge \/ ReadLevel \/ CheckLevel \/ NotifyLevel
  BY <1>3 DEF Edge, ReadLevel, CheckLevel, NotifyLevel, counterVars, Waits
<1>4. CASE BeginCount
  BY <1>4 DEF BeginCount, Masks, Waits
<1>5. CASE CopyCount
  BY <1>5 DEF CopyCount, Waits
<1>6. CASE ClearCount
  BY <1>6 DEF ClearCount, Waits
<1>7. CASE AllowInterrupts
  BY <1>7 DEF AllowInterrupts, Waits
<1>8. CASE NotifyCount
  BY <1>8 DEF NotifyCount, Waits
<1>9. CASE UNCHANGED pinVars
  BY <1>9 DEF pinVars, counterVars, Waits
<1> QED BY <1>1, <1>2, <1>3, <1>4, <1>5, <1>6, <1>7, <1>8, <1>9 DEF PinNext

LEMMA CounterInvKeeps == CounterInv => PulsesKept
BY DEF CounterInv, PinPlaces, Accounted, Waits, PulsesKept

\* No pulse is lost and none counted twice, wherever it interrupts the event that
\* reports the count: for every number of pulses.
THEOREM PulsesAreKept == PinSpec => []PulsesKept
BY PinInitCounter, PinNextCounter, CounterInvKeeps, PTL DEF PinSpec

\* Every counter counts pulses: none of them, nor a copy that is left, exceeds
\* their number.
PinInv == CounterInv /\ PinTypeOK

LEMMA PinInitType == PinInit => PinInv
<1> SUFFICES ASSUME PinInit PROVE PinInv
  OBVIOUS
<1>1. /\ {masked, pulseWaits, level, levelWaits, triggered, output, lastOutput}
             \subseteq BOOLEAN
  BY Zenon DEF PinInit
<1>2. PinTypeOK
  BY <1>1, PulsesAssumption DEF PinInit, PinTypeOK
<1> QED BY <1>2, PinInitCounter DEF PinInv

LEMMA CountsAre ==
    CounterInv => counter \in 0..MaxPulses /\ reported \in 0..MaxPulses
<1> SUFFICES ASSUME CounterInv PROVE counter <= MaxPulses /\ reported <= MaxPulses
  BY DEF CounterInv, CounterNats
<1>1. Waits \in Nat
  BY DEF Waits
<1>2. /\ {counter, counted, reported} \subseteq Nat /\ pulses \in 0..MaxPulses
      /\ \/ pulses = reported + counter + Waits
         \/ pulses = reported + counted + counter + Waits
  BY DEF CounterInv, CounterNats, PinPlaces, Accounted
<1> QED BY <1>1, <1>2, PulsesAssumption

LEMMA PinNextType == PinInv /\ [PinNext]_pinVars => PinInv'
<1> SUFFICES ASSUME PinInv, [PinNext]_pinVars PROVE PinInv'
  OBVIOUS
<1>1. CounterInv'
  BY PinNextCounter DEF PinInv
<1>2. counter' \in 0..MaxPulses /\ reported' \in 0..MaxPulses /\ pulses' \in 0..MaxPulses
      /\ counterAt' \in {"idle", "copy", "clear", "allow", "notify"}
      /\ pulseWaits' \in BOOLEAN
  <2>1. (counter \in 0..MaxPulses /\ reported \in 0..MaxPulses)'
    BY <1>1, CountsAre, PTL
  <2> QED BY <1>1, <2>1 DEF CounterInv, CounterNats, PinPlaces
<1>3. counted' \in 0..MaxPulses
  BY DEF PinInv, PinTypeOK, PinNext, Pulse, CountPulse, Edge, ReadLevel, BeginCount,
         CopyCount, ClearCount, AllowInterrupts, NotifyCount, CheckLevel, NotifyLevel,
         pinVars, counterVars, changeVars
<1>4. {masked, level, levelWaits, triggered, output, lastOutput}' \subseteq BOOLEAN
  BY Zenon DEF PinInv, PinTypeOK, PinNext, Pulse, CountPulse, Edge, ReadLevel, BeginCount,
         CopyCount, ClearCount, AllowInterrupts, NotifyCount, CheckLevel, NotifyLevel,
         pinVars, counterVars, changeVars, Masks
<1>5. changeAt' \in {"idle", "notify"} /\ emitted' \in {"none", "low", "high"}
  BY DEF PinInv, PinTypeOK, PinNext, Pulse, CountPulse, Edge, ReadLevel, BeginCount,
         CopyCount, ClearCount, AllowInterrupts, NotifyCount, CheckLevel, NotifyLevel,
         pinVars, counterVars, changeVars
<1>6. PinTypeOK'
  BY <1>2, <1>3, <1>4, <1>5 DEF PinTypeOK
<1> QED BY <1>1, <1>6 DEF PinInv

\* No count and no report exceeds the pulses there were.
THEOREM PinTypeCorrect == PinSpec => []PinTypeOK
<1>1. PinInv => PinTypeOK
  BY DEF PinInv
<1> QED BY PinInitType, PinNextType, <1>1, PTL DEF PinSpec

-----------------------------------------------------------------------------
(* The response handler. *)

\* A pending command has a timer that began with it, unless activate() has yet to
\* start it. While no command was sent from the emission of a timeout, there is
\* one timer at most, and the handle is its own.
OwnTimer ==
    /\ replyStatus = "pending" =>
         \/ \E t \in timers : t.left = Timeout - pendingFor
         \/ calls # <<>> /\ Head(calls) # Lambda
    /\ replyStatus = "pending" /\ calls # <<>> => pendingFor = 0

OneTimer ==
    ~retried =>
      /\ \A t \in timers : t.command = handle
      /\ \A t, u \in timers : t = u
      /\ LambdaRuns => calls = <<Lambda>> /\ timers = {} /\ replyStatus # "pending"

ReplyTyped ==
    /\ replyStatus \in Outcomes \cup {"ready", "pending"}
    /\ timers \subseteq [command : 1..MaxCommands, left : 0..Timeout]
    /\ handle \in 0..MaxCommands
    /\ calls \in Seq(0..MaxCommands)
    /\ commands \in 0..MaxCommands
    /\ ends \in Nat /\ pendingFor \in 0..Timeout
    /\ retried \in BOOLEAN

ReplyInv ==
    /\ ReplyTyped /\ OwnTimer /\ OneTimer
    /\ ends = IF replyStatus \in Outcomes THEN 1 ELSE 0
    /\ replyStatus = "timeout" => pendingFor = Timeout \/ retried

LEMMA ReplyInitType == ReplyInit => ReplyInv
<1> SUFFICES ASSUME ReplyInit PROVE ReplyInv
  OBVIOUS
<1>1. calls = <<>> /\ timers = {} /\ replyStatus = "ready"
  BY DEF ReplyInit
<1>2. ~LambdaRuns
  BY <1>1 DEF LambdaRuns
<1>3. OwnTimer /\ OneTimer
  BY <1>1, <1>2, Zenon DEF OwnTimer, OneTimer
<1>4. calls \in Seq(0..MaxCommands)
  <2>1. <<>> \in Seq(0..MaxCommands)
    OBVIOUS
  <2> QED BY <1>1, <2>1, Zenon
<1>5. ReplyTyped
  <2>1. /\ handle \in 0..MaxCommands /\ commands \in 0..MaxCommands
        /\ ends \in Nat /\ pendingFor \in 0..Timeout
    BY ResponseAssumption DEF ReplyInit, nullptr
  <2>2. replyStatus \in Outcomes \cup {"ready", "pending"} /\ retried \in BOOLEAN
    BY DEF ReplyInit
  <2>3. timers \subseteq [command : 1..MaxCommands, left : 0..Timeout]
    BY <1>1, Zenon
  <2> QED BY <1>4, <2>1, <2>2, <2>3, Zenon DEF ReplyTyped
<1> QED BY <1>1, <1>3, <1>5 DEF ReplyInit, ReplyInv, Outcomes

\* What is on the stack after a call and after a return.
LEMMA CallsNest ==
    ASSUME NEW c \in 0..MaxCommands, calls \in Seq(0..MaxCommands)
    PROVE  /\ <<c>> \o calls \in Seq(0..MaxCommands)
           /\ <<c>> \o calls # <<>> /\ Head(<<c>> \o calls) = c
           /\ \A i \in 1..Len(<<c>> \o calls) :
                (<<c>> \o calls)[i] = IF i = 1 THEN c ELSE calls[i - 1]
           /\ Len(<<c>> \o calls) = Len(calls) + 1
OBVIOUS

LEMMA CallsReturn ==
    ASSUME calls \in Seq(0..MaxCommands), calls # <<>>
    PROVE  /\ Tail(calls) \in Seq(0..MaxCommands) /\ Len(Tail(calls)) = Len(calls) - 1
           /\ \A i \in 1..Len(calls) - 1 : Tail(calls)[i] = calls[i + 1]
           /\ Head(calls) = calls[1] /\ Len(calls) \in Nat \ {0}
OBVIOUS

LEMMA ReplyNextType == ReplyInv /\ [ReplyNext]_replyVars => ReplyInv'
<1> SUFFICES ASSUME ReplyInv, [ReplyNext]_replyVars PROVE ReplyInv'
  OBVIOUS
<1> USE ResponseAssumption DEF nullptr, Lambda, Outcomes
<1>0. ReplyTyped /\ OwnTimer /\ OneTimer /\ calls \in Seq(0..MaxCommands)
  BY DEF ReplyInv, ReplyTyped
<1>1. CASE Activate
  <2>1. commands' \in 1..MaxCommands /\ calls' = <<commands'>> \o calls
    BY <1>0, <1>1 DEF Activate, ReplyTyped
  <2>2. calls' \in Seq(0..MaxCommands) /\ calls' # <<>> /\ Head(calls') = commands'
    BY <1>0, <2>1, CallsNest
  <2>3. retried' \in BOOLEAN
    BY <1>0, <1>1, Zenon DEF Activate, ReplyTyped, LambdaRuns
  <2>4. ReplyTyped'
    BY <1>0, <1>1, <2>1, <2>2, <2>3 DEF Activate, ReplyTyped
  <2>5. OwnTimer'
    <3>1. calls' # <<>> /\ Head(calls') # Lambda /\ pendingFor' = 0
      BY <1>1, <2>1, <2>2 DEF Activate
    <3> QED BY <3>1, Zenon DEF OwnTimer
  <2>6. ~LambdaRuns => ~LambdaRuns'
    <3> DEFINE more == <<commands'>> \o calls
    <3>0. /\ \A i \in 1..Len(more) : more[i] = IF i = 1 THEN commands' ELSE calls[i - 1]
          /\ Len(more) = Len(calls) + 1 /\ Len(calls) \in Nat
      BY <1>0, <2>1, CallsNest
    <3> HIDE DEF more
    <3>1. \A i \in 1..Len(more) :
            more[i] = commands' \/ (i - 1 \in 1..Len(calls) /\ more[i] = calls[i - 1])
      <4> SUFFICES ASSUME NEW i \in 1..Len(more), i # 1
                   PROVE  i - 1 \in 1..Len(calls) /\ more[i] = calls[i - 1]
        BY <3>0
      <4>1. more[i] = calls[i - 1]
        BY <3>0, Zenon
      <4>2. i - 1 \in 1..Len(calls)
        BY <3>0
      <4> QED BY <4>1, <4>2
    <3>2. calls' = more
      BY <2>1 DEF more
    <3> QED BY <2>1, <3>1, <3>2 DEF LambdaRuns
  <2>7. OneTimer'
    BY <1>0, <1>1, <2>6, Zenon DEF Activate, OneTimer
  <2> QED BY <1>1, <2>4, <2>5, <2>7 DEF Activate, ReplyInv
<1>2. ASSUME NEW c \in 1..MaxCommands, Arm(c) PROVE ReplyInv'
  <2> DEFINE new == [command |-> c, left |-> Timeout]
  <2>1. /\ calls # <<>> /\ Head(calls) = c /\ c # Lambda /\ calls' = Tail(calls)
        /\ timers' = {t \in timers : t.command # handle} \cup {new}
        /\ handle' = c
        /\ UNCHANGED <<replyStatus, commands, ends, pendingFor, retried>>
    BY <1>2 DEF Arm, Inside
  <2>2. calls' \in Seq(0..MaxCommands)
    BY <1>0, <2>1, CallsReturn
  <2>3. ReplyTyped'
    BY <1>0, <2>1, <2>2 DEF ReplyTyped
  <2>4. replyStatus' = "pending" => pendingFor' = 0 /\ new.left = Timeout - pendingFor'
    BY <1>0, <2>1 DEF OwnTimer
  <2>5. OwnTimer'
    BY <2>1, <2>4 DEF OwnTimer
  <2>6. ~retried => ~LambdaRuns
    BY <1>0, <2>1 DEF OneTimer
  <2>7. ~LambdaRuns => ~LambdaRuns'
    BY <1>0, <2>1, CallsReturn DEF LambdaRuns
  <2>8. ~retried => timers' = {new} /\ new.command = handle'
    BY <1>0, <2>1 DEF OneTimer
  <2>9. OneTimer'
    BY <2>1, <2>6, <2>7, <2>8, Zenon DEF OneTimer
  <2> QED BY <2>1, <2>3, <2>5, <2>9 DEF ReplyInv
<1>3. ASSUME NEW status \in {"success", "failure"}, Answer(status) PROVE ReplyInv'
  <2>1. ReplyTyped'
    BY <1>0, <1>3 DEF Answer, ReplyTyped
  <2>2. OwnTimer'
    BY <1>3 DEF Answer, OwnTimer
  <2>3. ~retried => ~LambdaRuns /\ timers' = {}
    BY <1>0, <1>3 DEF Answer, OneTimer
  <2>4. OneTimer'
    <3>1. LambdaRuns' = LambdaRuns /\ retried' = retried
      BY <1>3 DEF Answer, LambdaRuns
    <3> QED BY <2>3, <3>1 DEF OneTimer
  <2> QED BY <1>3, <2>1, <2>2, <2>4 DEF Answer, ReplyInv
<1>4. ASSUME NEW t \in timers, TimedOut(t) PROVE ReplyInv'
  <2>1. calls = <<>> /\ t.left = 0 /\ timers' = timers \ {t}
        /\ UNCHANGED <<commands, pendingFor, retried>>
    BY <1>4 DEF TimedOut
  <2>2. ~retried => timers' = {}
    BY <1>0, <2>1 DEF OneTimer
  <2>3. CASE replyStatus = "pending"
    <3>1. /\ replyStatus' = "timeout" /\ ends' = ends + 1 /\ calls' = <<Lambda>>
          /\ handle' = handle
      BY <1>4, <2>3 DEF TimedOut
    <3>2. ReplyTyped'
      BY <1>0, <2>1, <3>1 DEF ReplyTyped
    <3>3. OwnTimer'
      BY <3>1 DEF OwnTimer
    <3>4. OneTimer'
      BY <2>1, <2>2, <3>1, Zenon DEF OneTimer
    <3>5. pendingFor' = Timeout \/ retried'
      <4>1. PICK u \in timers : u.left = Timeout - pendingFor
        BY <1>0, <2>1, <2>3 DEF OwnTimer
      <4>2. ~retried => u = t
        BY <1>0 DEF OneTimer
      <4> QED BY <1>0, <2>1, <4>1, <4>2 DEF ReplyTyped
    <3> QED BY <2>3, <3>1, <3>2, <3>3, <3>4, <3>5 DEF ReplyInv
  <2>4. CASE replyStatus # "pending"
    <3>1. UNCHANGED <<replyStatus, ends, calls>> /\ handle' = nullptr
      BY <1>4, <2>4 DEF TimedOut
    <3>2. ReplyTyped'
      BY <1>0, <2>1, <3>1 DEF ReplyTyped
    <3>3. OwnTimer'
      BY <2>4, <3>1 DEF OwnTimer
    <3>4. ~LambdaRuns'
      BY <2>1, <3>1 DEF LambdaRuns
    <3>5. OneTimer'
      BY <2>1, <2>2, <3>4, Zenon DEF OneTimer
    <3> QED BY <2>1, <3>1, <3>2, <3>3, <3>5 DEF ReplyInv
  <2> QED BY <2>3, <2>4
<1>5. CASE EndTimeout
  <2>1. /\ calls # <<>> /\ Head(calls) = Lambda /\ calls' = Tail(calls)
        /\ handle' = nullptr
        /\ UNCHANGED <<replyStatus, timers, commands, ends, pendingFor, retried>>
    BY <1>5 DEF EndTimeout, Inside
  <2>2. calls' \in Seq(0..MaxCommands) /\ LambdaRuns
    BY <1>0, <2>1, CallsReturn DEF LambdaRuns
  <2>3. ReplyTyped'
    BY <1>0, <2>1, <2>2 DEF ReplyTyped
  <2>4. OwnTimer'
    BY <1>0, <2>1 DEF OwnTimer
  <2>5. ~retried => calls' = <<>> /\ timers' = {} /\ replyStatus' # "pending"
    BY <1>0, <2>1, <2>2 DEF OneTimer
  <2>6. ~retried' => ~LambdaRuns'
    <3>1. calls' = <<>> => ~LambdaRuns'
      BY DEF LambdaRuns
    <3> QED BY <2>1, <2>5, <3>1
  <2>7. OneTimer'
    BY <2>1, <2>5, <2>6, Zenon DEF OneTimer
  <2> QED BY <2>1, <2>3, <2>4, <2>7 DEF ReplyInv
<1>6. CASE ReplyPeriod
  <2> DEFINE Sooner(t) == [t EXCEPT !.left = t.left - 1]
  <2>1. /\ calls = <<>> /\ timers' = {Sooner(t) : t \in timers}
        /\ \A t \in timers : t.left > 0
        /\ pendingFor' = IF replyStatus = "pending" THEN pendingFor + 1 ELSE pendingFor
        /\ UNCHANGED <<replyStatus, handle, calls, commands, ends, retried>>
    BY <1>6 DEF ReplyPeriod
  <2>2. \A t \in timers : /\ t.left \in 1..Timeout /\ t.command \in 1..MaxCommands
                          /\ Sooner(t).left = t.left - 1 /\ Sooner(t).command = t.command
                          /\ Sooner(t) \in [command : 1..MaxCommands, left : 0..Timeout]
    BY <1>0, <2>1 DEF ReplyTyped
  <2>3. replyStatus = "pending" =>
          /\ pendingFor' \in 0..Timeout
          /\ \E t \in timers : Sooner(t).left = Timeout - pendingFor'
    <3> SUFFICES ASSUME replyStatus = "pending"
                 PROVE  /\ pendingFor' \in 0..Timeout
                        /\ \E t \in timers : Sooner(t).left = Timeout - pendingFor'
      OBVIOUS
    <3>1. PICK u \in timers : u.left = Timeout - pendingFor
      BY <1>0, <2>1 DEF OwnTimer
    <3>2. pendingFor' \in 0..Timeout /\ Sooner(u).left = Timeout - pendingFor'
      BY <1>0, <2>1, <2>2, <3>1 DEF ReplyTyped
    <3> QED BY <3>2
  <2>4. ReplyTyped'
    BY <1>0, <2>1, <2>2, <2>3 DEF ReplyTyped
  <2>5. OwnTimer'
    BY <2>1, <2>3 DEF OwnTimer
  <2>6. ~LambdaRuns'
    BY <2>1 DEF LambdaRuns
  <2>7. OneTimer'
    BY <1>0, <2>1, <2>2, <2>6 DEF OneTimer
  <2> QED BY <2>1, <2>4, <2>5, <2>7 DEF ReplyInv
<1>7. CASE UNCHANGED replyVars
  <2>1. LambdaRuns' = LambdaRuns
    BY <1>7 DEF replyVars, LambdaRuns
  <2> QED BY <1>7, <2>1 DEF replyVars, ReplyInv, ReplyTyped, OwnTimer, OneTimer
<1> QED BY <1>1, <1>2, <1>3, <1>4, <1>5, <1>6, <1>7 DEF ReplyNext

LEMMA ReplyInvReplies == ReplyInv => OneReply
<1> SUFFICES ASSUME ReplyInv PROVE OneReply
  OBVIOUS
<1>1. replyStatus = "pending" => timers # {} \/ calls # <<>>
  BY DEF ReplyInv, OwnTimer
<1> QED BY <1>1, ResponseAssumption DEF ReplyInv, ReplyTyped, OneReply

LEMMA ReplyInvType == ReplyInv => ReplyTypeOK
BY ResponseAssumption DEF ReplyInv, ReplyTyped, ReplyTypeOK

\* Every command has one end, by an answer or by a timeout, which comes after
\* exactly the timeout unless a command was sent from the emission of an earlier
\* one: for every timeout and number of commands, however commands, answers and
\* timers follow each other and observers send commands and deliver answers from
\* inside the handler's emissions.
THEOREM OneReplyEach == ReplySpec => []OneReply
BY ReplyInitType, ReplyNextType, ReplyInvReplies, PTL DEF ReplySpec

-----------------------------------------------------------------------------
(* The request queue: lemmas about its line. *)

Distinct(q) == \A i, j \in 1..Len(q) : q[i] = q[j] => i = j
Stands(q, c) == \E i \in 1..Len(q) : q[i] = c

\* Who joins the line is behind everybody else.
LEMMA Joins ==
    ASSUME NEW q \in Seq(Cards), NEW c \in Cards, Distinct(q), ~Stands(q, c)
    PROVE  /\ Append(q, c) \in Seq(Cards) /\ Distinct(Append(q, c))
           /\ Append(q, c) # <<>>
           /\ \A d : Stands(Append(q, c), d) <=> Stands(q, d) \/ d = c
<1> DEFINE r == Append(q, c)
<1>1. /\ r \in Seq(Cards) /\ Len(r) = Len(q) + 1 /\ r # <<>>
      /\ \A i \in 1..Len(q) : r[i] = q[i]
      /\ r[Len(q) + 1] = c
  OBVIOUS
<1>2. Distinct(r)
  <2> SUFFICES ASSUME NEW i \in 1..Len(r), NEW j \in 1..Len(r), r[i] = r[j]
               PROVE  i = j
    BY DEF Distinct
  <2> QED BY <1>1 DEF Distinct, Stands
<1>3. ASSUME NEW d PROVE Stands(r, d) <=> Stands(q, d) \/ d = c
  <2>1. ASSUME Stands(r, d) PROVE Stands(q, d) \/ d = c
    BY <1>1, <2>1 DEF Stands
  <2>2. ASSUME Stands(q, d) PROVE Stands(r, d)
    BY <1>1, <2>2 DEF Stands
  <2>3. ASSUME d = c PROVE Stands(r, d)
    BY <1>1, <2>3 DEF Stands
  <2> QED BY <2>1, <2>2, <2>3
<1> QED BY <1>1, <1>2, <1>3

\* Two lines, one behind the other.
LEMMA Joined ==
    ASSUME NEW R, NEW s \in Seq(R), NEW t \in Seq(R)
    PROVE  /\ s \o t \in Seq(R) /\ Len(s \o t) = Len(s) + Len(t)
           /\ \A k \in 1..Len(s \o t) :
                (s \o t)[k] = IF k <= Len(s) THEN s[k] ELSE t[k - Len(s)]
OBVIOUS

\* A sequence without its i-th place.
LEMMA Removed ==
    ASSUME NEW R, NEW q \in Seq(R), NEW i \in 1..Len(q)
    PROVE  /\ RemoveAt(q, i) \in Seq(R) /\ Len(RemoveAt(q, i)) = Len(q) - 1
           /\ \A k \in 1..Len(q) - 1 :
                RemoveAt(q, i)[k] = q[IF k < i THEN k ELSE k + 1]
<1> DEFINE front == SubSeq(q, 1, i - 1)
           back == SubSeq(q, i + 1, Len(q))
           rest == front \o back
<1>1. Len(q) \in Nat /\ i \in Nat
  OBVIOUS
<1>2. /\ front \in Seq(R) /\ Len(front) = i - 1
      /\ \A k \in 1..i - 1 : front[k] = q[k]
  OBVIOUS
<1>3. /\ back \in Seq(R) /\ Len(back) = Len(q) - i
      /\ \A k \in 1..Len(q) - i : back[k] = q[i + k]
  OBVIOUS
<1>4. RemoveAt(q, i) = rest
  BY Zenon DEF RemoveAt
<1> HIDE DEF front, back
<1>5. /\ rest \in Seq(R) /\ Len(rest) = Len(front) + Len(back)
      /\ \A k \in 1..Len(rest) :
           rest[k] = IF k <= Len(front) THEN front[k] ELSE back[k - Len(front)]
  BY <1>2, <1>3, Joined, Zenon
<1>6. Len(rest) = Len(q) - 1
  BY <1>1, <1>2, <1>3, <1>5
<1> HIDE DEF rest
<1>7. ASSUME NEW k \in 1..Len(q) - 1
      PROVE  rest[k] = q[IF k < i THEN k ELSE k + 1]
  <2>1. CASE k < i
    BY <1>1, <1>2, <1>5, <1>6, <2>1
  <2>2. CASE k >= i
    <3>1. rest[k] = back[k - (i - 1)]
      <4>1. k \in 1..Len(rest) /\ Len(front) = i - 1 /\ ~(k <= Len(front))
        BY <1>1, <1>2, <1>6, <2>2
      <4> QED BY <1>5, <4>1, Zenon
    <3>2. k - (i - 1) \in 1..Len(q) - i /\ i + (k - (i - 1)) = k + 1
      BY <1>1, <2>2
    <3> QED BY <1>3, <2>2, <3>1, <3>2
  <2> QED BY <1>1, <2>1, <2>2
<1> QED BY <1>4, <1>5, <1>6, <1>7, Zenon

\* Who is taken out of the line, and only he, no longer stands in it.
LEMMA LeavesLine ==
    ASSUME NEW q \in Seq(Cards), Distinct(q), NEW i \in 1..Len(q)
    PROVE  /\ RemoveAt(q, i) \in Seq(Cards) /\ Distinct(RemoveAt(q, i))
           /\ \A d : Stands(RemoveAt(q, i), d) <=> Stands(q, d) /\ d # q[i]
<1> DEFINE r == RemoveAt(q, i)
           from(k) == IF k < i THEN k ELSE k + 1
<1>1. /\ r \in Seq(Cards) /\ Len(r) = Len(q) - 1
      /\ \A k \in 1..Len(r) : r[k] = q[from(k)]
  BY Removed, Zenon
<1>2. \A k \in 1..Len(r) : r[k] = q[from(k)] /\ from(k) \in 1..Len(q) /\ from(k) # i
  <2>1. Len(q) \in Nat /\ i \in Nat /\ i <= Len(q)
    OBVIOUS
  <2>2. \A k \in 1..Len(q) - 1 : from(k) \in 1..Len(q) /\ from(k) # i
    BY <2>1
  <2> QED BY <1>1, <2>2
<1>3. Distinct(r)
  <2> SUFFICES ASSUME NEW j \in 1..Len(r), NEW k \in 1..Len(r), r[j] = r[k]
               PROVE  j = k
    BY DEF Distinct
  <2>1. from(j) = from(k)
    BY <1>2 DEF Distinct
  <2> QED BY <2>1
<1>4. ASSUME NEW d PROVE Stands(r, d) <=> Stands(q, d) /\ d # q[i]
  <2>1. ASSUME NEW k \in 1..Len(r), r[k] = d PROVE Stands(q, d) /\ d # q[i]
    BY <1>2, <2>1 DEF Stands, Distinct
  <2>2. ASSUME NEW k \in 1..Len(q), q[k] = d, d # q[i] PROVE Stands(r, d)
    <3> DEFINE n == IF k < i THEN k ELSE k - 1
    <3>1. n \in 1..Len(r) /\ from(n) = k
      BY <1>1, <2>2
    <3> QED BY <1>2, <2>2, <3>1 DEF Stands
  <2> QED BY <2>1, <2>2 DEF Stands
<1> QED BY <1>1, <1>3, <1>4

\* The same of the first of the line.
LEMMA Served ==
    ASSUME NEW q \in Seq(Cards), Distinct(q), q # <<>>
    PROVE  /\ Head(q) \in Cards /\ Stands(q, Head(q))
           /\ Tail(q) \in Seq(Cards) /\ Distinct(Tail(q))
           /\ \A d : Stands(Tail(q), d) <=> Stands(q, d) /\ d # Head(q)
<1>1. /\ Len(q) \in Nat \ {0} /\ Head(q) = q[1] /\ Head(q) \in Cards
      /\ Tail(q) \in Seq(Cards) /\ Len(Tail(q)) = Len(q) - 1
      /\ \A k \in 1..Len(q) - 1 : Tail(q)[k] = q[k + 1]
  OBVIOUS
<1>2. Distinct(Tail(q))
  <2> SUFFICES ASSUME NEW j \in 1..Len(Tail(q)), NEW k \in 1..Len(Tail(q)),
                      Tail(q)[j] = Tail(q)[k]
               PROVE  j = k
    BY DEF Distinct
  <2>1. j + 1 = k + 1
    BY <1>1 DEF Distinct
  <2> QED BY <2>1
<1>3. ASSUME NEW d PROVE Stands(Tail(q), d) <=> Stands(q, d) /\ d # Head(q)
  <2>1. ASSUME NEW k \in 1..Len(Tail(q)), Tail(q)[k] = d
        PROVE  Stands(q, d) /\ d # Head(q)
    BY <1>1, <2>1 DEF Stands, Distinct
  <2>2. ASSUME NEW k \in 1..Len(q), q[k] = d, d # Head(q)
        PROVE  Stands(Tail(q), d)
    <3>1. k - 1 \in 1..Len(Tail(q)) /\ Tail(q)[k - 1] = d
      BY <1>1, <2>2
    <3> QED BY <3>1 DEF Stands
  <2> QED BY <2>1, <2>2 DEF Stands
<1> QED BY <1>1, <1>2, <1>3 DEF Stands

-----------------------------------------------------------------------------
(* The request queue: its count. *)

Holders == {c \in Cards : at[c] \in HoldsSlot}

Places == HoldsSlot \cup {"none", "waiting", "ended"}

\* Who waits stands in the line, once, and nobody else does; a card that failed
\* has no call, so that Retry starts its only one.
Lined ==
    /\ waiters \in Seq(Cards) /\ at \in [Cards -> Places]
    /\ phase \in [Cards -> {"hidden", "loading", "loaded", "failed"}]
    /\ Distinct(waiters)
    /\ \A c \in Cards : Stands(waiters, c) <=> at[c] = "waiting"
    /\ \A c \in Cards : phase[c] = "failed" => at[c] = "ended"

Counted == inFlight \in Nat /\ SlotsCounted

SlotInv == Lined /\ Counted

LEMMA HoldersFinite == IsFiniteSet(Holders) /\ Cardinality(Holders) \in Nat
<1>1. Holders \in SUBSET Cards
  BY DEF Holders
<1> QED BY <1>1, FS_Subset, FS_CardinalityType, QueueAssumption

\* A call that holds a slot goes on to where it still holds it.
LEMMA KeepsSlot ==
    ASSUME SlotInv, NEW c \in Cards, at[c] \in HoldsSlot,
           NEW place \in HoldsSlot, at' = [at EXCEPT ![c] = place],
           UNCHANGED <<queueVars, phase>>
    PROVE  SlotInv'
<1>1. at' \in [Cards -> Places] /\ Holders' = Holders
  BY DEF SlotInv, Lined, Places, Holders
<1>2. \A d \in Cards : at'[d] = "waiting" <=> at[d] = "waiting"
  BY DEF SlotInv, Lined, Places, HoldsSlot
<1>3. \A d \in Cards : phase'[d] = "failed" => at'[d] = "ended"
  BY DEF SlotInv, Lined, Places, HoldsSlot
<1>4. Lined'
  BY <1>1, <1>2, <1>3 DEF SlotInv, Lined, Distinct, Stands, queueVars
<1>5. Counted'
  <2>1. Cardinality(Holders') = Cardinality(Holders)
    BY <1>1
  <2> QED BY <2>1 DEF SlotInv, Counted, SlotsCounted, Holders, queueVars
<1> QED BY <1>4, <1>5 DEF SlotInv

\* A call that asks for a slot gets a free one or joins the line.
LEMMA AcquireCounts ==
    ASSUME SlotInv, NEW c \in Cards, at[c] \in {"none", "ended"}, Load(c)
    PROVE  SlotInv'
<1>1. at[c] \notin HoldsSlot /\ at[c] # "waiting"
  BY DEF HoldsSlot
<1>2. phase' = [phase EXCEPT ![c] = "loading"]
  BY DEF Load
<1>3. phase' \in [Cards -> {"hidden", "loading", "loaded", "failed"}]
  BY <1>2 DEF SlotInv, Lined
<1>4. \A d \in Cards : phase'[d] = "failed" => d # c /\ at[d] = "ended"
  BY <1>2 DEF SlotInv, Lined
<1>5. CASE /\ inFlight < MaxConcurrency
           /\ inFlight' = inFlight + 1
           /\ at' = [at EXCEPT ![c] = "granted"]
           /\ UNCHANGED waiters
  <2>1. /\ at' \in [Cards -> Places]
        /\ \A d \in Cards : at'[d] = "waiting" <=> at[d] = "waiting"
        /\ Holders' = Holders \cup {c} /\ c \notin Holders
    BY <1>1, <1>5 DEF SlotInv, Lined, Places, Holders, HoldsSlot
  <2>2. Cardinality(Holders') = Cardinality(Holders) + 1
    BY <2>1, HoldersFinite, FS_AddElement
  <2>3. Lined'
    BY <1>3, <1>4, <1>5, <2>1 DEF SlotInv, Lined, Distinct, Stands
  <2>4. Counted'
    <3>1. inFlight = Cardinality(Holders) /\ inFlight \in Nat /\ waiters = <<>>
      BY <1>5, QueueAssumption DEF SlotInv, Counted, SlotsCounted, Holders
    <3>2. inFlight' = Cardinality(Holders') /\ inFlight' \in Nat
      BY <1>5, <2>2, <3>1
    <3>3. inFlight' <= MaxConcurrency
      BY <1>5, <3>1, QueueAssumption
    <3> QED BY <1>5, <3>1, <3>2, <3>3 DEF Counted, SlotsCounted, Holders
  <2> QED BY <2>3, <2>4 DEF SlotInv
<1>6. CASE /\ inFlight >= MaxConcurrency
           /\ waiters' = Append(waiters, c)
           /\ at' = [at EXCEPT ![c] = "waiting"]
           /\ UNCHANGED inFlight
  <2>1. /\ at' \in [Cards -> Places]
        /\ \A d \in Cards : at'[d] = "waiting" <=> at[d] = "waiting" \/ d = c
        /\ Holders' = Holders
    BY <1>1, <1>6 DEF SlotInv, Lined, Places, Holders, HoldsSlot
  <2>2. ~Stands(waiters, c)
    BY <1>1 DEF SlotInv, Lined
  <2>3. /\ waiters' \in Seq(Cards) /\ Distinct(waiters') /\ waiters' # <<>>
        /\ \A d : Stands(waiters', d) <=> Stands(waiters, d) \/ d = c
    BY <1>6, <2>2, Joins DEF SlotInv, Lined
  <2>4. \A d \in Cards : d # c => at'[d] = at[d]
    BY <1>6 DEF SlotInv, Lined
  <2>5. Lined'
    <3>1. \A d \in Cards : Stands(waiters', d) <=> at'[d] = "waiting"
      BY <2>1, <2>3 DEF SlotInv, Lined
    <3>2. \A d \in Cards : phase'[d] = "failed" => at'[d] = "ended"
      BY <1>4, <2>4
    <3>3. Distinct(waiters)'
      BY <2>3 DEF Distinct
    <3>4. \A d \in Cards : Stands(waiters, d)' <=> at'[d] = "waiting"
      BY <3>1 DEF Stands
    <3> QED BY <1>3, <2>1, <2>3, <3>2, <3>3, <3>4 DEF Lined
  <2>6. Counted'
    <3>1. inFlight = Cardinality(Holders) /\ inFlight \in Nat
          /\ inFlight <= MaxConcurrency
      BY DEF SlotInv, Counted, SlotsCounted, Holders
    <3>2. inFlight' = MaxConcurrency /\ inFlight' = Cardinality(Holders')
      BY <1>6, <2>1, <3>1, QueueAssumption
    <3> QED BY <3>2, QueueAssumption DEF Counted, SlotsCounted, Holders
  <2> QED BY <2>5, <2>6 DEF SlotInv
<1> QED BY <1>5, <1>6 DEF Load, Acquire

\* An abort takes a waiting call out of the line and wakes one in its backoff.
LEMMA HideCounts == ASSUME SlotInv, NEW c \in Cards, Hide(c) PROVE SlotInv'
<1>1. /\ phase' = [phase EXCEPT ![c] = "hidden"] /\ inFlight' = inFlight
  BY DEF Hide
<1>2. phase' \in [Cards -> {"hidden", "loading", "loaded", "failed"}]
  BY <1>1 DEF SlotInv, Lined
<1>3. \A d \in Cards : phase'[d] = "failed" => d # c /\ at[d] = "ended"
  BY <1>1 DEF SlotInv, Lined
<1>4. CASE /\ at[c] = "waiting" /\ Leave(c)
           /\ at' = [at EXCEPT ![c] = "ended"]
  <2>1. PICK i \in 1..Len(waiters) :
          waiters[i] = c /\ waiters' = RemoveAt(waiters, i)
    BY <1>4 DEF Leave, SlotInv, Lined
  <2>2. /\ waiters' \in Seq(Cards) /\ Distinct(waiters')
        /\ \A d : Stands(waiters', d) <=> Stands(waiters, d) /\ d # c
    BY <2>1, LeavesLine DEF SlotInv, Lined
  <2>3. /\ at' \in [Cards -> Places]
        /\ \A d \in Cards : at'[d] = "waiting" <=> at[d] = "waiting" /\ d # c
        /\ \A d \in Cards : d # c => at'[d] = at[d]
        /\ Holders' = Holders
    BY <1>4 DEF SlotInv, Lined, Places, Holders, HoldsSlot
  <2>4. Lined'
    <3>1. \A d \in Cards : Stands(waiters', d) <=> at'[d] = "waiting"
      BY <2>2, <2>3 DEF SlotInv, Lined
    <3>2. \A d \in Cards : phase'[d] = "failed" => at'[d] = "ended"
      BY <1>3, <2>3
    <3>3. Distinct(waiters)'
      BY <2>2 DEF Distinct
    <3>4. \A d \in Cards : Stands(waiters, d)' <=> at'[d] = "waiting"
      BY <3>1 DEF Stands
    <3> QED BY <1>2, <2>2, <2>3, <3>2, <3>3, <3>4 DEF Lined
  <2>5. Counted'
    <3>1. waiters # <<>>
      BY <2>1 DEF SlotInv, Lined
    <3> QED BY <1>1, <2>3, <3>1 DEF SlotInv, Counted, SlotsCounted, Holders
  <2> QED BY <2>4, <2>5 DEF SlotInv
<1>5. CASE /\ at[c] = "delaying" /\ at' = [at EXCEPT ![c] = "releasing"]
           /\ UNCHANGED waiters
  <2>1. /\ at' \in [Cards -> Places] /\ Holders' = Holders
        /\ \A d \in Cards : at'[d] = "waiting" <=> at[d] = "waiting"
        /\ \A d \in Cards : d # c => at'[d] = at[d]
    BY <1>5 DEF SlotInv, Lined, Places, Holders, HoldsSlot
  <2>2. \A d \in Cards : phase'[d] = "failed" => at'[d] = "ended"
    BY <1>3, <2>1
  <2>3. Lined'
    BY <1>2, <1>5, <2>1, <2>2 DEF SlotInv, Lined, Distinct, Stands
  <2>4. Counted'
    <3>1. Cardinality(Holders') = Cardinality(Holders)
      BY <2>1
    <3> QED BY <1>1, <1>5, <3>1 DEF SlotInv, Counted, SlotsCounted, Holders
  <2> QED BY <2>3, <2>4 DEF SlotInv
<1>6. CASE UNCHANGED <<at, waiters>>
  BY <1>1, <1>2, <1>3, <1>6
  DEF SlotInv, Lined, Counted, SlotsCounted, Holders, Distinct, Stands
<1> QED BY <1>4, <1>5, <1>6 DEF Hide

\* A call that ends hands its slot to the first in the line, or frees it.
LEMMA FinishCounts == ASSUME SlotInv, NEW c \in Cards, Finish(c) PROVE SlotInv'
<1>1. at[c] = "releasing" /\ c \in Holders
  BY DEF Finish, Holders, HoldsSlot
<1>2. /\ phase' \in [Cards -> {"hidden", "loading", "loaded", "failed"}]
      /\ \A d \in Cards : d # c => phase'[d] = phase[d]
  BY DEF Finish, SlotInv, Lined
<1>3. CASE /\ waiters # <<>> /\ inFlight' = inFlight
           /\ at' = [at EXCEPT ![c] = "ended", ![Head(waiters)] = "granted"]
           /\ waiters' = Tail(waiters)
  <2> DEFINE h == Head(waiters)
  <2>1. /\ h \in Cards /\ Stands(waiters, h)
        /\ waiters' \in Seq(Cards) /\ Distinct(waiters')
        /\ \A d : Stands(waiters', d) <=> Stands(waiters, d) /\ d # h
    BY <1>3, Served DEF SlotInv, Lined
  <2>2. at[h] = "waiting" /\ h # c
    BY <1>1, <2>1 DEF SlotInv, Lined
  <2>3. /\ at' \in [Cards -> Places] /\ at'[c] = "ended" /\ at'[h] = "granted"
        /\ \A d \in Cards \ {c, h} : at'[d] = at[d]
    <3> HIDE DEF h
    <3>1. at' = [at EXCEPT ![c] = "ended", ![h] = "granted"]
      BY <1>3 DEF h
    <3> QED BY <2>1, <2>2, <3>1 DEF SlotInv, Lined, Places, HoldsSlot
  <2> HIDE DEF h
  <2>4. Holders' = (Holders \ {c}) \cup {h} /\ h \notin Holders
    BY <1>1, <2>1, <2>2, <2>3 DEF Holders, HoldsSlot
  <2>5. Cardinality(Holders') = Cardinality(Holders)
    <3>1. /\ IsFiniteSet(Holders \ {c})
          /\ Cardinality(Holders \ {c}) = Cardinality(Holders) - 1
      BY <1>1, HoldersFinite, FS_RemoveElement
    <3>2. /\ h \notin Holders \ {c}
          /\ Cardinality((Holders \ {c}) \cup {h}) = Cardinality(Holders \ {c}) + 1
      BY <2>4, <3>1, FS_AddElement
    <3> QED BY <2>4, <3>1, <3>2, HoldersFinite
  <2>6. Lined'
    <3>1. \A d \in Cards : Stands(waiters', d) <=> at'[d] = "waiting"
      BY <1>1, <2>1, <2>2, <2>3 DEF SlotInv, Lined
    <3>2. \A d \in Cards : phase'[d] = "failed" => at'[d] = "ended"
      BY <1>2, <2>2, <2>3 DEF SlotInv, Lined
    <3>3. Distinct(waiters)'
      BY <2>1 DEF Distinct
    <3>4. \A d \in Cards : Stands(waiters, d)' <=> at'[d] = "waiting"
      BY <3>1 DEF Stands
    <3> QED BY <1>2, <2>1, <2>3, <3>2, <3>3, <3>4 DEF Lined
  <2>7. Counted'
    BY <1>3, <2>5 DEF SlotInv, Counted, SlotsCounted, Holders
  <2> QED BY <2>6, <2>7 DEF SlotInv
<1>4. CASE /\ waiters = <<>> /\ inFlight' = inFlight - 1
           /\ at' = [at EXCEPT ![c] = "ended"]
           /\ UNCHANGED waiters
  <2>1. /\ at' \in [Cards -> Places] /\ at'[c] = "ended"
        /\ \A d \in Cards : d # c => at'[d] = at[d]
        /\ Holders' = Holders \ {c}
    BY <1>1, <1>4 DEF SlotInv, Lined, Places, Holders, HoldsSlot
  <2>2. Cardinality(Holders') = Cardinality(Holders) - 1
    BY <1>1, <2>1, HoldersFinite, FS_RemoveElement
  <2>3. Lined'
    <3>1. \A d \in Cards : at'[d] = "waiting" <=> at[d] = "waiting"
      BY <1>1, <2>1
    <3>2. \A d \in Cards : phase'[d] = "failed" => at'[d] = "ended"
      BY <1>2, <2>1 DEF SlotInv, Lined
    <3> QED BY <1>2, <1>4, <2>1, <3>1, <3>2 DEF SlotInv, Lined, Distinct, Stands
  <2>4. Counted'
    <3>1. inFlight' = Cardinality(Holders') /\ inFlight <= MaxConcurrency
          /\ inFlight \in Nat
      BY <1>4, <2>2 DEF SlotInv, Counted, SlotsCounted, Holders
    <3>2. Cardinality(Holders') \in Nat
      BY HoldersFinite, <2>1, FS_RemoveElement, FS_CardinalityType
    <3> QED BY <1>4, <3>1, <3>2, QueueAssumption DEF Counted, SlotsCounted, Holders
  <2> QED BY <2>3, <2>4 DEF SlotInv
<1> QED BY <1>3, <1>4 DEF Finish, Release

LEMMA SlotInitCounts == SlotInit => SlotInv
<1> SUFFICES ASSUME SlotInit PROVE SlotInv
  OBVIOUS
<1>1. Lined
  BY DEF SlotInit, Lined, Places, Distinct, Stands
<1>2. Holders = {}
  BY DEF SlotInit, Holders, HoldsSlot
<1>3. Counted
  BY <1>2, FS_EmptySet, QueueAssumption DEF SlotInit, Counted, SlotsCounted, Holders
<1> QED BY <1>1, <1>3 DEF SlotInv

LEMMA SlotNextCounts == SlotInv /\ [SlotNext]_slotVars => SlotInv'
<1> SUFFICES ASSUME SlotInv, [SlotNext]_slotVars PROVE SlotInv'
  OBVIOUS
<1>1. ASSUME NEW c \in Cards, Show(c) PROVE SlotInv'
  BY <1>1, AcquireCounts DEF Show
<1>2. ASSUME NEW c \in Cards, Reload(c) PROVE SlotInv'
  <2>1. at[c] = "ended"
    BY <1>2 DEF Reload, SlotInv, Lined
  <2> QED BY <1>2, <2>1, AcquireCounts DEF Reload
<1>3. ASSUME NEW c \in Cards, Hide(c) PROVE SlotInv'
  BY <1>3, HideCounts
<1>4. ASSUME NEW c \in Cards, Begin(c) \/ Succeeds(c) \/ FetchAborted(c)
                             \/ Fails(c) \/ DelayOver(c)
      PROVE  SlotInv'
  <2>1. at[c] \in HoldsSlot /\ UNCHANGED <<queueVars, phase>>
    BY <1>4 DEF Begin, Succeeds, FetchAborted, Fails, DelayOver, HoldsSlot, cardVars
  <2>2. \E place \in HoldsSlot : at' = [at EXCEPT ![c] = place]
    BY <1>4 DEF Begin, Succeeds, FetchAborted, Fails, DelayOver, EndsWith, HoldsSlot
  <2> QED BY <2>1, <2>2, KeepsSlot
<1>5. ASSUME NEW c \in Cards, Finish(c) PROVE SlotInv'
  BY <1>5, FinishCounts
<1>6. CASE UNCHANGED slotVars
  BY <1>6
  DEF slotVars, queueVars, callVars, cardVars, SlotInv, Lined, Counted, SlotsCounted,
      Distinct, Stands
<1> QED BY <1>1, <1>2, <1>3, <1>4, <1>5, <1>6 DEF SlotNext, CallStep

\* The limiter's count is the number of calls that hold a slot, never above its
\* limit, and nobody waits while a slot is free: for every finite set of cards,
\* every limit and every order of aborts, failures and grants.
THEOREM SlotsAreCounted == SlotSpec => []SlotsCounted
<1>1. SlotInv => SlotsCounted
  BY DEF SlotInv, Counted
<1> QED BY SlotInitCounts, SlotNextCounts, <1>1, PTL DEF SlotSpec

\* A call begins without failures, and gives up with the one after the last
\* retry.
AttemptsLeft ==
    \A c \in Cards :
      /\ at[c] \in {"none", "waiting", "ended"} => attempt[c] = 0
      /\ at[c] \in {"granted", "fetching", "delaying"} => attempt[c] <= MaxRetries

SlotTypes == SlotInv /\ SlotTypeOK /\ AttemptsLeft

LEMMA SlotInvInFlight == SlotInv => inFlight \in 0..Cardinality(Cards)
<1> SUFFICES ASSUME SlotInv PROVE inFlight \in 0..Cardinality(Cards)
  OBVIOUS
<1>1. Holders \in SUBSET Cards /\ IsFiniteSet(Cards)
  BY QueueAssumption DEF Holders
<1>2. Cardinality(Holders) <= Cardinality(Cards) /\ Cardinality(Cards) \in Nat
  BY <1>1, FS_Subset, FS_CardinalityType
<1> QED BY <1>2 DEF SlotInv, Counted, SlotsCounted, Holders

LEMMA SlotInitTypes == SlotInit => SlotTypes
<1> SUFFICES ASSUME SlotInit PROVE SlotTypes
  OBVIOUS
<1>1. SlotInv
  BY SlotInitCounts
<1>2. SlotTypeOK
  BY <1>1, SlotInvInFlight, QueueAssumption DEF SlotInit, SlotTypeOK
<1>3. AttemptsLeft
  BY DEF SlotInit, AttemptsLeft
<1> QED BY <1>1, <1>2, <1>3 DEF SlotTypes

\* Where a call of another card goes while one card is served.
LEMMA OthersWait ==
    ASSUME SlotTypes, NEW c \in Cards, Finish(c), NEW d \in Cards, d # c
    PROVE  at'[d] = at[d] \/ (at[d] = "waiting" /\ at'[d] = "granted")
<1>1. CASE waiters # <<>>
  <2>1. Head(waiters) \in Cards /\ Stands(waiters, Head(waiters))
    BY <1>1, Served DEF SlotTypes, SlotInv, Lined
  <2>2. at[Head(waiters)] = "waiting"
    BY <2>1 DEF SlotTypes, SlotInv, Lined
  <2>3. at' = [at EXCEPT ![c] = "ended", ![Head(waiters)] = "granted"]
    BY <1>1 DEF Finish, Release
  <2> QED BY <2>1, <2>2, <2>3 DEF SlotTypes, SlotTypeOK
<1>2. CASE waiters = <<>>
  <2>1. at' = [at EXCEPT ![c] = "ended"]
    BY <1>2 DEF Finish, Release
  <2> QED BY <2>1 DEF SlotTypes, SlotTypeOK
<1> QED BY <1>1, <1>2

LEMMA SlotNextTypes == SlotTypes /\ [SlotNext]_slotVars => SlotTypes'
<1> SUFFICES ASSUME SlotTypes, [SlotNext]_slotVars PROVE SlotTypes'
  OBVIOUS
<1>1. SlotInv'
  BY SlotNextCounts DEF SlotTypes
<1>2. /\ inFlight' \in 0..Cardinality(Cards)
      /\ waiters' \in Seq(Cards)
      /\ at' \in [Cards -> HoldsSlot \cup {"none", "waiting", "ended"}]
      /\ phase' \in [Cards -> {"hidden", "loading", "loaded", "failed"}]
  <2>1. inFlight' \in 0..Cardinality(Cards)
    <3>1. (inFlight \in 0..Cardinality(Cards))'
      BY <1>1, SlotInvInFlight, PTL
    <3> QED BY <3>1
  <2> QED BY <1>1, <2>1 DEF SlotInv, Lined, Places
<1> SUFFICES /\ aborted' \in [Cards -> BOOLEAN]
             /\ attempt' \in [Cards -> 0..MaxRetries + 1]
             /\ outcome' \in [Cards -> {"none", "data", "error", "abort"}]
             /\ reloads' \in [Cards -> 0..MaxReloads]
             /\ AttemptsLeft'
  BY <1>1, <1>2, Zenon DEF SlotTypes, SlotTypeOK
<1>3. /\ at \in [Cards -> HoldsSlot \cup {"none", "waiting", "ended"}]
      /\ aborted \in [Cards -> BOOLEAN]
      /\ attempt \in [Cards -> 0..MaxRetries + 1]
      /\ outcome \in [Cards -> {"none", "data", "error", "abort"}]
      /\ reloads \in [Cards -> 0..MaxReloads]
      /\ AttemptsLeft /\ MaxRetries \in Nat /\ MaxReloads \in Nat
  BY QueueAssumption DEF SlotTypes, SlotTypeOK
<1>4. ASSUME NEW c \in Cards, Show(c) \/ Reload(c)
      PROVE  /\ aborted' \in [Cards -> BOOLEAN]
             /\ attempt' \in [Cards -> 0..MaxRetries + 1]
             /\ outcome' \in [Cards -> {"none", "data", "error", "abort"}]
             /\ reloads' \in [Cards -> 0..MaxReloads]
             /\ AttemptsLeft'
  <2>1. /\ attempt' = attempt /\ outcome' = outcome
        /\ aborted' = [aborted EXCEPT ![c] = FALSE] /\ Acquire(c)
    BY <1>4 DEF Show, Reload, Load
  <2>2. aborted' \in [Cards -> BOOLEAN]
    BY <1>3, <2>1
  <2>3. reloads' \in [Cards -> 0..MaxReloads]
    BY <1>3, <1>4 DEF Show, Reload
  <2>4. at[c] \in {"none", "ended"}
    BY <1>4 DEF Show, Reload, SlotTypes, SlotInv, Lined
  <2>5. attempt[c] = 0
    BY <1>3, <2>4 DEF AttemptsLeft
  <2>6. \/ at' = [at EXCEPT ![c] = "granted"]
        \/ at' = [at EXCEPT ![c] = "waiting"]
    BY <2>1 DEF Acquire
  <2>7. AttemptsLeft'
    BY <1>3, <2>1, <2>5, <2>6 DEF AttemptsLeft
  <2> QED BY <1>3, <2>1, <2>2, <2>3, <2>7
<1>5. ASSUME NEW c \in Cards, Hide(c)
      PROVE  /\ aborted' \in [Cards -> BOOLEAN]
             /\ attempt' \in [Cards -> 0..MaxRetries + 1]
             /\ outcome' \in [Cards -> {"none", "data", "error", "abort"}]
             /\ reloads' \in [Cards -> 0..MaxReloads]
             /\ AttemptsLeft'
  <2>1. attempt' = attempt /\ reloads' = reloads /\ aborted' = [aborted EXCEPT ![c] = TRUE]
    BY <1>5 DEF Hide
  <2>2. aborted' \in [Cards -> BOOLEAN]
    BY <1>3, <2>1
  <2>3. outcome' \in [Cards -> {"none", "data", "error", "abort"}]
    BY <1>3, <1>5 DEF Hide
  <2>4. AttemptsLeft'
    <3>1. \/ at[c] = "waiting" /\ at' = [at EXCEPT ![c] = "ended"]
          \/ at' = [at EXCEPT ![c] = "releasing"]
          \/ at' = at
      BY <1>5 DEF Hide
    <3> QED BY <1>3, <2>1, <3>1 DEF AttemptsLeft
  <2> QED BY <1>3, <2>1, <2>2, <2>3, <2>4
<1>6. ASSUME NEW c \in Cards,
             Begin(c) \/ Succeeds(c) \/ FetchAborted(c) \/ Fails(c) \/ DelayOver(c)
      PROVE  /\ aborted' \in [Cards -> BOOLEAN]
             /\ attempt' \in [Cards -> 0..MaxRetries + 1]
             /\ outcome' \in [Cards -> {"none", "data", "error", "abort"}]
             /\ reloads' \in [Cards -> 0..MaxReloads]
             /\ AttemptsLeft'
  <2>1. aborted' = aborted /\ reloads' = reloads
    BY <1>6 DEF Begin, Succeeds, FetchAborted, Fails, DelayOver, cardVars
  <2>2. outcome' \in [Cards -> {"none", "data", "error", "abort"}]
    BY <1>3, <1>6 DEF Begin, Succeeds, FetchAborted, Fails, DelayOver, EndsWith
  <2>3. at[c] \in {"granted", "fetching", "delaying"} /\ attempt[c] \in 0..MaxRetries
    BY <1>3, <1>6 DEF Begin, Succeeds, FetchAborted, Fails, DelayOver, AttemptsLeft
  <2>4. CASE Fails(c)
    <3>1. attempt' = [attempt EXCEPT ![c] = attempt[c] + 1]
      BY <2>4 DEF Fails
    <3>2. \/ at' = [at EXCEPT ![c] = "releasing"]
          \/ attempt[c] + 1 <= MaxRetries /\ at' = [at EXCEPT ![c] = "delaying"]
      BY <2>4 DEF Fails, EndsWith
    <3>3. attempt' \in [Cards -> 0..MaxRetries + 1]
      BY <1>3, <2>3, <3>1
    <3>4. AttemptsLeft'
      BY <1>3, <2>3, <3>1, <3>2 DEF AttemptsLeft
    <3> QED BY <1>3, <2>1, <2>2, <3>3, <3>4
  <2>5. CASE Begin(c) \/ Succeeds(c) \/ FetchAborted(c) \/ DelayOver(c)
    <3>1. attempt' = attempt
      BY <2>5 DEF Begin, Succeeds, FetchAborted, DelayOver
    <3>2. \E place \in {"releasing", "fetching", "granted"} :
             at' = [at EXCEPT ![c] = place]
      BY <2>5 DEF Begin, Succeeds, FetchAborted, DelayOver, EndsWith
    <3>3. AttemptsLeft'
      BY <1>3, <2>3, <3>1, <3>2 DEF AttemptsLeft
    <3> QED BY <1>3, <2>1, <2>2, <3>1, <3>3
  <2> QED BY <1>6, <2>4, <2>5
<1>7. ASSUME NEW c \in Cards, Finish(c)
      PROVE  /\ aborted' \in [Cards -> BOOLEAN]
             /\ attempt' \in [Cards -> 0..MaxRetries + 1]
             /\ outcome' \in [Cards -> {"none", "data", "error", "abort"}]
             /\ reloads' \in [Cards -> 0..MaxReloads]
             /\ AttemptsLeft'
  <2>1. /\ aborted' = aborted /\ reloads' = reloads
        /\ attempt' = [attempt EXCEPT ![c] = 0]
        /\ outcome' = [outcome EXCEPT ![c] = "none"]
    BY <1>7 DEF Finish
  <2>2. /\ attempt' \in [Cards -> 0..MaxRetries + 1]
        /\ outcome' \in [Cards -> {"none", "data", "error", "abort"}]
    BY <1>3, <2>1
  <2>3. AttemptsLeft'
    <3> SUFFICES ASSUME NEW d \in Cards
                 PROVE  /\ at'[d] \in {"none", "waiting", "ended"} => attempt'[d] = 0
                        /\ at'[d] \in {"granted", "fetching", "delaying"}
                             => attempt'[d] <= MaxRetries
      BY Zenon DEF AttemptsLeft
    <3>1. CASE d = c
      BY <1>3, <2>1, <3>1
    <3>2. CASE d # c
      <4>1. attempt'[d] = attempt[d]
        BY <1>3, <2>1, <3>2
      <4>2. at'[d] = at[d] \/ (at[d] = "waiting" /\ at'[d] = "granted")
        BY <1>7, <3>2, OthersWait
      <4> QED BY <1>3, <4>1, <4>2 DEF AttemptsLeft
    <3> QED BY <3>1, <3>2
  <2> QED BY <1>3, <2>1, <2>2, <2>3
<1>8. CASE UNCHANGED slotVars
  BY <1>3, <1>8 DEF slotVars, callVars, cardVars, AttemptsLeft
<1> QED BY <1>4, <1>5, <1>6, <1>7, <1>8 DEF SlotNext, CallStep

\* A call is never tried more often than the retries allow, and the counts and
\* the line of the queue keep their types.
THEOREM SlotTypeCorrect == SlotSpec => []SlotTypeOK
<1>1. SlotTypes => SlotTypeOK
  BY DEF SlotTypes
<1> QED BY SlotInitTypes, SlotNextTypes, <1>1, PTL DEF SlotSpec

-----------------------------------------------------------------------------
(* The button. *)

\* A click that restarts the device is to be emitted.
Doomed == \E i \in DOMAIN outbox : outbox[i] = "Ultra"

\* The presses that clicks will still be emitted for: one for each report, and
\* those counted; the first one counted is the one of the report tracked, once the
\* button was released.
Owed == Len(reports) + count - (IF tracked /\ ~pushed THEN 1 ELSE 0)

Tracking ==
    /\ tracked => count = 1
    /\ ~pushed => ~repeating
    /\ ~pushed /\ count > 0 => tracked

\* Every click owed has its presses, and a press that was not counted, because a
\* report came in between, is there for the repeat that begins to count it.
Backed ==
    /\ claimed + Owed <= presses
    /\ pushed /\ count = 0 /\ ~Doomed => claimed + Len(reports) + 1 <= presses

\* A press is repeated when its release interval is over, so that no repeat is
\* taken for a second press.
NotSecond ==
    /\ ~polled => \A i \in DOMAIN reports : reports[i] < Interval + Grace
    /\ pushed /\ ~repeating =>
          /\ \A i \in DOMAIN reports : reports[i] + sent < Interval + Grace
          /\ sent <= RepeatStart + 1
          /\ releaseAge > Interval \/ sent < releaseAge + Interval + Grace
          /\ count > 0 => releaseAge > Interval \/ sent <= releaseAge
    /\ pushed /\ repeating =>
          /\ reports = <<>>
          /\ \/ Doomed \/ releaseAge > Interval
             \/ sent + (RepeatStart + 1) + 1 <= releaseAge + (Interval + Grace)
    /\ Doomed => sent = 0

ButtonInv == ButtonTypeOK /\ Tracking /\ Backed /\ NotSecond

LEMMA DelaysAre ==
    /\ Interval \in Nat /\ Grace \in Nat \ {0} /\ Ultra \in Nat /\ Long \in Nat
    /\ RepeatStart \in Nat \ {0} /\ RepeatEvery \in Nat \ {0}
    /\ Interval + Grace <= RepeatStart + 1
    /\ Interval + (Interval + Grace) <= (RepeatStart + 1) + (RepeatEvery + 1)
BY DelaysAssumption, RepeatsAssumption

\* What the steps do to the delayed reports.
LEMMA ReportsOf ==
    ASSUME NEW s \in Seq(0..Interval + Grace)
    PROVE  /\ Len(s) \in Nat /\ DOMAIN s = 1..Len(s)
           /\ \A i \in DOMAIN s : s[i] \in 0..Interval + Grace
           /\ s = <<>> <=> Len(s) = 0
BY ElementOfSeq, LenProperties, EmptySeq

LEMMA ReportsLess ==
    ASSUME NEW s \in Seq(0..Interval + Grace), s # <<>>
    PROVE  /\ Front(s) \in Seq(0..Interval + Grace) /\ Len(Front(s)) = Len(s) - 1
           /\ \A i \in DOMAIN Front(s) : i \in DOMAIN s /\ Front(s)[i] = s[i]
           /\ Tail(s) \in Seq(0..Interval + Grace) /\ Len(Tail(s)) = Len(s) - 1
           /\ \A i \in DOMAIN Tail(s) : i + 1 \in DOMAIN s /\ Tail(s)[i] = s[i + 1]
<1>1. Len(s) \in Nat \ {0} /\ DOMAIN s = 1..Len(s)
  BY LenProperties, EmptySeq
<1>2. /\ Front(s) \in Seq(0..Interval + Grace) /\ Len(Front(s)) = Len(s) - 1
      /\ \A i \in DOMAIN Front(s) : i \in DOMAIN s /\ Front(s)[i] = s[i]
  <2> DEFINE n == Len(s) - 1
             f == Front(s)
  <2>1. f = SubSeq(s, 1, n)
    BY DEF Front
  <2>2. n \in Nat /\ n < Len(s)
    BY <1>1
  <2>3. \A i \in 1..n : s[i] \in 0..Interval + Grace
    <3>1. \A i \in 1..Len(s) : s[i] \in 0..Interval + Grace
      BY ElementOfSeq
    <3> HIDE DEF n
    <3> QED BY <1>1, <2>2, <3>1
  <2>4. /\ f \in Seq(0..Interval + Grace)
        /\ Len(f) = IF 1 <= n THEN n - 1 + 1 ELSE 0
        /\ \A i \in 1..n - 1 + 1 : f[i] = s[1 + i - 1]
    <3> HIDE DEF f, n
    <3> QED BY <2>1, <2>2, <2>3, SubSeqProperties
  <2> HIDE DEF f, n
  <2>5. Len(f) = n /\ \A i \in 1..n : f[i] = s[i]
    BY <2>2, <2>4
  <2>6. DOMAIN f = 1..n /\ 1..n \subseteq DOMAIN s
    BY <1>1, <2>2, <2>4, <2>5, LenProperties
  <2> QED BY <2>4, <2>5, <2>6 DEF f, n
<1>3. /\ Tail(s) \in Seq(0..Interval + Grace) /\ Len(Tail(s)) = Len(s) - 1
      /\ \A i \in DOMAIN Tail(s) : i + 1 \in DOMAIN s /\ Tail(s)[i] = s[i + 1]
  BY <1>1
<1> QED BY <1>2, <1>3

LEMMA ReportsMore ==
    ASSUME NEW s \in Seq(0..Interval + Grace), NEW n \in 0..Interval + Grace
    PROVE  /\ Append(s, n) \in Seq(0..Interval + Grace) /\ Len(Append(s, n)) = Len(s) + 1
           /\ \A i \in DOMAIN Append(s, n) :
                 \/ i \in DOMAIN s /\ Append(s, n)[i] = s[i]
                 \/ Append(s, n)[i] = n
OBVIOUS

\* What the steps do to the clicks to be emitted.
LEMMA OutboxMore ==
    ASSUME ButtonTypeOK, NEW click \in ClickTypes, outbox' = Append(outbox, click)
    PROVE  outbox' \in Seq(ClickTypes) /\ (Doomed' <=> Doomed \/ click = "Ultra")
<1>1. /\ outbox \in Seq(ClickTypes) /\ Len(outbox) \in Nat /\ DOMAIN outbox = 1..Len(outbox)
      /\ DOMAIN outbox' = 1..(Len(outbox) + 1) /\ outbox'[Len(outbox) + 1] = click
      /\ \A i \in 1..Len(outbox) : outbox'[i] = outbox[i]
  BY LenProperties DEF ButtonTypeOK
<1>2. outbox' \in Seq(ClickTypes)
  BY <1>1
<1>3. Len(outbox) + 1 \in DOMAIN outbox'
      /\ \A i \in DOMAIN outbox' : i \in DOMAIN outbox \/ i = Len(outbox) + 1
  BY <1>1
<1> QED BY <1>1, <1>2, <1>3 DEF Doomed

LEMMA OutboxLess ==
    ASSUME ButtonTypeOK, outbox # <<>>, outbox' = Tail(outbox), Head(outbox) # "Ultra"
    PROVE  outbox' \in Seq(ClickTypes) /\ (Doomed' <=> Doomed)
<1>1. /\ outbox \in Seq(ClickTypes) /\ Len(outbox) \in Nat \ {0}
      /\ DOMAIN outbox = 1..Len(outbox)
      /\ outbox' \in Seq(ClickTypes) /\ DOMAIN outbox' = 1..(Len(outbox) - 1)
      /\ \A i \in 1..(Len(outbox) - 1) : outbox'[i] = outbox[i + 1]
      /\ outbox[1] # "Ultra"
  BY LenProperties, EmptySeq DEF ButtonTypeOK
<1>2. Doomed' => Doomed
  <2>1. \A i \in 1..(Len(outbox) - 1) : i + 1 \in DOMAIN outbox
    BY <1>1
  <2> QED BY <1>1, <2>1 DEF Doomed
<1>3. Doomed => Doomed'
  <2> SUFFICES ASSUME NEW i \in DOMAIN outbox, outbox[i] = "Ultra" PROVE Doomed'
    BY DEF Doomed
  <2>1. i - 1 \in 1..(Len(outbox) - 1) /\ (i - 1) + 1 = i
    BY <1>1
  <2> QED BY <1>1, <2>1 DEF Doomed
<1> QED BY <1>1, <1>2, <1>3

\* A press of the button, or a repeated one: what is owed stays backed, a repeat
\* is not taken for a second press.
LEMMA PressKeeps ==
    ASSUME ButtonInv, OnPress,
           \/ ~pushed /\ ~polled /\ presses' = presses + 1
           \/ pushed /\ RepeatDue /\ ~Doomed /\ presses' = presses
    PROVE  /\ count' \in 0..2 /\ pressAge' \in 0..Ultra + 1 /\ releaseAge' \in 0..Interval + 1
           /\ reports' \in Seq(0..Interval + Grace) /\ (tracked' => reports' # <<>>)
           /\ outbox' \in Seq(ClickTypes) /\ claimed' \in Nat /\ tracked' \in BOOLEAN
           /\ (tracked' => count' = 1)
           /\ claimed' + Len(reports') + count' <= presses'
           /\ (count' = 0 => Doomed')
           /\ ~pushed => \A i \in DOMAIN reports' : reports'[i] < Interval + Grace
           /\ pushed => reports' = <<>>
           /\ pushed => \/ Doomed' \/ releaseAge' > Interval
                        \/ (RepeatStart + 1) + 1 <= releaseAge' + (Interval + Grace)
<1>1. /\ ButtonTypeOK /\ Tracking /\ Backed /\ NotSecond
      /\ reports \in Seq(0..Interval + Grace) /\ Len(reports) \in Nat
      /\ count \in 0..2 /\ claimed \in Nat /\ presses \in Nat /\ sent \in Nat
      /\ pressAge \in 0..Ultra + 1 /\ releaseAge \in 0..Interval + 1
      /\ outbox \in Seq(ClickTypes) /\ tracked \in BOOLEAN
  BY DEF ButtonInv, ButtonTypeOK
<1>2. claimed + Len(reports) + count <= presses'
  <2>1. CASE pushed
    <3>1. Owed = Len(reports) + count - 0
      BY <2>1 DEF Owed
    <3> QED BY <1>1, <2>1, <3>1 DEF Backed
  <2>2. CASE ~pushed /\ tracked
    <3>1. Owed = Len(reports) + count - 1
      BY <2>2 DEF Owed
    <3> QED BY <1>1, <2>2, <3>1 DEF Backed
  <2>3. CASE ~pushed /\ ~tracked
    <3>1. Owed = Len(reports) + count - 0
      BY <2>3 DEF Owed
    <3> QED BY <1>1, <2>3, <3>1 DEF Backed
  <2> QED BY <2>1, <2>2, <2>3
<1>3. /\ Interval \in Nat /\ Grace \in Nat \ {0} /\ Ultra \in Nat
      /\ RepeatStart \in Nat \ {0} /\ RepeatEvery \in Nat \ {0}
      /\ Interval + Grace <= RepeatStart + 1
      /\ Interval + (Interval + Grace) <= (RepeatStart + 1) + (RepeatEvery + 1)
  BY DelaysAre
<1>4. ASSUME pushed
      PROVE  /\ reports = <<>> /\ ~tracked /\ (count > 0 => releaseAge > Interval)
             /\ releaseAge > Interval
                \/ (RepeatStart + 1) + 1 <= releaseAge + (Interval + Grace)
  <2>1. CASE ~repeating
    <3>1. sent = RepeatStart + 1
      BY <1>1, <1>3, <1>4, <2>1 DEF RepeatDue, NotSecond
    <3>2. reports = <<>>
      <4>1. \A i \in DOMAIN reports : reports[i] \in Nat /\ reports[i] + sent < Interval + Grace
        BY <1>1, <1>4, <2>1, ReportsOf DEF NotSecond
      <4>2. ASSUME NEW i \in DOMAIN reports PROVE FALSE
        <5>1. reports[i] >= 0 /\ reports[i] \in Nat /\ reports[i] + (RepeatStart + 1) < Interval + Grace
          BY <3>1, <4>1
        <5> QED BY <1>3, <5>1
      <4> QED BY <1>1, <4>2, ReportsOf
    <3>3. /\ releaseAge > Interval \/ sent < releaseAge + Interval + Grace
          /\ count > 0 => releaseAge > Interval \/ sent <= releaseAge
      BY <1>1, <1>4, <2>1 DEF NotSecond
    <3> QED BY <1>1, <1>3, <3>1, <3>2, <3>3 DEF ButtonTypeOK
  <2>2. CASE repeating
    <3>1. sent >= RepeatEvery + 1
      BY <1>1, <1>3, <1>4, <2>2 DEF RepeatDue
    <3>2. /\ reports = <<>>
          /\ releaseAge > Interval
             \/ sent + (RepeatStart + 1) + 1 <= releaseAge + (Interval + Grace)
      BY <1>1, <1>4, <2>2 DEF NotSecond
    <3>3. releaseAge > Interval
      BY <1>1, <1>3, <3>1, <3>2
    <3> QED BY <1>1, <3>2, <3>3 DEF ButtonTypeOK
  <2> QED BY <2>1, <2>2
<1>5. ~pushed => /\ \A i \in DOMAIN reports : reports[i] < Interval + Grace
                 /\ count > 0 => tracked /\ count = 1
                 /\ count = 0 => claimed + Len(reports) + 1 <= presses'
  <2>1. ~pushed => /\ \A i \in DOMAIN reports : reports[i] < Interval + Grace
                   /\ count > 0 => tracked /\ count = 1
    BY <1>1 DEF NotSecond, Tracking
  <2>2. ASSUME ~pushed, count = 0 PROVE claimed + Len(reports) + 1 <= presses'
    <3>1. Owed = Len(reports) + 0 - 0
      BY <1>1, <2>2 DEF Owed, Tracking
    <3> QED BY <1>1, <2>2, <3>1 DEF Backed
  <2> QED BY <2>1, <2>2
<1>6. tracked => reports # <<>> /\ count = 1
  BY <1>1 DEF ButtonTypeOK, Tracking
<1>7. CASE FirstPress
  <2>1. pushed => claimed + Len(reports) + 1 <= presses'
    BY <1>1, <1>7 DEF Backed, FirstPress
  <2> QED BY <1>1, <1>3, <1>4, <1>5, <1>6, <1>7, <2>1 DEF FirstPress
<1>8. CASE HeldTooLong
  <2>1. Doomed' /\ outbox' \in Seq(ClickTypes)
    BY <1>1, <1>8, OutboxMore DEF HeldTooLong, Detected, ClickTypes
  <2>2. /\ count' = 0 /\ pressAge' = 0 /\ releaseAge' = 0
        /\ reports' = reports /\ claimed' = claimed + 1 /\ count > 0
    BY <1>8 DEF HeldTooLong, Detected, Completed
  <2>2a. tracked' \in BOOLEAN /\ ~tracked'
    BY <1>8, Zenon DEF HeldTooLong, Detected, Completed
  <2>3. claimed' + Len(reports') + count' <= presses'
    BY <1>1, <1>2, <2>2
  <2>4. 0 \in 0..Ultra + 1 /\ 0 \in 0..Interval + 1
    BY <1>3
  <2> QED BY <1>1, <1>4, <1>5, <2>1, <2>2, <2>2a, <2>3, <2>4
<1>9. CASE SecondPress
  <2>1. ~pushed /\ tracked /\ count = 1
    BY <1>1, <1>3, <1>4, <1>5, <1>9 DEF SecondPress
  <2>2. reports' = Front(reports)
    BY <1>9, <2>1 DEF SecondPress, RemoveReport
  <2>2a. tracked' \in BOOLEAN /\ ~tracked'
    BY <1>9, Zenon DEF SecondPress, RemoveReport
  <2>3. /\ reports' \in Seq(0..Interval + Grace) /\ Len(reports') = Len(reports) - 1
        /\ \A i \in DOMAIN reports' : i \in DOMAIN reports /\ reports'[i] = reports[i]
    BY <1>1, <1>6, <2>1, <2>2, ReportsLess
  <2>4. /\ count' = 2 /\ claimed' = claimed /\ pressAge' = pressAge
        /\ releaseAge' = releaseAge /\ outbox' = outbox
    BY <1>9, <2>1 DEF SecondPress
  <2>5. claimed' + Len(reports') + count' <= presses'
    BY <1>1, <1>2, <2>1, <2>3, <2>4
  <2>6. \A i \in DOMAIN reports' : reports'[i] < Interval + Grace
    BY <1>5, <2>1, <2>3
  <2> QED BY <1>1, <2>1, <2>2a, <2>3, <2>4, <2>5, <2>6
<1>10. CASE PressIgnored
  BY <1>1, <1>2, <1>3, <1>4, <1>5, <1>6, <1>10 DEF PressIgnored
<1> QED BY <1>7, <1>8, <1>9, <1>10 DEF OnPress

\* The press is at hand, or the repeat.
LEMMA PressSteps ==
    ASSUME ButtonInv, Pressed \/ Repeated
    PROVE  ButtonInv'
<1>1. ButtonTypeOK /\ Tracking /\ Backed /\ NotSecond
  BY DEF ButtonInv
<1>2. /\ OnPress /\ sent' = 0 /\ isOn' = isOn /\ synced' = synced
      /\ presses' \in 0..MaxPresses /\ presses' \in Nat
      /\ polled' \in BOOLEAN /\ pushed' /\ pushed' \in BOOLEAN /\ repeating' \in BOOLEAN
  <2>1. CASE Pressed
    <3>1. presses' \in 0..MaxPresses
      BY <1>1, <2>1, PressesAssumption DEF Pressed, ButtonTypeOK
    <3>2. repeating' \in BOOLEAN /\ sent' = 0 /\ isOn' = isOn /\ synced' = synced
      BY <1>1, <2>1 DEF Pressed, ButtonTypeOK, switchVars
    <3>3. OnPress /\ polled' \in BOOLEAN /\ pushed' /\ pushed' \in BOOLEAN
      BY <2>1, Zenon DEF Pressed
    <3> QED BY <3>1, <3>2, <3>3
  <2>2. CASE Repeated
    <3>1. presses' \in 0..MaxPresses /\ sent' = 0 /\ isOn' = isOn /\ synced' = synced
      BY <1>1, <2>2 DEF Repeated, ButtonTypeOK, switchVars
    <3>2. polled' \in BOOLEAN /\ pushed' /\ pushed' \in BOOLEAN
      BY <1>1, <2>2 DEF Repeated, RepeatDue, ButtonTypeOK
    <3>3. OnPress /\ repeating' \in BOOLEAN
      BY <2>2, Zenon DEF Repeated
    <3> QED BY <3>1, <3>2, <3>3
  <2> QED BY <2>1, <2>2
<1>3. \/ ~pushed /\ ~polled /\ ~repeating' /\ presses' = presses + 1
      \/ pushed /\ RepeatDue /\ ~Doomed /\ repeating' /\ presses' = presses
  <2>1. CASE Pressed
    BY <1>1, <2>1 DEF Pressed, Tracking
  <2>2. CASE Repeated
    <3>1. RepeatDue /\ repeating' /\ presses' = presses
      BY <2>2 DEF Repeated
    <3>2. pushed /\ sent # 0
      BY <1>1, <3>1, DelaysAre DEF RepeatDue, ButtonTypeOK
    <3> QED BY <1>1, <3>1, <3>2 DEF NotSecond
  <2> QED BY <2>1, <2>2
<1>4. /\ count' \in 0..2 /\ pressAge' \in 0..Ultra + 1 /\ releaseAge' \in 0..Interval + 1
      /\ reports' \in Seq(0..Interval + Grace) /\ (tracked' => reports' # <<>>)
      /\ outbox' \in Seq(ClickTypes) /\ claimed' \in Nat /\ tracked' \in BOOLEAN
      /\ (tracked' => count' = 1)
      /\ claimed' + Len(reports') + count' <= presses'
      /\ (count' = 0 => Doomed')
      /\ ~pushed => \A i \in DOMAIN reports' : reports'[i] < Interval + Grace
      /\ pushed => reports' = <<>>
      /\ pushed => \/ Doomed' \/ releaseAge' > Interval
                   \/ (RepeatStart + 1) + 1 <= releaseAge' + (Interval + Grace)
  BY <1>2, <1>3, PressKeeps
<1>5. ButtonTypeOK'
  BY <1>1, <1>2, <1>4 DEF ButtonTypeOK
<1>6. Tracking'
  BY <1>2, <1>4 DEF Tracking
<1>7. Backed'
  <2>1. Owed' = Len(reports') + count' - 0
    BY <1>2 DEF Owed
  <2> QED BY <1>4, <2>1, ReportsOf DEF Backed
<1>8. NotSecond'
  <2>1. \A i \in DOMAIN reports' : reports'[i] < Interval + Grace /\ reports'[i] \in Nat
    BY <1>3, <1>4, ReportsOf
  <2>2. /\ sent' = 0 /\ 0 <= RepeatStart + 1 /\ releaseAge' \in Nat
        /\ sent' < releaseAge' + Interval + Grace /\ sent' <= releaseAge'
    <3>1. sent' = 0 /\ releaseAge' \in 0..Interval + 1
      BY <1>2, <1>4
    <3>2. /\ Interval \in Nat /\ Grace \in Nat /\ Grace # 0 /\ RepeatStart \in Nat
          /\ releaseAge' \in Nat
      BY <3>1, DelaysAre
    <3>3. \A a, b, c \in Nat : c # 0 => 0 < a + b + c
      OBVIOUS
    <3>4. 0 < releaseAge' + Interval + Grace
      BY <3>2, <3>3, Zenon
    <3>5. 0 <= RepeatStart + 1 /\ 0 <= releaseAge'
      BY <3>2
    <3> QED BY <3>1, <3>2, <3>4, <3>5, Zenon
  <2>3. \A i \in DOMAIN reports' : reports'[i] + sent' < Interval + Grace
    BY <2>1, <2>2
  <2>4. repeating' =>
          /\ reports' = <<>>
          /\ \/ Doomed' \/ releaseAge' > Interval
             \/ sent' + (RepeatStart + 1) + 1 <= releaseAge' + (Interval + Grace)
    <3>1. repeating' => pushed
      BY <1>3
    <3>2. sent' + (RepeatStart + 1) + 1 = (RepeatStart + 1) + 1
      BY <2>2, DelaysAre
    <3> QED BY <1>4, <3>1, <3>2
  <2> QED BY <2>1, <2>2, <2>3, <2>4 DEF NotSecond
<1> QED BY <1>5, <1>6, <1>7, <1>8 DEF ButtonInv

LEMMA ReleaseSteps ==
    ASSUME ButtonInv, Released
    PROVE  ButtonInv'
<1>1. /\ ButtonTypeOK /\ Tracking /\ Backed /\ NotSecond
      /\ reports \in Seq(0..Interval + Grace) /\ Len(reports) \in Nat
      /\ count \in 0..2 /\ claimed \in Nat /\ presses \in Nat
      /\ pressAge \in 0..Ultra + 1 /\ releaseAge \in 0..Interval + 1
      /\ outbox \in Seq(ClickTypes) /\ tracked \in BOOLEAN
  BY DEF ButtonInv, ButtonTypeOK
<1>2. /\ pushed /\ OnRelease /\ sent' = 0 /\ presses' = presses
      /\ isOn' = isOn /\ synced' = synced
  BY DEF Released, switchVars
<1>3. /\ polled' /\ ~pushed' /\ ~repeating'
      /\ polled' \in BOOLEAN /\ pushed' \in BOOLEAN /\ repeating' \in BOOLEAN
  BY Zenon DEF Released
<1>4. claimed + Len(reports) + count <= presses
  <2>1. Owed = Len(reports) + count - 0
    BY <1>2 DEF Owed
  <2> QED BY <1>1, <2>1 DEF Backed
<1>5. tracked => reports # <<>> /\ count = 1
  BY <1>1 DEF ButtonTypeOK, Tracking
\* It is enough that the release keeps what the clicks are about.
<1>6. SUFFICES
        /\ count' \in 0..1 /\ pressAge' \in 0..Ultra + 1 /\ releaseAge' \in 0..Interval + 1
        /\ reports' \in Seq(0..Interval + Grace) /\ (tracked' => reports' # <<>>)
        /\ outbox' \in Seq(ClickTypes) /\ claimed' \in Nat /\ tracked' \in BOOLEAN
        /\ (tracked' <=> count' = 1)
        /\ claimed' + Len(reports') <= presses
  <2>1. ButtonTypeOK'
    BY <1>1, <1>2, <1>3, <1>6 DEF ButtonTypeOK
  <2>2. Tracking'
    BY <1>3, <1>6 DEF Tracking
  <2>3. Backed'
    <3>1. CASE tracked'
      <4>1. Owed' = Len(reports') + count' - 1 /\ count' = 1
        BY <1>3, <1>6, <3>1 DEF Owed
      <4> QED BY <1>2, <1>3, <1>6, <4>1, ReportsOf DEF Backed
    <3>2. CASE ~tracked'
      <4>1. Owed' = Len(reports') + count' - 0 /\ count' = 0
        BY <1>3, <1>6, <3>2 DEF Owed
      <4> QED BY <1>2, <1>3, <1>6, <4>1, ReportsOf DEF Backed
    <3> QED BY <3>1, <3>2
  <2>4. NotSecond'
    BY <1>2, <1>3 DEF NotSecond
  <2> QED BY <2>1, <2>2, <2>3, <2>4 DEF ButtonInv
<1>7. ASSUME NEW click \in ClickTypes, NEW n \in 1..2, Detected(click, n), n <= count
      PROVE  /\ count' \in 0..1 /\ pressAge' \in 0..Ultra + 1 /\ releaseAge' \in 0..Interval + 1
             /\ reports' \in Seq(0..Interval + Grace) /\ (tracked' => reports' # <<>>)
             /\ outbox' \in Seq(ClickTypes) /\ claimed' \in Nat /\ tracked' \in BOOLEAN
             /\ (tracked' <=> count' = 1)
             /\ claimed' + Len(reports') <= presses
  <2>1. /\ count' = 0 /\ pressAge' = 0 /\ releaseAge' = 0
        /\ reports' = reports /\ claimed' = claimed + n
    BY <1>7 DEF Detected, Completed
  <2>2. tracked' \in BOOLEAN /\ ~tracked'
    BY <1>7, Zenon DEF Detected, Completed
  <2>3. outbox' \in Seq(ClickTypes)
    BY <1>1, <1>7, OutboxMore DEF Detected
  <2>4. claimed' + Len(reports') <= presses /\ claimed' \in Nat
    BY <1>1, <1>4, <1>7, <2>1
  <2>5. 0 \in 0..Ultra + 1 /\ 0 \in 0..Interval + 1
    BY DelaysAre
  <2> QED BY <1>1, <2>1, <2>2, <2>3, <2>4, <2>5
<1>8. CASE \/ count > 0 /\ pressAge >= Ultra /\ Detected("Ultra", 1)
           \/ count > 0 /\ pressAge \in Long..Ultra - 1 /\ Detected("Long", 1)
           \/ count > 1 /\ pressAge < Long /\ Detected("Double", 2)
  <2>1. "Ultra" \in ClickTypes /\ "Long" \in ClickTypes /\ "Double" \in ClickTypes
    BY DEF ClickTypes
  <2>2. (count > 0 => 1 <= count) /\ (count > 1 => 2 <= count)
    BY <1>1
  <2> QED BY <1>7, <1>8, <2>1, <2>2
<1>9. CASE /\ count = 1 /\ pressAge < Long
           /\ reports' = Append(reports, Interval + Grace) /\ tracked' = TRUE
           /\ releaseAge' = 0
           /\ UNCHANGED <<count, pressAge, outbox, claimed>>
  <2>1. Interval + Grace \in 0..Interval + Grace /\ 0 \in 0..Interval + 1
    BY DelaysAre
  <2>2. reports' \in Seq(0..Interval + Grace) /\ Len(reports') = Len(reports) + 1
    BY <1>1, <1>9, <2>1, ReportsMore
  <2>3. tracked' \in BOOLEAN /\ tracked'
    BY <1>9, Zenon
  <2>4. reports' # <<>>
    BY <1>1, <2>2
  <2>5. /\ count' = 1 /\ pressAge' = pressAge /\ releaseAge' = 0
        /\ outbox' = outbox /\ claimed' = claimed
    BY <1>9
  <2>6. claimed' + Len(reports') <= presses
    BY <1>1, <1>4, <1>9, <2>2, <2>5
  <2> QED BY <1>1, <2>1, <2>2, <2>3, <2>4, <2>5, <2>6
<1>10. CASE /\ count = 0
            /\ releaseAge' = 0
            /\ UNCHANGED <<count, pressAge, reports, tracked, outbox, claimed>>
  <2>1. ~tracked /\ 0 \in 0..Interval + 1
    BY <1>5, <1>10, DelaysAre
  <2> QED BY <1>1, <1>4, <1>10, <2>1
<1> QED BY <1>2, <1>8, <1>9, <1>10 DEF OnRelease

LEMMA ReportSteps ==
    ASSUME ButtonInv, SingleReported
    PROVE  ButtonInv'
<1>1. /\ ButtonTypeOK /\ Tracking /\ Backed /\ NotSecond
      /\ reports \in Seq(0..Interval + Grace) /\ Len(reports) \in Nat
      /\ count \in 0..2 /\ claimed \in Nat /\ presses \in Nat
      /\ pressAge \in 0..Ultra + 1 /\ releaseAge \in 0..Interval + 1
      /\ outbox \in Seq(ClickTypes) /\ tracked \in BOOLEAN /\ sent \in Nat
  BY DEF ButtonInv, ButtonTypeOK
<1>2. /\ reports # <<>> /\ reports[1] = 0 /\ reports' = Tail(reports)
      /\ count' = 0 /\ pressAge' = 0 /\ releaseAge' = 0 /\ claimed' = claimed + 1
      /\ synced' = synced
      /\ UNCHANGED <<polled, pushed, repeating, sent, outbox, presses>>
  BY <1>1 DEF SingleReported, Completed, Toggle
<1>3. tracked' \in BOOLEAN /\ ~tracked' /\ isOn' \in BOOLEAN
  BY Zenon DEF SingleReported, Completed, Toggle
<1>4. /\ reports' \in Seq(0..Interval + Grace) /\ Len(reports') = Len(reports) - 1
      /\ \A i \in DOMAIN reports' : i + 1 \in DOMAIN reports /\ reports'[i] = reports[i + 1]
  BY <1>1, <1>2, ReportsLess
<1>5. /\ claimed + Len(reports) <= presses
      /\ pushed => \/ count = 0
                   \/ claimed + Len(reports) + 1 <= presses
  <2>1. CASE tracked /\ ~pushed
    <3>1. Owed = Len(reports) + 1 - 1
      BY <1>1, <2>1 DEF Owed, Tracking
    <3> QED BY <1>1, <2>1, <3>1 DEF Backed
  <2>2. CASE ~(tracked /\ ~pushed)
    <3>1. Owed = Len(reports) + count - 0
      BY <2>2 DEF Owed
    <3> QED BY <1>1, <3>1 DEF Backed
  <2> QED BY <2>1, <2>2
<1>6. ButtonTypeOK'
  BY <1>1, <1>2, <1>3, <1>4, DelaysAre DEF ButtonTypeOK
<1>7. Tracking'
  BY <1>1, <1>2, <1>3 DEF Tracking
<1>8. Doomed' <=> Doomed
  BY <1>2 DEF Doomed
<1>9. Backed'
  <2>1. Owed' = Len(reports') + 0 - 0
    BY <1>2, <1>3 DEF Owed
  <2>2. claimed' + Owed' <= presses'
    BY <1>1, <1>2, <1>4, <1>5, <2>1
  <2>3. pushed' /\ ~Doomed' => claimed' + Len(reports') + 1 <= presses'
    BY <1>1, <1>2, <1>4, <1>5, <1>8 DEF Backed
  <2> QED BY <2>2, <2>3 DEF Backed
<1>10. NotSecond'
  <2>1. pushed /\ ~repeating => sent < Interval + Grace
    <3> SUFFICES ASSUME pushed, ~repeating PROVE sent < Interval + Grace
      OBVIOUS
    <3>1. 1 \in DOMAIN reports
      BY <1>1, <1>2, ReportsOf
    <3>2. reports[1] + sent < Interval + Grace
      BY <1>1, <3>1 DEF NotSecond
    <3> QED BY <1>1, <1>2, <3>2
  <2>2. ~(pushed /\ repeating)
    BY <1>1, <1>2 DEF NotSecond
  <2>3. ~polled' => \A i \in DOMAIN reports' : reports'[i] < Interval + Grace
    BY <1>1, <1>2, <1>4 DEF NotSecond
  <2>4. pushed' /\ ~repeating' =>
          /\ \A i \in DOMAIN reports' : reports'[i] + sent' < Interval + Grace
          /\ sent' <= RepeatStart + 1
    BY <1>1, <1>2, <1>4 DEF NotSecond
  <2>5. pushed' /\ ~repeating' => sent' < releaseAge' + Interval + Grace
    BY <1>1, <1>2, <2>1, DelaysAre
  <2>6. Doomed' => sent' = 0
    BY <1>1, <1>2, <1>8 DEF NotSecond
  <2>7. count' = 0 /\ ~(pushed' /\ repeating')
    BY <1>2, <2>2
  <2> QED BY <2>3, <2>4, <2>5, <2>6, <2>7 DEF NotSecond
<1> QED BY <1>6, <1>7, <1>9, <1>10 DEF ButtonInv

\* The steps that leave the tracking of the clicks alone.
LEMMA OtherSteps ==
    ASSUME ButtonInv, SameLevel \/ ClickEmitted \/ UltraRestarts \/ SwitchSet
    PROVE  ButtonInv'
<1>1. /\ ButtonTypeOK /\ Tracking /\ Backed /\ NotSecond
  BY DEF ButtonInv
<1>2. CASE SameLevel
  <2>1. /\ isOn' = isOn /\ synced' = synced
        /\ UNCHANGED <<pushed, repeating, sent, presses, count, pressAge, releaseAge,
                       reports, tracked, outbox, claimed>>
    BY <1>2 DEF SameLevel, clickVars, switchVars
  <2>2. polled' /\ polled' \in BOOLEAN
    BY <1>2, Zenon DEF SameLevel
  <2>3. Doomed' <=> Doomed
    BY <2>1 DEF Doomed
  <2>4. ButtonTypeOK' /\ Tracking'
    BY <1>1, <2>1, <2>2 DEF ButtonTypeOK, Tracking
  <2>5. Backed'
    BY <1>1, <2>1, <2>3 DEF Backed, Owed
  <2>6. NotSecond'
    BY <1>1, <2>1, <2>2, <2>3 DEF NotSecond
  <2> QED BY <2>4, <2>5, <2>6 DEF ButtonInv
<1>3. CASE ClickEmitted
  <2>1. /\ UNCHANGED <<polled, pushed, repeating, sent, presses, count, pressAge,
                       releaseAge, reports, tracked, claimed>>
    BY <1>3 DEF ClickEmitted
  <2>2. isOn' \in BOOLEAN /\ synced' \in {"none", "on", "off"}
    BY <1>1, <1>3 DEF ClickEmitted, Toggle, ButtonTypeOK
  <2>3. (Doomed' <=> Doomed) /\ outbox' \in Seq(ClickTypes)
    BY <1>1, <1>3, OutboxLess DEF ClickEmitted
  <2>4. ButtonTypeOK' /\ Tracking'
    BY <1>1, <2>1, <2>2, <2>3 DEF ButtonTypeOK, Tracking
  <2>5. Backed'
    BY <1>1, <2>1, <2>3 DEF Backed, Owed
  <2>6. NotSecond'
    BY <1>1, <2>1, <2>3 DEF NotSecond
  <2> QED BY <2>4, <2>5, <2>6 DEF ButtonInv
<1>4. CASE SwitchSet
  <2>1. /\ synced' = synced /\ isOn' \in BOOLEAN
        /\ UNCHANGED <<polled, pushed, repeating, sent, presses, count, pressAge, releaseAge,
                       reports, tracked, outbox, claimed>>
    BY <1>4 DEF SwitchSet, clickVars
  <2>2. Doomed' <=> Doomed
    BY <2>1 DEF Doomed
  <2> QED BY <1>1, <2>1, <2>2
          DEF ButtonInv, ButtonTypeOK, Tracking, Backed, Owed, NotSecond
<1>5. CASE UltraRestarts
  <2> SUFFICES ASSUME UltraRestarts PROVE ButtonInv'
    BY <1>5
  <2>1. /\ sent' = 0 /\ count' = 0 /\ pressAge' = 0 /\ releaseAge' = 0 /\ reports' = <<>>
        /\ outbox' = <<>> /\ presses' = 0 /\ claimed' = 0 /\ synced' = synced
    BY DEF UltraRestarts
  <2>2. /\ ~polled' /\ ~pushed' /\ ~repeating' /\ ~tracked'
        /\ {polled', pushed', repeating', tracked', isOn'} \subseteq BOOLEAN
    BY Zenon DEF UltraRestarts
  <2>3. /\ <<>> \in Seq(0..Interval + Grace) /\ <<>> \in Seq(ClickTypes) /\ Len(<<>>) = 0
        /\ 0 \in 0..Ultra + 1 /\ 0 \in 0..Interval + 1 /\ 0 \in 0..MaxPresses
    BY DelaysAre, PressesAssumption, EmptySeq
  <2>4. ButtonTypeOK'
    BY <1>1, <2>1, <2>2, <2>3 DEF ButtonTypeOK
  <2>5. Owed' = 0 + 0 - 0
    BY <2>1, <2>2, <2>3 DEF Owed
  <2>6. Tracking' /\ Backed'
    BY <2>1, <2>2, <2>5 DEF Tracking, Backed
  <2>7. NotSecond'
    BY <2>1, <2>2 DEF NotSecond
  <2> QED BY <2>4, <2>6, <2>7 DEF ButtonInv
<1> QED BY <1>2, <1>3, <1>4, <1>5

\* A period goes by: every delay and every age together.
LEMMA TickSteps ==
    ASSUME ButtonInv, ButtonTick
    PROVE  ButtonInv'
<1>1. /\ ButtonTypeOK /\ Tracking /\ Backed /\ NotSecond
      /\ reports \in Seq(0..Interval + Grace) /\ Len(reports) \in Nat
      /\ pressAge \in 0..Ultra + 1 /\ releaseAge \in 0..Interval + 1 /\ sent \in Nat
      /\ count \in 0..2
  BY DEF ButtonInv, ButtonTypeOK
<1>2. /\ outbox = <<>> /\ ~RepeatDue
      /\ \A i \in DOMAIN reports : reports[i] > 0
      /\ sent' = Older(sent, RepeatStart)
      /\ pressAge' = Older(pressAge, Ultra) /\ releaseAge' = Older(releaseAge, Interval)
      /\ reports' = [i \in DOMAIN reports |-> reports[i] - 1]
      /\ isOn' = isOn /\ synced' = synced
      /\ UNCHANGED <<pushed, repeating, count, tracked, outbox, presses, claimed>>
  BY DEF ButtonTick, switchVars
<1>3. ~polled' /\ polled' \in BOOLEAN
  BY Zenon DEF ButtonTick
<1>4. /\ pressAge' \in 0..Ultra + 1 /\ releaseAge' \in 0..Interval + 1 /\ sent' \in Nat
      /\ releaseAge > Interval => releaseAge' > Interval
      /\ releaseAge <= Interval => releaseAge' = releaseAge + 1
      /\ sent' <= sent + 1
  BY <1>1, <1>2, DelaysAre DEF Older
<1>5. /\ reports' \in Seq(0..Interval + Grace) /\ Len(reports') = Len(reports)
      /\ DOMAIN reports' = DOMAIN reports
      /\ \A i \in DOMAIN reports : /\ reports[i] \in 0..Interval + Grace
                                   /\ reports'[i] = reports[i] - 1
                                   /\ reports'[i] \in 0..Interval + Grace
  <2>1. \A i \in DOMAIN reports : reports[i] \in 0..Interval + Grace /\ reports[i] > 0
    BY <1>1, <1>2, ReportsOf
  <2>2. \A i \in DOMAIN reports : /\ reports'[i] = reports[i] - 1
                                  /\ reports'[i] \in 0..Interval + Grace
    BY <1>2, <2>1, DelaysAre
  <2>3. DOMAIN reports = 1..Len(reports)
    BY <1>1, ReportsOf
  <2> QED BY <1>1, <1>2, <2>1, <2>2, <2>3
<1>6. ~Doomed /\ ~Doomed'
  BY <1>2 DEF Doomed
<1>7. ButtonTypeOK'
  <2>1. tracked' => reports' # <<>>
    BY <1>1, <1>2, <1>5, ReportsOf DEF ButtonTypeOK
  <2> QED BY <1>1, <1>2, <1>3, <1>4, <1>5, <2>1 DEF ButtonTypeOK
<1>8. Tracking' /\ Backed'
  BY <1>1, <1>2, <1>5, <1>6 DEF Tracking, Backed, Owed
<1>9. NotSecond'
  <2>1. \A i \in DOMAIN reports' : reports'[i] < Interval + Grace
    BY <1>5, DelaysAre
  <2>2. ASSUME pushed, ~repeating
        PROVE  /\ \A i \in DOMAIN reports' : reports'[i] + sent' < Interval + Grace
               /\ sent' <= RepeatStart + 1
               /\ releaseAge' > Interval \/ sent' < releaseAge' + Interval + Grace
               /\ count' > 0 => releaseAge' > Interval \/ sent' <= releaseAge'
    <3>1. sent <= RepeatStart
      BY <1>1, <1>2, <2>2, DelaysAre DEF RepeatDue
    <3>2. sent' = sent + 1
      BY <1>1, <1>2, <3>1, DelaysAre DEF Older
    <3>3. \A i \in DOMAIN reports' : reports'[i] + sent' < Interval + Grace
      BY <1>1, <1>5, <2>2, <3>2, DelaysAre DEF NotSecond
    <3>4. /\ releaseAge > Interval \/ sent < releaseAge + Interval + Grace
          /\ count > 0 => releaseAge > Interval \/ sent <= releaseAge
      BY <1>1, <2>2 DEF NotSecond
    <3>5. /\ releaseAge' > Interval \/ sent' < releaseAge' + Interval + Grace
          /\ count' > 0 => releaseAge' > Interval \/ sent' <= releaseAge'
      BY <1>1, <1>2, <1>4, <3>2, <3>4, DelaysAre
    <3>6. sent' <= RepeatStart + 1
      BY <1>1, <3>1, <3>2, DelaysAre
    <3> QED BY <3>3, <3>5, <3>6
  <2>3. ASSUME pushed, repeating
        PROVE  /\ reports' = <<>>
               /\ \/ releaseAge' > Interval
                  \/ sent' + (RepeatStart + 1) + 1 <= releaseAge' + (Interval + Grace)
    <3>1. /\ reports = <<>>
          /\ \/ releaseAge > Interval
             \/ sent + (RepeatStart + 1) + 1 <= releaseAge + (Interval + Grace)
      BY <1>1, <1>6, <2>3 DEF NotSecond
    <3>2. reports' = <<>>
      BY <1>1, <1>5, <3>1, ReportsOf
    <3>3. CASE releaseAge > Interval
      BY <1>4, <3>2, <3>3
    <3>4. CASE releaseAge <= Interval
      <4>1. /\ releaseAge' = releaseAge + 1
            /\ sent + (RepeatStart + 1) + 1 <= releaseAge + (Interval + Grace)
        BY <1>1, <1>4, <3>1, <3>4, DelaysAre
      <4>2. \A a, b, s, t, r, q \in Nat :
               t <= s + 1 /\ q = r + 1 /\ s + a + 1 <= r + b => t + a + 1 <= q + b
        OBVIOUS
      <4>3. /\ RepeatStart + 1 \in Nat /\ Interval + Grace \in Nat /\ releaseAge \in Nat
            /\ releaseAge' \in Nat
        BY <1>1, <1>4, DelaysAre
      <4>4. sent' + (RepeatStart + 1) + 1 <= releaseAge' + (Interval + Grace)
        BY <1>1, <1>4, <4>1, <4>2, <4>3, Zenon
      <4> QED BY <3>2, <4>4
    <3> QED BY <1>1, <3>3, <3>4, DelaysAre
  <2> QED BY <1>2, <1>6, <2>1, <2>2, <2>3 DEF NotSecond
<1> QED BY <1>7, <1>8, <1>9 DEF ButtonInv

LEMMA ButtonInitInv == ButtonInit => ButtonInv
<1> SUFFICES ASSUME ButtonInit PROVE ButtonInv
  OBVIOUS
<1>1. /\ sent = 0 /\ count = 0 /\ pressAge = 0 /\ releaseAge = 0 /\ reports = <<>>
      /\ outbox = <<>> /\ presses = 0 /\ claimed = 0 /\ synced = "none"
  BY DEF ButtonInit
<1>2. /\ ~polled /\ ~pushed /\ ~repeating /\ ~tracked
      /\ {polled, pushed, repeating, tracked, isOn} \subseteq BOOLEAN
  BY Zenon DEF ButtonInit
<1>3. /\ <<>> \in Seq(0..Interval + Grace) /\ <<>> \in Seq(ClickTypes) /\ Len(<<>>) = 0
      /\ 0 \in 0..Ultra + 1 /\ 0 \in 0..Interval + 1 /\ 0 \in 0..MaxPresses
  BY DelaysAre, PressesAssumption, EmptySeq
<1>4. ButtonTypeOK
  BY <1>1, <1>2, <1>3 DEF ButtonTypeOK
<1>5. Owed = 0 + 0 - 0
  BY <1>1, <1>2, <1>3 DEF Owed
<1>6. Tracking /\ Backed
  BY <1>1, <1>2, <1>5 DEF Tracking, Backed
<1>7. NotSecond
  BY <1>1, <1>2 DEF NotSecond
<1> QED BY <1>4, <1>6, <1>7 DEF ButtonInv

LEMMA ButtonNextInv == ButtonInv /\ [ButtonNext]_buttonVars => ButtonInv'
<1> SUFFICES ASSUME ButtonInv, [ButtonNext]_buttonVars PROVE ButtonInv'
  OBVIOUS
<1>1. CASE UNCHANGED buttonVars
  BY <1>1 DEF buttonVars, ButtonInv, ButtonTypeOK, Tracking, Backed, Owed, NotSecond, Doomed
<1> QED BY <1>1, PressSteps, ReleaseSteps, ReportSteps, OtherSteps, TickSteps
        DEF ButtonNext

\* Every part of the button keeps its type, and the count of clicks stays below
\* three.
THEOREM ButtonTypeCorrect == ButtonSpec => []ButtonTypeOK
<1>1. ButtonInv => ButtonTypeOK
  BY DEF ButtonInv
<1> QED BY ButtonInitInv, ButtonNextInv, <1>1, PTL DEF ButtonSpec

LEMMA ButtonInvBacked == ButtonInv => ClicksBacked
<1> SUFFICES ASSUME ButtonInv PROVE ClicksBacked
  OBVIOUS
<1>1. /\ claimed + Owed <= presses /\ Len(reports) \in Nat /\ count \in 0..2
      /\ claimed \in Nat /\ presses \in Nat /\ (tracked => count = 1)
  BY ReportsOf DEF ButtonInv, ButtonTypeOK, Backed, Tracking
<1>2. Owed \in Nat
  <2>1. CASE tracked /\ ~pushed
    <3>1. Owed = Len(reports) + 1 - 1
      BY <1>1, <2>1 DEF Owed
    <3> QED BY <1>1, <3>1
  <2>2. CASE ~(tracked /\ ~pushed)
    <3>1. Owed = Len(reports) + count - 0
      BY <2>2 DEF Owed
    <3> QED BY <1>1, <3>1
  <2> QED BY <2>1, <2>2
<1> QED BY <1>1, <1>2 DEF ClicksBacked

\* No press counts twice: for every number of presses, and every delay for which
\* no repeat can come within the interval of a double click.
THEOREM PressesCountOnce == ButtonSpec => []ClicksBacked
BY ButtonInitInv, ButtonNextInv, ButtonInvBacked, PTL DEF ButtonSpec

-----------------------------------------------------------------------------
(* The transforms that measure time. *)

\* Each transform against the age of the last value, which is known up to the
\* limit only: the event that is due first still finds it below.
Debouncing ==
    /\ debounced = last[1]
    /\ settling = 0 => settled = debounced
    /\ settling > 0 => age[1] + settling <= Delay

Repeats ==
    /\ repeatIn = 0 => silent = 0
    /\ repeatIn > 0 => silent + repeatIn <= Every

StopsInTime ==
    last[1] # Invalid =>
        /\ stopIn = 0 => age[1] >= MaxAge
        /\ stopIn > 0 => age[1] + stopIn < MaxAge + Every

ExpiresInTime ==
    /\ expireIn > 0 /\ expiring \in {Invalid, last[1]}
    /\ last[1] # Invalid =>
        /\ expiring = Invalid => age[1] >= MaxAge
        /\ expiring # Invalid => age[1] + expireIn < MaxAge + Every

Pairs ==
    /\ \A i \in Inputs : joined[i] <= MaxAge /\ ~(fresh[i] /\ used[i])
    /\ ~reused

TimedInv ==
    /\ TimedTypeOK
    /\ Debouncing /\ Repeats /\ StopsInTime /\ ExpiresInTime /\ Pairs
    /\ spacing >= MinInterval

LEMMA PeriodsAre ==
    /\ Delay \in Nat \ {0} /\ MinInterval \in Nat \ {0} /\ Every \in Nat \ {0}
    /\ MaxAge \in Nat \ {0} /\ MaxAge + Every \in Nat
BY PeriodsAssumption

LEMMA LimitIsAbove ==
    /\ Limit \in Nat
    /\ Delay < Limit /\ MinInterval < Limit /\ Every < Limit
    /\ MaxAge + Every < Limit
<1> DEFINE Ds == {Delay, MinInterval, Every, MaxAge + Every}
<1>1. \E n \in Ds : \A m \in Ds : m <= n
  <2> DEFINE a == IF Delay <= MinInterval THEN MinInterval ELSE Delay
             b == IF Every <= MaxAge + Every THEN MaxAge + Every ELSE Every
             c == IF a <= b THEN b ELSE a
  <2>1. c \in Ds /\ \A m \in Ds : m <= c
    BY PeriodsAre
  <2> QED BY <2>1
<1> DEFINE d == CHOOSE n \in Ds : \A m \in Ds : m <= n
<1>2. d \in Ds /\ \A m \in Ds : m <= d
  BY <1>1
<1>3. Limit = 1 + d
  BY DEF Limit
<1> HIDE DEF d
<1>4. d \in Nat
  BY <1>2, PeriodsAre
<1> QED BY <1>2, <1>3, <1>4, PeriodsAre

LEMMA TimedInitInv == TimedInit => TimedInv
<1> SUFFICES ASSUME TimedInit PROVE TimedInv
  OBVIOUS
<1>1. /\ 0 \in 0..Limit /\ MaxAge + 1 \in 0..Limit /\ Limit \in 0..Limit
      /\ Every \in 0..Every /\ 0 \in 0..Every /\ 0 \in 0..Delay
  BY LimitIsAbove, PeriodsAre
<1>2. TimedTypeOK
  BY <1>1 DEF TimedInit, TimedTypeOK
<1>3. last[1] = Invalid /\ \A i \in Inputs : joined[i] = 0 /\ ~fresh[i]
  BY DEF TimedInit, Inputs
<1>4. Debouncing /\ Repeats /\ StopsInTime /\ ExpiresInTime /\ Pairs
  BY <1>3, PeriodsAre
  DEF TimedInit, Debouncing, Repeats, StopsInTime, ExpiresInTime, Pairs
<1>5. spacing >= MinInterval
  BY LimitIsAbove, PeriodsAre DEF TimedInit
<1> QED BY <1>2, <1>4, <1>5 DEF TimedInv

\* A value of either producer: what Join and Zip make of it.
LEMMA PairsStep ==
    ASSUME TimedInv, NEW i \in Inputs, NEW v \in Samples, Produced(i, v)
    PROVE  /\ Pairs'
           /\ last' \in [Inputs -> Samples \cup {Invalid}]
           /\ age' \in [Inputs -> 0..Limit]
           /\ joined' \in [Inputs -> 0..Limit]
           /\ fresh' \in [Inputs -> BOOLEAN] /\ used' \in [Inputs -> BOOLEAN]
           /\ reused' \in BOOLEAN
<1>1. /\ last \in [Inputs -> Samples \cup {Invalid}]
      /\ age \in [Inputs -> 0..Limit] /\ joined \in [Inputs -> 0..Limit]
      /\ fresh \in [Inputs -> BOOLEAN] /\ used \in [Inputs -> BOOLEAN]
      /\ reused = FALSE
  BY DEF TimedInv, TimedTypeOK, Pairs
<1>2. /\ \A j \in Inputs : joined[j] <= MaxAge
      /\ \A j \in Inputs : ~(fresh[j] /\ used[j])
  BY DEF TimedInv, Pairs
<1>3. last' = [last EXCEPT ![i] = v] /\ age' = [age EXCEPT ![i] = 0]
  BY DEF Produced
<1>4. /\ last' \in [Inputs -> Samples \cup {Invalid}]
      /\ age' \in [Inputs -> 0..Limit]
  BY <1>1, <1>3, LimitIsAbove
<1>5. joined' \in [Inputs -> 0..Limit] /\ \A j \in Inputs : joined'[j] <= MaxAge
  BY <1>1, <1>2, <1>4 DEF Produced, JoinSet
<1> DEFINE fresh2 == [fresh EXCEPT ![i] = TRUE]
           used2 == [used EXCEPT ![i] = FALSE]
<1>6. /\ fresh2 \in [Inputs -> BOOLEAN] /\ used2 \in [Inputs -> BOOLEAN]
      /\ \A j \in Inputs : ~(fresh2[j] /\ used2[j])
  BY <1>1, <1>2
<1>7. ZipSet(i)
  BY DEF Produced
<1>8. /\ fresh' \in [Inputs -> BOOLEAN] /\ used' \in [Inputs -> BOOLEAN]
      /\ \A j \in Inputs : ~(fresh'[j] /\ used'[j])
      /\ reused' = FALSE
  <2>1. CASE \A j \in Inputs : age'[j] <= MaxAge /\ fresh2[j]
    <3>1. /\ fresh' = [j \in Inputs |-> FALSE] /\ used' = [j \in Inputs |-> TRUE]
          /\ reused' = (reused \/ \E j \in Inputs : used2[j])
      BY <1>7, <2>1 DEF ZipSet
    <3>2. \A j \in Inputs : ~used2[j]
      BY <1>6, <2>1
    <3> QED BY <1>1, <3>1, <3>2
  <2>2. CASE ~(\A j \in Inputs : age'[j] <= MaxAge /\ fresh2[j])
    <3>1. fresh' = fresh2 /\ used' = used2 /\ reused' = reused
      BY <1>7, <2>2 DEF ZipSet
    <3> QED BY <1>1, <1>6, <3>1
  <2> QED BY <2>1, <2>2
<1> QED BY <1>4, <1>5, <1>8 DEF Pairs

LEMMA ProducedKeeps ==
    ASSUME TimedInv, NEW i \in Inputs, NEW v \in Samples, Produced(i, v)
    PROVE  TimedInv'
<1>1. /\ last \in [Inputs -> Samples \cup {Invalid}] /\ age \in [Inputs -> 0..Limit]
      /\ {debounced, settled, expiring} \subseteq Samples \cup {Invalid}
      /\ settling \in 0..Delay
      /\ {repeatIn, stopIn, expireIn} \subseteq 0..Every
      /\ {throttled, spacing, silent} \subseteq 0..Limit
      /\ spacing >= MinInterval
  BY DEF TimedInv, TimedTypeOK
<1>2. last' = [last EXCEPT ![i] = v] /\ age' = [age EXCEPT ![i] = 0]
  BY DEF Produced
<1>3. CASE i = 1
  <2>1. last'[1] = v /\ age'[1] = 0 /\ v # Invalid
    BY <1>1, <1>2, <1>3, PeriodsAssumption
  <2>2. DebounceSet(v) /\ ThrottleSet /\ RepeatSet(v)
    BY <1>3 DEF Produced
  <2>3. Debouncing' /\ settling' \in 0..Delay /\ {debounced', settled'} \subseteq Samples \cup {Invalid}
    <3>1. CASE v = debounced
      <4>1. debounced' = debounced /\ settling' = settling /\ settled' = settled
        BY <2>2, <3>1 DEF DebounceSet, Differs
      <4> QED BY <1>1, <2>1, <3>1, <4>1, PeriodsAre DEF TimedInv, Debouncing
    <3>2. CASE v # debounced
      <4>1. debounced' = v /\ settling' = Delay /\ settled' = settled
        BY <2>2, <3>2 DEF DebounceSet, Differs
      <4> QED BY <1>1, <2>1, <4>1, PeriodsAre DEF Debouncing
    <3> QED BY <3>1, <3>2
  <2>4. /\ {throttled', spacing'} \subseteq 0..Limit /\ spacing' >= MinInterval
    BY <1>1, <2>2, LimitIsAbove, PeriodsAre DEF ThrottleSet
  <2>5. /\ repeatIn' = Every /\ silent' = 0 /\ stopIn' = Every
        /\ expireIn' = Every /\ expiring' = v
    BY <2>2 DEF RepeatSet
  <2>6. Repeats' /\ StopsInTime' /\ ExpiresInTime'
    BY <2>1, <2>5, PeriodsAre DEF Repeats, StopsInTime, ExpiresInTime
  <2>7. TimedTypeOK'
    BY <1>1, <2>3, <2>4, <2>5, PairsStep, LimitIsAbove, PeriodsAre DEF TimedTypeOK
  <2> QED BY <2>3, <2>4, <2>6, <2>7, PairsStep DEF TimedInv
<1>4. CASE i # 1
  <2>1. last'[1] = last[1] /\ age'[1] = age[1]
    BY <1>1, <1>2, <1>4 DEF Inputs
  <2>2. UNCHANGED <<debounced, settling, settled, throttled, spacing, repeatIn,
                    silent, stopIn, expireIn, expiring>>
    BY <1>4 DEF Produced
  <2>3. TimedTypeOK'
    BY <1>1, <2>2, PairsStep DEF TimedTypeOK
  <2>4. Debouncing' /\ Repeats' /\ StopsInTime' /\ ExpiresInTime'
    BY <2>1, <2>2 DEF TimedInv, Debouncing, Repeats, StopsInTime, ExpiresInTime
  <2> QED BY <1>1, <2>2, <2>3, <2>4, PairsStep DEF TimedInv
<1> QED BY <1>3, <1>4

\* When a period ends, an age below the limit grows by one.
LEMMA AgeGrows ==
    ASSUME TimedInv, Period
    PROVE  /\ age' \in [Inputs -> 0..Limit]
           /\ age[1] \in 0..Limit /\ age'[1] \in 0..Limit
           /\ age'[1] >= age[1] /\ age'[1] <= age[1] + 1
<1>1. age \in [Inputs -> 0..Limit] /\ age' = [i \in Inputs |-> Later(age[i])]
  BY DEF TimedInv, TimedTypeOK, Period
<1>2. \A n \in 0..Limit : Later(n) \in 0..Limit /\ Later(n) >= n /\ Later(n) <= n + 1
  BY LimitIsAbove DEF Later
<1> QED BY <1>1, <1>2 DEF Inputs

LEMMA PeriodKeeps == ASSUME TimedInv, Period PROVE TimedInv'
<1>1. /\ {debounced, settled, expiring} \subseteq Samples \cup {Invalid}
      /\ settling \in 0..Delay
      /\ {repeatIn, stopIn, expireIn} \subseteq 0..Every
      /\ {throttled, spacing, silent} \subseteq 0..Limit
  BY DEF TimedInv, TimedTypeOK
<1>2. UNCHANGED <<last, spacing, joined, fresh, used, reused>>
  BY DEF Period
<1>3. throttled' \in 0..Limit
  BY <1>1, LimitIsAbove DEF Period, Later
<1>4. Debouncing' /\ settling' \in 0..Delay /\ settled' \in Samples \cup {Invalid}
      /\ debounced' = debounced
  BY <1>1, <1>2, AgeGrows, PeriodsAre DEF Period, DebounceDue, TimedInv, Debouncing
<1>5. Repeats' /\ repeatIn' \in 0..Every /\ silent' \in 0..Limit
  BY <1>1, PeriodsAre, LimitIsAbove
  DEF Period, RepeaterDue, NextTime, TimedInv, Repeats
<1>6. StopsInTime' /\ stopIn' \in 0..Every
  BY <1>1, <1>2, AgeGrows, PeriodsAre
  DEF Period, StoppingDue, NextTime, TimedInv, StopsInTime
<1>7. ExpiresInTime' /\ expireIn' \in 0..Every /\ expiring' \in Samples \cup {Invalid}
  BY <1>1, <1>2, AgeGrows, PeriodsAre
  DEF Period, ExpiringDue, NextTime, TimedInv, ExpiresInTime
<1>8. Pairs' /\ (spacing >= MinInterval)'
  BY <1>2 DEF TimedInv, Pairs
<1>9. TimedTypeOK'
  BY <1>1, <1>2, <1>3, <1>4, <1>5, <1>6, <1>7, AgeGrows DEF TimedInv, TimedTypeOK
<1> QED BY <1>4, <1>5, <1>6, <1>7, <1>8, <1>9 DEF TimedInv

LEMMA TimedNextInv == TimedInv /\ [TimedNext]_timedVars => TimedInv'
<1> SUFFICES ASSUME TimedInv, [TimedNext]_timedVars PROVE TimedInv'
  OBVIOUS
<1>1. CASE UNCHANGED timedVars
  BY <1>1 DEF timedVars, TimedInv, TimedTypeOK, Debouncing, Repeats, StopsInTime,
      ExpiresInTime, Pairs
<1> QED BY <1>1, ProducedKeeps, PeriodKeeps DEF TimedNext

LEMMA TimedInvSound == TimedInv => TimedSound
<1> SUFFICES ASSUME TimedInv PROVE TimedSound
  OBVIOUS
<1>1. /\ age[1] \in 0..Limit /\ last[1] \in Samples \cup {Invalid}
      /\ settling \in 0..Delay /\ {repeatIn, stopIn, expireIn} \subseteq 0..Every
      /\ silent \in 0..Limit
  BY DEF TimedInv, TimedTypeOK, Inputs
<1>2. DebounceSettles
  BY <1>1, PeriodsAre DEF DebounceSettles, TimedInv, Debouncing
<1>3. FreshOrExpired
  <2> SUFFICES ASSUME last[1] # Invalid
               PROVE  /\ age[1] < MaxAge => expiring = last[1] /\ stopIn > 0
                      /\ age[1] >= MaxAge + Every => expiring = Invalid /\ stopIn = 0
                      /\ expiring \in {Invalid, last[1]}
                      /\ age[1] \notin MaxAge..MaxAge + Every - 1
                           => ExpiringValue = expiring
    BY DEF FreshOrExpired
  <2>1. expiring \in {Invalid, last[1]}
    BY DEF TimedInv, ExpiresInTime
  <2>2. age[1] < MaxAge => expiring = last[1] /\ stopIn > 0
    BY <1>1, <2>1, PeriodsAre DEF TimedInv, ExpiresInTime, StopsInTime
  <2>3. age[1] >= MaxAge + Every => expiring = Invalid /\ stopIn = 0
    BY <1>1, <2>1, PeriodsAre DEF TimedInv, ExpiresInTime, StopsInTime
  <2>4. age[1] \notin MaxAge..MaxAge + Every - 1 =>
           \/ age[1] < MaxAge /\ age[1] <= MaxAge
           \/ age[1] >= MaxAge + Every /\ ~(age[1] <= MaxAge)
    BY <1>1, PeriodsAre
  <2> QED BY <2>1, <2>2, <2>3, <2>4 DEF ExpiringValue
<1>4. OnTime
  BY <1>1, PeriodsAre DEF OnTime, TimedInv, Repeats, Pairs
<1> QED BY <1>2, <1>3, <1>4 DEF TimedSound

\* The transforms that measure time keep what they promise, for every length of
\* the intervals and however the values of the two producers come: Debounce emits
\* the last value once the input is quiet, the Repeat transforms neither expire a
\* value early nor go on with one that is old, and no tuple is zipped of old or
\* used values.
THEOREM TimesAreKept == TimedSpec => [](TimedTypeOK /\ TimedSound)
<1>1. TimedInv => TimedTypeOK /\ TimedSound
  BY TimedInvSound DEF TimedInv
<1> QED BY TimedInitInv, TimedNextInv, <1>1, PTL DEF TimedSpec

-----------------------------------------------------------------------------
(* The card that is edited while it is saved. *)

\* While a save is on its way the card is marked as edited; what it shows is what
\* was sent, and once the device has taken it what the device uses, but for the
\* exceptions. What is shown outside a number input with the focus is rounded.
Saving ==
    /\ isSaving => isDirty
    /\ put \in Forms /\ ~overtaken /\ ~entered => Shown = Rounded[put]
    /\ put = Done /\ ~overtaken /\ ~entered /\ ~crossed /\ ~elsewhere =>
         Shown = Rounded[device]

CardInv == CardTypeOK /\ Saving /\ CleanCardTrue

\* Distinct answers, none of them a form, and a field without focus is none.
LEMMA CardWords ==
    /\ NoPut \notin Forms /\ Done \notin Forms /\ Refused \notin Forms
    /\ Blurred \notin Forms
    /\ NoPut # Done /\ NoPut # Refused /\ Done # Refused
    /\ \A f \in Forms : Rounded[f] \in Forms /\ Rounded[Rounded[f]] = Rounded[f]
    /\ Partial \notin Forms
BY FormsAssumption DEF NoPut, Done, Refused, Blurred

LEMMA CardInitInv == CardInit => CardInv
<1> SUFFICES ASSUME CardInit PROVE CardInv
  OBVIOUS
<1>1. /\ form \in Forms /\ device = form /\ put = NoPut /\ late = {}
      /\ field = Blurred /\ isDirty = FALSE /\ isSaving = FALSE
      /\ entered = FALSE /\ overtaken = FALSE /\ refused = FALSE
      /\ crossed = FALSE /\ elsewhere = FALSE
  BY DEF CardInit
<1>2. Shown = Rounded[device]
  BY <1>1 DEF Shown
<1> QED BY <1>1, <1>2, CardWords DEF CardInv, CardTypeOK, Saving, CleanCardTrue

\* A number input that gets or loses the focus changes nothing the user sees, if
\* what it shows is rounded.
LEMMA VisitShowsTheSame ==
    ASSUME CardTypeOK, Focus \/ Blur
    PROVE  /\ Focus => Shown' = Shown
           /\ \A f \in Forms : Shown = Rounded[f] => Shown' = Rounded[f]
<1>1. CASE Focus
  <2>1. field' = Shown /\ Shown \in Forms /\ form' = form
    BY <1>1, CardWords DEF Focus, Shown, CardTypeOK
  <2>2. field' # Blurred
    BY <2>1, CardWords
  <2>3. Shown' = field'
    BY <2>2 DEF Shown
  <2> QED BY <2>1, <2>3
<1>2. CASE Blur
  <2>1. field \in Forms /\ Shown = field /\ form' = field /\ field' = Blurred
    BY <1>2 DEF Blur, Shown, CardTypeOK
  <2>2. Shown' = Rounded[field]
    BY <2>1 DEF Shown
  <2>3. ~Focus
    BY <1>2 DEF Blur, Focus
  <2> QED BY <2>1, <2>2, <2>3, CardWords
<1> QED BY <1>1, <1>2

LEMMA CardNextInv == CardInv /\ [CardNext]_cardEditVars => CardInv'
<1> SUFFICES ASSUME CardInv, [CardNext]_cardEditVars PROVE CardInv'
  OBVIOUS
<1> USE DEF CardInv, CardTypeOK, Saving, CleanCardTrue
<1>0. ASSUME MarkEdited, form' \in Forms \cup {Partial}, field' \in Forms \cup {Blurred}
      PROVE  CardInv'
  <2>1. /\ isDirty' = TRUE /\ overtaken' = (overtaken \/ isSaving)
        /\ UNCHANGED <<isSaving, put, late, device, entered, refused, crossed, elsewhere>>
    BY <1>0 DEF MarkEdited
  <2>2. overtaken' \in BOOLEAN
    BY <2>1, Zenon
  <2>3. put' # NoPut => overtaken' = TRUE
    BY <2>1, Zenon
  <2>4. CardTypeOK'
    BY <1>0, <2>1, <2>2
  <2>5. put' \in Forms \/ put' = Done => overtaken' = TRUE
    BY <2>3, CardWords, Zenon
  <2> QED BY <2>1, <2>4, <2>5, Zenon
<1>1. ASSUME NEW v \in Forms \cup {Partial}, Edit(v) PROVE CardInv'
  BY <1>0, <1>1, Zenon DEF Edit
<1>2. ASSUME NEW v \in Forms, Type(v) PROVE CardInv'
  BY <1>0, <1>2, Zenon DEF Type
<1>3. ASSUME NEW v \in Forms, ChangesElsewhere(v) PROVE CardInv'
  <2>1. Shown' = Shown
    BY <1>3 DEF ChangesElsewhere, Shown
  <2> QED BY <1>3, <2>1 DEF ChangesElsewhere
<1>4. CASE Focus \/ Blur
  <2>1. /\ form' \in Forms \cup {Partial} /\ field' \in Forms \cup {Blurred}
        /\ UNCHANGED <<isDirty, isSaving, put, late, device, entered, overtaken,
                       refused, crossed, elsewhere>>
    BY <1>4, CardWords DEF Focus, Blur, Shown, exceptions
  <2>2. \A f \in Forms : Shown = Rounded[f] => Shown' = Rounded[f]
    BY <1>4, VisitShowsTheSame
  <2> QED BY <2>1, <2>2
<1>5. CASE HandleSave
  <2>1. Shown' = Shown /\ form \in Forms
    BY <1>5 DEF HandleSave, Shown
  <2> QED BY <1>5, <2>1, CardWords DEF HandleSave
<1>6. CASE Handled
  <2>1. Shown' = Shown
    BY <1>6 DEF Handled, Shown
  <2> QED BY <1>6, <2>1, CardWords DEF Handled
<1>7. CASE Answered
  <2>1. Shown' = Shown
    BY <1>7 DEF Answered, Shown
  <2> QED BY <1>7, <2>1, CardWords DEF Answered
<1>8. CASE ConnectionBreaks
  <2>1. Shown' = Shown
    BY <1>8 DEF ConnectionBreaks, Shown
  <2> QED BY <1>8, <2>1, CardWords DEF ConnectionBreaks, StaysDirty, exceptions
<1>9. CASE LateHandled
  <2>1. Shown' = Shown
    BY <1>9 DEF LateHandled, Shown
  <2> QED BY <1>9, <2>1 DEF LateHandled
<1>10. CASE UNCHANGED cardEditVars
  <2>1. Shown' = Shown
    BY <1>10 DEF cardEditVars, Shown
  <2> QED BY <1>10, <2>1 DEF cardEditVars, exceptions
<1> QED BY <1>1, <1>2, <1>3, <1>4, <1>5, <1>6, <1>7, <1>8, <1>9, <1>10 DEF CardNext

\* A card with Save disabled shows what the device uses, but for the five cases
\* the property names: for all contents of a form, however its number input rounds
\* them, and however edits, visits to the input, answers, broken connections, late
\* saves and changes made elsewhere follow each other.
THEOREM CleanCardsAreTrue == CardSpec => [](CardTypeOK /\ CleanCardTrue)
<1>1. CardInv => CardTypeOK /\ CleanCardTrue
  BY DEF CardInv
<1> QED BY CardInitInv, CardNextInv, <1>1, PTL DEF CardSpec

-----------------------------------------------------------------------------
(* The search for networks. *)

LEMMA ScanInitType == ScanInit => ScanTypeOK
<1> SUFFICES ASSUME ScanInit PROVE ScanTypeOK
  OBVIOUS
<1>1. open \in BOOLEAN /\ isScanning \in BOOLEAN
  BY Zenon DEF ScanInit
<1> QED BY <1>1, ChainsAssumption DEF ScanInit, ScanTypeOK

LEMMA ScanNextType == ScanTypeOK /\ [ScanNext]_scanVars => ScanTypeOK'
<1> SUFFICES ASSUME ScanTypeOK, [ScanNext]_scanVars PROVE ScanTypeOK'
  OBVIOUS
<1> USE DEF ScanTypeOK
<1>0. open' \in BOOLEAN /\ isScanning' \in BOOLEAN
  BY Zenon
  DEF ScanNext, ScanStep, IntervalFires, Started, PollRefused, ScanEnds, ResultsShown,
      ScanFails, OtherPage, OpenPage, ClosePage, StartLost, PollLost, UpdateNetworks,
      scanVars, listVars
<1>1. AfterStart \subseteq {"none", "running", "done"}
  BY DEF AfterStart
<1>2. Failure => failures' \in 0..MaxFailures
  BY ChainsAssumption DEF Failure
<1>3. CASE IntervalFires \/ OpenPage
  BY <1>0, <1>3, ChainsAssumption DEF IntervalFires, OpenPage, UpdateNetworks
<1>4. CASE Started
  <2>1. scan' \in {"none", "running", "done"} /\ failures' \in 0..MaxFailures
    BY <1>1, <1>2, <1>4 DEF Started, StartWifiScan
  <2> QED BY <1>4, <2>1, ChainsAssumption DEF Started
<1>5. CASE StartLost
  <2>1. scan' \in {"none", "running", "done"} /\ failures' \in 0..MaxFailures
    BY <1>1, <1>2, <1>5 DEF StartLost
  <2> QED BY <1>5, <2>1, ChainsAssumption DEF StartLost
<1>6. CASE PollRefused \/ ResultsShown
  BY <1>0, <1>6, ChainsAssumption DEF PollRefused, ResultsShown
<1>7. CASE PollLost
  BY <1>2, <1>7, ChainsAssumption DEF PollLost
<1>8. CASE ScanEnds \/ ScanFails \/ OtherPage
  <2>1. scan' \in {"none", "running", "done"} /\ failures' \in 0..MaxFailures
    BY <1>1, <1>2, <1>8 DEF ScanEnds, ScanFails, OtherPage
  <2> QED BY <1>8, <2>1 DEF ScanEnds, ScanFails, OtherPage, listVars
<1>9. CASE ClosePage
  BY <1>0, <1>9, ChainsAssumption DEF ClosePage
<1>10. CASE UNCHANGED scanVars
  BY <1>10 DEF scanVars, listVars
<1> QED BY <1>3, <1>4, <1>5, <1>6, <1>7, <1>8, <1>9, <1>10 DEF ScanNext, ScanStep

-----------------------------------------------------------------------------
(* Sums over finite sets: what FoldFunctionOnSet(+, ...) computes. It is     *)
(* defined by recursion on sets; that the function exists follows from an    *)
(* element of the least size among the sets where it would not.              *)

SumOn(f, S) == FoldFunctionOnSet(+, 0, f, S)

One(s) == CHOOSE x \in s : TRUE

Adds(g, f, S) ==
  g = [s \in SUBSET S |-> IF s = {} THEN 0 ELSE f[One(s)] + g[s \ {One(s)}]]

LEMMA IterIs ==
    ASSUME NEW f, NEW S
    PROVE  SumOn(f, S) = (CHOOSE g : Adds(g, f, S))[S]
BY DEF SumOn, FoldFunctionOnSet, MapThenFoldSet, Adds, One

LEMMA LeastNat ==
    ASSUME NEW T \in SUBSET Nat, T # {}
    PROVE  \E x \in T : \A y \in T : x <= y
<1>1. PICK x \in T : \A y \in T : ~(<<y, x>> \in OpToRel(<, Nat))
  BY NatLessThanWellFounded, WFMin
<1>2. \A y \in T : <<y, x>> \in OpToRel(<, Nat) <=> y < x
  BY DEF OpToRel
<1>3. \A y \in T : ~(y < x)
  BY <1>1, <1>2, Zenon
<1>4. \A y \in T : x <= y
  BY <1>3
<1> QED BY <1>4

\* The subset with the least elements.
LEMMA LeastSet ==
    ASSUME NEW S, IsFiniteSet(S), NEW B \in SUBSET (SUBSET S), B # {}
    PROVE  \E s \in B : \A t \in B : ~(t \subseteq s /\ t # s)
<1> DEFINE Sizes == {Cardinality(t) : t \in B}
<1>1. \A t \in B : IsFiniteSet(t) /\ Cardinality(t) \in Nat
  BY FS_Subset, FS_CardinalityType
<1>2. Sizes \in SUBSET Nat /\ Sizes # {}
  BY <1>1
<1>3. PICK n \in Sizes : \A m \in Sizes : n <= m
  BY <1>2, LeastNat
<1>4. PICK s \in B : n = Cardinality(s)
  BY <1>3
<1>5. ASSUME NEW t \in B, t \subseteq s, t # s PROVE FALSE
  <2>1. Cardinality(s) <= Cardinality(t)
    BY <1>3, <1>4
  <2>2. Cardinality(t) <= Cardinality(s) /\ (Cardinality(s) = Cardinality(t) => s = t)
    BY <1>1, <1>5, FS_Subset
  <2> QED BY <1>1, <1>5, <2>1, <2>2
<1> QED BY <1>4, <1>5

LEMMA OneIn == ASSUME NEW s, s # {} PROVE One(s) \in s
BY DEF One

\* The recursive function of the fold exists.
LEMMA IterExists ==
    ASSUME NEW f, NEW S, IsFiniteSet(S)
    PROVE  \E g : Adds(g, f, S)
<1> DEFINE Small(n) == {s \in SUBSET S : Cardinality(s) <= n}
           Upto(g, n) == g = [s \in Small(n) |->
                                IF s = {} THEN 0 ELSE f[One(s)] + g[s \ {One(s)}]]
           Bad == {n \in Nat : ~\E g : Upto(g, n)}
<1>1. \A s \in SUBSET S : IsFiniteSet(s) /\ Cardinality(s) \in Nat
  BY FS_Subset, FS_CardinalityType
<1>2. \A s \in SUBSET S : s # {} =>
         s \ {One(s)} \in SUBSET S /\ Cardinality(s \ {One(s)}) = Cardinality(s) - 1
  BY <1>1, OneIn, FS_RemoveElement
<1>3. \A s \in SUBSET S : Cardinality(s) = 0 => s = {}
  BY <1>1, FS_EmptySet
<1>4. Bad = {}
  <2> SUFFICES ASSUME Bad # {} PROVE FALSE
    OBVIOUS
  <2>1. PICK n \in Bad : \A m \in Bad : n <= m
    BY LeastNat
  <2>2. CASE n = 0
    <3> DEFINE g == [s \in Small(0) |-> 0]
    <3>1. \A s \in Small(0) : s = {}
      BY <1>1, <1>3
    <3>2. [s \in Small(0) |-> IF s = {} THEN 0 ELSE f[One(s)] + g[s \ {One(s)}]]
              = [s \in Small(0) |-> 0]
      BY <3>1
    <3>3. Upto(g, 0)
      BY <3>2
    <3> QED BY <2>1, <2>2, <3>3
  <2>3. CASE n # 0
    <3>0. n \in Nat
      BY <2>1
    <3>1. n - 1 \in Nat /\ n - 1 \notin Bad
      <4>1. n - 1 \in Nat /\ ~(n <= n - 1)
        BY <2>3, <3>0
      <4> HIDE DEF Bad
      <4> QED BY <2>1, <4>1
    <3>2. PICK h : Upto(h, n - 1)
      BY <3>1
    <3> DEFINE g == [s \in Small(n) |-> IF s = {} THEN 0 ELSE f[One(s)] + h[s \ {One(s)}]]
    <3>3. \A s \in Small(n - 1) : g[s] = h[s]
      <4> SUFFICES ASSUME NEW s \in Small(n - 1) PROVE g[s] = h[s]
        OBVIOUS
      <4>1. s \in Small(n)
        BY <1>1, <3>1
      <4>2. h[s] = IF s = {} THEN 0 ELSE f[One(s)] + h[s \ {One(s)}]
        BY <3>2, Zenon
      <4> QED BY <4>1, <4>2, Zenon
    <3>4. \A s \in Small(n) : s # {} => s \ {One(s)} \in Small(n - 1)
      BY <1>1, <1>2, <3>1
    <3>5. \A s \in Small(n) :
              (IF s = {} THEN 0 ELSE f[One(s)] + h[s \ {One(s)}])
                = (IF s = {} THEN 0 ELSE f[One(s)] + g[s \ {One(s)}])
      BY <3>3, <3>4, Zenon
    <3>6. g = [s \in Small(n) |-> IF s = {} THEN 0 ELSE f[One(s)] + g[s \ {One(s)}]]
      BY <3>5, Zenon
    <3>7. \E gg : Upto(gg, n)
      <4> HIDE DEF g
      <4>1. Upto(g, n)
         BY <3>6
      <4> QED BY <4>1
    <3> QED BY <2>1, <3>7
  <2> QED BY <2>2, <2>3
<1>5. Cardinality(S) \in Nat /\ Small(Cardinality(S)) = SUBSET S
  BY <1>1, FS_Subset
<1>6. PICK g : Upto(g, Cardinality(S))
  BY <1>4, <1>5
<1>7. g = [s \in SUBSET S |-> IF s = {} THEN 0 ELSE f[One(s)] + g[s \ {One(s)}]]
  BY <1>5, <1>6, Zenon
<1> QED BY <1>7 DEF Adds

LEMMA AddsAt ==
    ASSUME NEW f, NEW S, NEW g, Adds(g, f, S), NEW s \in SUBSET S
    PROVE  /\ s = {} => g[s] = 0
           /\ s # {} => g[s] = f[One(s)] + g[s \ {One(s)}]
<1>1. g = [t \in SUBSET S |-> IF t = {} THEN 0 ELSE f[One(t)] + g[t \ {One(t)}]]
  BY DEF Adds
<1>2. g[s] = IF s = {} THEN 0 ELSE f[One(s)] + g[s \ {One(s)}]
  BY <1>1, Zenon
<1> QED BY <1>2, Zenon

\* Its values do not depend on the set it is defined for.
LEMMA AddsUnique ==
    ASSUME NEW f, NEW S, IsFiniteSet(S), NEW T \in SUBSET S,
           NEW g, Adds(g, f, S), NEW h, Adds(h, f, T)
    PROVE  g[T] = h[T]
<1> DEFINE B == {s \in SUBSET T : g[s] # h[s]}
<1>1. IsFiniteSet(T)
  BY FS_Subset
<1>2. B = {}
  <2> SUFFICES ASSUME B # {} PROVE FALSE
    OBVIOUS
  <2>1. PICK s \in B : \A t \in B : ~(t \subseteq s /\ t # s)
    <3>1. B \in SUBSET (SUBSET T)
      OBVIOUS
    <3> HIDE DEF B
    <3> QED BY <1>1, <3>1, LeastSet
  <2>2. s \in SUBSET T /\ s \in SUBSET S /\ g[s] # h[s]
    OBVIOUS
  <2> /\ s = {} => g[s] = 0
      /\ s # {} => g[s] = f[One(s)] + g[s \ {One(s)}]
    BY <2>2, AddsAt
  <2> /\ s = {} => h[s] = 0
      /\ s # {} => h[s] = f[One(s)] + h[s \ {One(s)}]
    BY <2>2, AddsAt
  <2>3. s # {}
    BY <2>2, Zenon
  <2>4. One(s) \in s /\ s \ {One(s)} \in SUBSET T /\ s \ {One(s)} # s
    BY <2>2, <2>3, OneIn
  <2>5. g[s \ {One(s)}] = h[s \ {One(s)}]
    BY <2>1, <2>4
  <2>6. g[s] = f[One(s)] + g[s \ {One(s)}] /\ h[s] = f[One(s)] + h[s \ {One(s)}]
    BY <2>3, Zenon
  <2> QED BY <2>2, <2>5, <2>6
<1> QED BY <1>2

\* What the fold over a function adds up, an element at a time.
LEMMA SumUnfolds ==
    ASSUME NEW f, NEW S, IsFiniteSet(S)
    PROVE  /\ S = {} => SumOn(f, S) = 0
           /\ S # {} => SumOn(f, S) = f[One(S)] + SumOn(f, S \ {One(S)})
<1> DEFINE T == S \ {One(S)}
           g == CHOOSE i : Adds(i, f, S)
           h == CHOOSE i : Adds(i, f, T)
<1>1. Adds(g, f, S)
  BY IterExists
<1>2. IsFiniteSet(T) /\ T \in SUBSET S
  BY FS_Subset
<1>3. Adds(h, f, T)
  BY <1>2, IterExists
<1>4. SumOn(f, S) = g[S] /\ SumOn(f, T) = h[T]
  BY IterIs
<1> HIDE DEF g, h
<1>5. g[T] = h[T]
  BY <1>1, <1>2, <1>3, AddsUnique
<1>6. /\ S = {} => g[S] = 0
      /\ S # {} => g[S] = f[One(S)] + g[T]
  BY <1>1, AddsAt
<1> QED BY <1>4, <1>5, <1>6, Zenon

LEMMA SumType ==
    ASSUME NEW f, NEW S, IsFiniteSet(S), \A x \in S : f[x] \in Int
    PROVE  SumOn(f, S) \in Int
<1> DEFINE B == {s \in SUBSET S : SumOn(f, s) \notin Int}
<1> SUFFICES ASSUME B # {} PROVE FALSE
  OBVIOUS
<1>1. PICK s \in B : \A t \in B : ~(t \subseteq s /\ t # s)
  <2>1. B \in SUBSET (SUBSET S)
    OBVIOUS
  <2> HIDE DEF B
  <2> QED BY <2>1, LeastSet
<1>2. s \in SUBSET S /\ IsFiniteSet(s) /\ SumOn(f, s) \notin Int
  BY FS_Subset
<1>3. s # {}
  <2>1. s = {} => SumOn(f, s) = 0
    BY <1>2, SumUnfolds
  <2> QED BY <1>2, <2>1
<1>4. One(s) \in s /\ s \ {One(s)} \in SUBSET S /\ s \ {One(s)} # s
  BY <1>2, <1>3, OneIn
<1>5. SumOn(f, s \ {One(s)}) \in Int
  BY <1>1, <1>4
<1>6. SumOn(f, s) = f[One(s)] + SumOn(f, s \ {One(s)})
  BY <1>2, <1>3, SumUnfolds
<1> QED BY <1>2, <1>4, <1>5, <1>6

\* The order in which the fold takes the elements does not matter.
LEMMA SumRemoves ==
    ASSUME NEW f, NEW S, IsFiniteSet(S), \A x \in S : f[x] \in Int, NEW x \in S
    PROVE  SumOn(f, S) = f[x] + SumOn(f, S \ {x})
<1> DEFINE B == {s \in SUBSET S : \E y \in s : SumOn(f, s) # f[y] + SumOn(f, s \ {y})}
<1> SUFFICES ASSUME B # {} PROVE FALSE
  OBVIOUS
<1>1. PICK s \in B : \A t \in B : ~(t \subseteq s /\ t # s)
  <2>1. B \in SUBSET (SUBSET S)
    OBVIOUS
  <2> HIDE DEF B
  <2> QED BY <2>1, LeastSet
<1>2. s \in SUBSET S /\ IsFiniteSet(s)
  BY FS_Subset
<1>3. PICK y \in s : SumOn(f, s) # f[y] + SumOn(f, s \ {y})
  OBVIOUS
<1> DEFINE z == One(s)
<1>4. z \in s /\ SumOn(f, s) = f[z] + SumOn(f, s \ {z})
  BY <1>2, <1>3, OneIn, SumUnfolds
<1>5. z # y
  BY <1>3, <1>4
<1> HIDE DEF z
<1>6. SumOn(f, s \ {z}) = f[y] + SumOn(f, (s \ {z}) \ {y})
  <2>1. s \ {z} \in SUBSET S /\ s \ {z} # s /\ y \in s \ {z}
    BY <1>2, <1>3, <1>4, <1>5
  <2>2. s \ {z} \notin B
    BY <1>1, <2>1
  <2> QED BY <2>1, <2>2
<1>7. SumOn(f, s \ {y}) = f[z] + SumOn(f, (s \ {y}) \ {z})
  <2>1. s \ {y} \in SUBSET S /\ s \ {y} # s /\ z \in s \ {y}
    BY <1>2, <1>3, <1>4, <1>5
  <2>2. s \ {y} \notin B
    BY <1>1, <2>1
  <2> QED BY <2>1, <2>2
<1>8. (s \ {z}) \ {y} = (s \ {y}) \ {z}
  OBVIOUS
<1>9. /\ f[y] \in Int /\ f[z] \in Int
      /\ SumOn(f, (s \ {y}) \ {z}) \in Int
  <2>1. (s \ {y}) \ {z} \in SUBSET S /\ IsFiniteSet((s \ {y}) \ {z})
    BY <1>2, FS_Subset
  <2> QED BY <1>2, <1>3, <1>4, <2>1, SumType
<1> QED BY <1>3, <1>4, <1>6, <1>7, <1>8, <1>9

LEMMA SumSame ==
    ASSUME NEW f, NEW h, NEW S, IsFiniteSet(S), \A x \in S : f[x] = h[x]
    PROVE  SumOn(f, S) = SumOn(h, S)
<1> DEFINE B == {s \in SUBSET S : SumOn(f, s) # SumOn(h, s)}
<1> SUFFICES ASSUME B # {} PROVE FALSE
  OBVIOUS
<1>1. PICK s \in B : \A t \in B : ~(t \subseteq s /\ t # s)
  <2>1. B \in SUBSET (SUBSET S)
    OBVIOUS
  <2> HIDE DEF B
  <2> QED BY <2>1, LeastSet
<1>2. s \in SUBSET S /\ IsFiniteSet(s) /\ SumOn(f, s) # SumOn(h, s)
  BY FS_Subset
<1>3. s # {}
  BY <1>2, SumUnfolds
<1>4. One(s) \in s /\ s \ {One(s)} \in SUBSET S /\ s \ {One(s)} # s
  BY <1>2, <1>3, OneIn
<1>5. SumOn(f, s \ {One(s)}) = SumOn(h, s \ {One(s)})
  BY <1>1, <1>4
<1>6. /\ SumOn(f, s) = f[One(s)] + SumOn(f, s \ {One(s)})
      /\ SumOn(h, s) = h[One(s)] + SumOn(h, s \ {One(s)})
  BY <1>2, <1>3, SumUnfolds
<1> QED BY <1>2, <1>4, <1>5, <1>6

-----------------------------------------------------------------------------
(* The transforms fed with a stream of values. *)

LEMMA SumConstant ==
    ASSUME NEW f, NEW S, IsFiniteSet(S), NEW c \in Int, \A x \in S : f[x] = c
    PROVE  SumOn(f, S) = Cardinality(S) * c
<1> DEFINE B == {s \in SUBSET S : SumOn(f, s) # Cardinality(s) * c}
<1> SUFFICES ASSUME B # {} PROVE FALSE
  OBVIOUS
<1>1. PICK s \in B : \A t \in B : ~(t \subseteq s /\ t # s)
  <2>1. B \in SUBSET (SUBSET S)
    OBVIOUS
  <2> HIDE DEF B
  <2> QED BY <2>1, LeastSet
<1>2. s \in SUBSET S /\ IsFiniteSet(s) /\ SumOn(f, s) # Cardinality(s) * c
  BY FS_Subset
<1>3. s # {}
  <2>1. s = {} => SumOn(f, s) = 0 /\ Cardinality(s) = 0
    BY <1>2, SumUnfolds, FS_EmptySet
  <2> QED BY <1>2, <2>1
<1>4. One(s) \in s /\ s \ {One(s)} \in SUBSET S /\ s \ {One(s)} # s
  BY <1>2, <1>3, OneIn
<1>5. SumOn(f, s \ {One(s)}) = Cardinality(s \ {One(s)}) * c
  BY <1>1, <1>4
<1>6. SumOn(f, s) = f[One(s)] + SumOn(f, s \ {One(s)})
  BY <1>2, <1>3, SumUnfolds
<1>7. Cardinality(s \ {One(s)}) = Cardinality(s) - 1 /\ Cardinality(s) \in Nat
  BY <1>2, <1>4, FS_RemoveElement, FS_CardinalityType
<1>8. \A n \in Nat : c + (n - 1) * c = n * c
  OBVIOUS
<1>9. f[One(s)] = c
  BY <1>2, <1>4
<1> QED BY <1>2, <1>5, <1>6, <1>7, <1>8, <1>9

LEMMA SumNat ==
    ASSUME NEW f, NEW S, IsFiniteSet(S), \A x \in S : f[x] \in Nat
    PROVE  SumOn(f, S) \in Nat
<1> DEFINE B == {s \in SUBSET S : SumOn(f, s) \notin Nat}
<1> SUFFICES ASSUME B # {} PROVE FALSE
  OBVIOUS
<1>1. PICK s \in B : \A t \in B : ~(t \subseteq s /\ t # s)
  <2>1. B \in SUBSET (SUBSET S)
    OBVIOUS
  <2> HIDE DEF B
  <2> QED BY <2>1, LeastSet
<1>2. s \in SUBSET S /\ IsFiniteSet(s) /\ SumOn(f, s) \notin Nat
  BY FS_Subset
<1>3. s # {}
  <2>1. s = {} => SumOn(f, s) = 0
    BY <1>2, SumUnfolds
  <2> QED BY <1>2, <2>1
<1>4. One(s) \in s /\ s \ {One(s)} \in SUBSET S /\ s \ {One(s)} # s
  BY <1>2, <1>3, OneIn
<1>5. SumOn(f, s \ {One(s)}) \in Nat
  BY <1>1, <1>4
<1>6. SumOn(f, s) = f[One(s)] + SumOn(f, s \ {One(s)})
  BY <1>2, <1>3, SumUnfolds
<1> QED BY <1>2, <1>4, <1>5, <1>6

\* A part adds up to less.
LEMMA SumMore ==
    ASSUME NEW f, NEW S, IsFiniteSet(S), \A x \in S : f[x] \in Nat,
           NEW T \in SUBSET S
    PROVE  SumOn(f, T) <= SumOn(f, S)
<1> DEFINE B == {s \in SUBSET S : T \subseteq s /\ ~(SumOn(f, T) <= SumOn(f, s))}
<1> SUFFICES ASSUME B # {} PROVE FALSE
  <2>1. ~(SumOn(f, T) <= SumOn(f, S)) => S \in B
    OBVIOUS
  <2> QED BY <2>1
<1>1. PICK s \in B : \A t \in B : ~(t \subseteq s /\ t # s)
  <2>1. B \in SUBSET (SUBSET S)
    OBVIOUS
  <2> HIDE DEF B
  <2> QED BY <2>1, LeastSet
<1>2. s \in SUBSET S /\ T \subseteq s /\ IsFiniteSet(s) /\ IsFiniteSet(T)
  BY FS_Subset
<1>3. SumOn(f, s) \in Nat /\ SumOn(f, T) \in Nat
  BY <1>2, SumNat
<1>4. PICK x \in s : x \notin T
  <2>1. s # T
    BY <1>3
  <2> QED BY <1>2, <2>1
<1>5. SumOn(f, s) = f[x] + SumOn(f, s \ {x}) /\ f[x] \in Nat
  <2>1. \A y \in s : f[y] \in Int
    BY <1>2
  <2> QED BY <1>2, <2>1, SumRemoves
<1>6. SumOn(f, s \ {x}) \in Nat
  <2>1. IsFiniteSet(s \ {x}) /\ \A y \in s \ {x} : f[y] \in Nat
    BY <1>2, FS_Subset
  <2> QED BY <2>1, SumNat
<1>7. SumOn(f, T) <= SumOn(f, s \ {x})
  <2>1. s \ {x} \in SUBSET S /\ T \subseteq s \ {x} /\ s \ {x} \subseteq s /\ s \ {x} # s
    BY <1>2, <1>4
  <2>2. s \ {x} \notin B
    BY <1>1, <2>1
  <2> QED BY <2>1, <2>2
<1> QED BY <1>3, <1>5, <1>6, <1>7

\* A sequence grows: what the sums over it become.
LEMMA Appended ==
    ASSUME NEW R, NEW s \in Seq(R), NEW v \in R
    PROVE  /\ Append(s, v) \in Seq(R)
           /\ Len(s) \in Nat /\ Len(Append(s, v)) = Len(s) + 1
           /\ DOMAIN s = 1..Len(s) /\ DOMAIN Append(s, v) = 1..Len(s) + 1
           /\ \A i \in 1..Len(s) : Append(s, v)[i] = s[i] /\ s[i] \in R
           /\ Append(s, v)[Len(s) + 1] = v
           /\ Append(s, v) # <<>>
BY AppendProperties, LenProperties, ElementOfSeq, EmptySeq

LEMMA SumAppended ==
    ASSUME NEW s \in Seq(Int), NEW v \in Int, NEW T \in SUBSET (1..Len(s))
    PROVE  /\ IsFiniteSet(T) /\ SumOn(s, T) \in Int
           /\ SumOn(Append(s, v), T) = SumOn(s, T)
           /\ SumOn(Append(s, v), T \cup {Len(s) + 1}) = SumOn(s, T) + v
<1>1. Len(s) \in Nat /\ IsFiniteSet(1..Len(s))
  BY LenProperties, FS_Interval
<1>2. IsFiniteSet(T) /\ IsFiniteSet(T \cup {Len(s) + 1})
  BY <1>1, FS_Subset, FS_AddElement
<1>3. \A x \in T : Append(s, v)[x] = s[x] /\ s[x] \in Int
  BY Appended
<1>4. Append(s, v)[Len(s) + 1] = v
  BY Appended
<1>5. SumOn(s, T) \in Int
  BY <1>2, <1>3, SumType
<1>6. SumOn(Append(s, v), T) = SumOn(s, T)
  BY <1>2, <1>3, SumSame
<1>7. (T \cup {Len(s) + 1}) \ {Len(s) + 1} = T
  BY <1>1
<1>8. SumOn(Append(s, v), T \cup {Len(s) + 1}) = v + SumOn(Append(s, v), T)
  <2>1. \A x \in T \cup {Len(s) + 1} : Append(s, v)[x] \in Int
    BY <1>3, <1>4
  <2> DEFINE longer == Append(s, v)
             place == Len(s) + 1
             U == T \cup {place}
  <2>2. /\ IsFiniteSet(U) /\ \A x \in U : longer[x] \in Int
        /\ place \in U /\ U \ {place} = T /\ longer[place] = v
    BY <1>2, <1>4, <1>7, <2>1
  <2>3. SumOn(longer, U) = v + SumOn(longer, T)
    <3> HIDE DEF longer, place, U
    <3> QED BY <2>2, SumRemoves
  <2> QED BY <2>3
<1> QED BY <1>2, <1>5, <1>6, <1>8

LEMMA RangeGrows ==
    ASSUME NEW R, NEW s \in Seq(R), NEW v \in R
    PROVE  Range(Append(s, v)) = Range(s) \cup {v}
<1>1. /\ Len(s) \in Nat
      /\ DOMAIN s = 1..Len(s) /\ DOMAIN Append(s, v) = (1..Len(s)) \cup {Len(s) + 1}
      /\ \A i \in 1..Len(s) : Append(s, v)[i] = s[i]
      /\ Append(s, v)[Len(s) + 1] = v
  BY Appended
<1> QED BY <1>1, Zenon DEF Range

LEMMA SumOfAppended ==
    ASSUME NEW s \in Seq(Int), NEW v \in Int
    PROVE  /\ SumOf(s) \in Int /\ SumOf(Append(s, v)) = SumOf(s) + v
<1>1. SumOf(s) = SumOn(s, DOMAIN s) /\ SumOf(Append(s, v)) = SumOn(Append(s, v), DOMAIN Append(s, v))
  BY DEF SumOf, SumOn, FoldFunction
<1>2. DOMAIN s = 1..Len(s) /\ DOMAIN Append(s, v) = (1..Len(s)) \cup {Len(s) + 1}
  BY Appended
<1>3. SumOn(s, 1..Len(s)) \in Int
  BY SumAppended
<1>4. SumOn(Append(s, v), (1..Len(s)) \cup {Len(s) + 1}) = SumOn(s, 1..Len(s)) + v
  BY SumAppended
<1> QED BY <1>1, <1>2, <1>3, <1>4, Zenon

LEMMA ReadingsAre ==
    /\ Readings \subseteq Int /\ Pauses \subseteq Nat
    /\ \A s \in Seq(Readings) : s \in Seq(Int)
    /\ \A s \in Seq(Pauses) : s \in Seq(Int)
<1>1. Readings \subseteq Int /\ Pauses \subseteq Nat /\ Pauses \subseteq Int
  BY StreamsAssumption
<1> QED BY <1>1, SeqMonotonic

\* The values after which TimeCounter counts.
Counts(s) == {i \in 2..Len(s) : s[i - 1] # 0}

Histories ==
    /\ values \in Seq(Readings) /\ pauses \in Seq(Pauses)
    /\ Len(pauses) = Len(values)

TimeTypes ==
    /\ running \in {"unknown", "on", "off"}
    /\ {startTime, duration, atStart, saved, booted} \subseteq Nat

TimeKept ==
    /\ (running = "unknown") = (Len(values) = 0)
    /\ Len(values) > 0 => (running = "on") = (values[Len(values)] # 0)
    /\ duration = booted + SumOn(pauses, Counts(values))
    /\ saved <= duration
    /\ running # "on" => saved = duration
    /\ running = "on" => duration = atStart + (SumOf(pauses) - startTime)

\* The history grows by a value.
LEMMA HistoriesGrow ==
    ASSUME Histories, NEW v \in Readings, NEW pause \in Pauses, Value(v, pause)
    PROVE  /\ Histories'
           /\ values' = Append(values, v) /\ pauses' = Append(pauses, pause)
           /\ Len(values) \in Nat /\ Len(values') = Len(values) + 1
           /\ \A i \in 1..Len(values) : values'[i] = values[i] /\ values[i] \in Int
           /\ values'[Len(values) + 1] = v
           /\ v \in Int /\ pause \in Nat
           /\ values \in Seq(Int) /\ pauses \in Seq(Int)
<1>1. values' = Append(values, v) /\ pauses' = Append(pauses, pause)
  BY DEF Value
<1> QED BY <1>1, Appended, ReadingsAre DEF Histories

LEMMA TimeStep ==
    ASSUME Histories, TimeTypes, TimeKept,
           NEW v \in Readings, NEW pause \in Pauses, Value(v, pause)
    PROVE  TimeTypes' /\ TimeKept'
<1> DEFINE n == Len(values)
           now == SumOf(pauses')
           was == IF running = "unknown" THEN v # 0 ELSE running = "on"
           start == IF running = "unknown" THEN now ELSE startTime
           base == IF running = "unknown" THEN duration ELSE atStart
           lasted == IF was THEN base + (now - start) ELSE duration
<1>1. /\ running' = IF v # 0 THEN "on" ELSE "off"
      /\ duration' = lasted
      /\ startTime' = IF v # 0 /\ ~was THEN now ELSE start
      /\ atStart' = IF v # 0 /\ ~was THEN lasted ELSE base
      /\ saved' = IF (v # 0) # was THEN lasted ELSE saved
      /\ booted' = booted
  BY DEF Value, TimeCounterSet
<1>2. /\ n \in Nat /\ Len(values') = n + 1 /\ values'[n + 1] = v /\ pause \in Nat
      /\ Len(pauses) = n
  BY HistoriesGrow DEF Histories
<1>3. now = SumOf(pauses) + pause /\ SumOf(pauses) \in Int
  <2>1. pauses \in Seq(Int) /\ pause \in Int /\ pauses' = Append(pauses, pause)
    BY HistoriesGrow
  <2> QED BY <2>1, SumOfAppended
<1>4. now \in Nat
  <2>1. SumOf(pauses') = SumOn(pauses', DOMAIN pauses')
    BY DEF SumOf, SumOn, FoldFunction
  <2>2. pauses' \in Seq(Pauses)
    BY HistoriesGrow DEF Histories
  <2> DEFINE longer == pauses'
  <2>3. IsFiniteSet(DOMAIN longer) /\ \A i \in DOMAIN longer : longer[i] \in Nat
    <3>1. longer \in Seq(Pauses)
      BY <2>2
    <3> HIDE DEF longer
    <3>2. /\ Len(longer) \in Nat /\ DOMAIN longer = 1..Len(longer)
          /\ \A i \in 1..Len(longer) : longer[i] \in Pauses
      BY <3>1, LenProperties
    <3>3. IsFiniteSet(1..Len(longer))
      BY <3>2, FS_Interval
    <3> QED BY <3>2, <3>3, ReadingsAre
  <2>4. SumOn(pauses', DOMAIN pauses') \in Nat
    BY <2>3, SumNat
  <2> QED BY <2>1, <2>4
<1> DEFINE C == Counts(values)
           gap == IF n > 0 /\ values[n] # 0 THEN pause ELSE 0
<1>5. SumOn(pauses', Counts(values')) = SumOn(pauses, C) + gap /\ SumOn(pauses, C) \in Int
  <2>1. C \in SUBSET (1..n)
    BY <1>2 DEF Counts
  <2>2. Counts(values') = IF n > 0 /\ values[n] # 0 THEN C \cup {n + 1} ELSE C
    <3>1. /\ Counts(values') = {i \in 2..n + 1 : values'[i - 1] # 0}
          /\ C = {i \in 2..n : values[i - 1] # 0}
      BY <1>2 DEF Counts
    <3>2. \A i \in 2..n + 1 : i - 1 \in 1..n /\ values'[i - 1] = values[i - 1]
      <4>1. \A i \in 1..n : values'[i] = values[i]
        BY HistoriesGrow
      <4> HIDE DEF n
      <4>2. \A i \in 2..n + 1 : i - 1 \in 1..n
        BY <1>2
      <4> QED BY <4>1, <4>2
    <3>3. Counts(values') = {i \in 2..n + 1 : values[i - 1] # 0}
      BY <3>1, <3>2
    <3> HIDE DEF C, n
    <3>4. /\ n > 0 => 2..n + 1 = (2..n) \cup {n + 1}
          /\ n = 0 => 2..n + 1 = {}
      <4>1. \A m \in Nat : m > 0 => 2..m + 1 = (2..m) \cup {m + 1}
        OBVIOUS
      <4>2. 2..0 + 1 = {}
        OBVIOUS
      <4> QED BY <1>2, <4>1, <4>2
    <3>5. n + 1 - 1 = n /\ (n = 0 => 2..n = {})
      BY <1>2
    <3> QED BY <1>2, <3>1, <3>3, <3>4, <3>5
  <2>3. /\ SumOn(Append(pauses, pause), C) = SumOn(pauses, C)
        /\ SumOn(Append(pauses, pause), C \cup {n + 1}) = SumOn(pauses, C) + pause
        /\ SumOn(pauses, C) \in Int
    <3>1. pauses \in Seq(Int) /\ pause \in Int /\ C \in SUBSET (1..Len(pauses))
      BY <1>2, <2>1, HistoriesGrow
    <3>2. n + 1 = Len(pauses) + 1
      BY <1>2
    <3> HIDE DEF C, n
    <3>3. /\ SumOn(Append(pauses, pause), C) = SumOn(pauses, C)
          /\ SumOn(Append(pauses, pause), C \cup {Len(pauses) + 1})
                = SumOn(pauses, C) + pause
          /\ SumOn(pauses, C) \in Int
      BY <3>1, SumAppended
    <3> QED BY <3>2, <3>3
  <2>4. pauses' = Append(pauses, pause)
    BY HistoriesGrow
  <2> QED BY <2>2, <2>3, <2>4
<1>6. {startTime, duration, atStart, saved, booted} \subseteq Nat
  BY DEF TimeTypes
<1>7. /\ (running = "unknown") = (n = 0)
      /\ n > 0 => (running = "on") = (values[n] # 0)
      /\ duration = booted + SumOn(pauses, C)
      /\ saved <= duration
      /\ running # "on" => saved = duration
      /\ running = "on" => duration = atStart + (SumOf(pauses) - startTime)
  BY DEF TimeKept
<1> HIDE DEF n, now, C
<1>8. lasted = duration + gap
  BY <1>2, <1>3, <1>4, <1>6, <1>7
<1>9. TimeTypes'
  BY <1>1, <1>2, <1>4, <1>6, <1>8 DEF TimeTypes
<1>10. duration' = booted' + SumOn(pauses', Counts(values'))
  BY <1>1, <1>2, <1>5, <1>6, <1>7, <1>8
<1>11. /\ saved' <= duration'
       /\ running' # "on" => saved' = duration'
  BY <1>1, <1>2, <1>6, <1>7, <1>8
<1>12. running' = "on" => duration' = atStart' + (now - startTime')
  <2> SUFFICES ASSUME v # 0 PROVE duration' = atStart' + (now - startTime')
    BY <1>1
  <2>1. CASE was
    <3>1. /\ duration' = base + (now - start)
          /\ startTime' = start /\ atStart' = base
      BY <1>1, <2>1
    <3> QED BY <3>1
  <2>2. CASE ~was
    <3>1. startTime' = now /\ atStart' = lasted /\ duration' = lasted
      BY <1>1, <2>2
    <3> QED BY <1>4, <1>6, <1>8, <1>2, <3>1
  <2> QED BY <2>1, <2>2
<1>13. /\ (running' = "unknown") = (n + 1 = 0)
       /\ n + 1 > 0 => (running' = "on") = (values'[n + 1] # 0)
  BY <1>1, <1>2
<1>14. TimeKept'
  BY <1>2, <1>10, <1>11, <1>12, <1>13 DEF TimeKept, n, now
<1> QED BY <1>9, <1>14

Outside(s) == {i \in DOMAIN s : s[i] \notin Lower..Upper - 1}

LEMMA HysteresisStep ==
    ASSUME Histories, high \in BOOLEAN, HysteresisRemembers,
           NEW v \in Readings, NEW pause \in Pauses, Value(v, pause)
    PROVE  high' \in BOOLEAN /\ HysteresisRemembers'
<1> DEFINE n == Len(values)
           O == Outside(values)
           P == Outside(values')
<1>1. high' = IF v < Lower THEN FALSE ELSE IF v >= Upper THEN TRUE ELSE high
  BY DEF Value, HysteresisSet
<1>2. /\ n \in Nat /\ v \in Int /\ Lower \in Int /\ Upper \in Int /\ Lower < Upper
      /\ DOMAIN values = 1..n /\ DOMAIN values' = 1..n + 1
      /\ values'[n + 1] = v
      /\ \A i \in 1..n : values'[i] = values[i] /\ values[i] \in Int
  <2>1. values \in Seq(Readings) /\ values' = Append(values, v)
    BY HistoriesGrow DEF Histories
  <2> QED BY <2>1, Appended, HistoriesGrow, StreamsAssumption
<1>3. high = (O # {} /\ \E i \in O : (\A j \in O : j <= i) /\ values[i] >= Upper)
  BY DEF HysteresisRemembers, Outside
<1>4. HysteresisRemembers' =
        (high' = (P # {} /\ \E i \in P : (\A j \in P : j <= i) /\ values'[i] >= Upper))
  BY DEF HysteresisRemembers, Outside
<1>5. O \subseteq 1..n
  BY <1>2 DEF Outside
<1>6. CASE v \in Lower..Upper - 1
  <2>1. ~(v < Lower) /\ ~(v >= Upper)
    BY <1>2, <1>6
  <2>2. high' = high
    BY <1>1, <2>1, Zenon
  <2>3. \A i : i \in P <=> i \in O
    <3>1. \A i \in 1..n : i \in P <=> i \in O
      BY <1>2 DEF Outside
    <3>2. n + 1 \notin P /\ n + 1 \notin O
      BY <1>2, <1>6 DEF Outside
    <3>3. P \subseteq (1..n) \cup {n + 1}
      BY <1>2 DEF Outside
    <3> HIDE DEF O, P, n
    <3> QED BY <1>5, <3>1, <3>2, <3>3
  <2>4. \A i \in O : values'[i] = values[i]
    BY <1>2, <1>5
  <2> HIDE DEF O, P, n
  <2> QED BY <1>1, <1>3, <1>4, <2>2, <2>3, <2>4
<1>7. CASE v \notin Lower..Upper - 1
  <2> (v < Lower /\ ~(v >= Upper)) \/ (~(v < Lower) /\ v >= Upper)
    BY <1>2, <1>7
  <2>1. high' \in BOOLEAN /\ (high' <=> v >= Upper)
    BY <1>1, Zenon
  <2>2. n + 1 \in P /\ \A j \in P : j \in 1..n + 1
    BY <1>2, <1>7 DEF Outside
  <2> HIDE DEF O, P, n
  <2>3. \A i \in P : (\A j \in P : j <= i) <=> i = n + 1
    BY <1>2, <2>2
  <2>4. (P # {} /\ \E i \in P : (\A j \in P : j <= i) /\ values'[i] >= Upper) <=> v >= Upper
    BY <1>2, <2>2, <2>3
  <2> QED BY <1>1, <1>4, <2>1, <2>4
<1> QED BY <1>6, <1>7

\* ChangeFilter holds back at most max_skips and one values after one it passed.
PassedInTime ==
    /\ passed \in Seq(Readings) /\ skips \in 0..MaxSkips + 1
    /\ Len(values) = 0 => skips = MaxSkips + 1
    /\ Len(values) + (MaxSkips + 1) <= Len(passed) * (MaxSkips + 2) + skips
    /\ NothingLost

LEMMA ChangeFilterStep ==
    ASSUME Histories, PassedInTime,
           NEW v \in Readings, NEW pause \in Pauses, Value(v, pause)
    PROVE  PassedInTime'
<1> DEFINE n == Len(values)
           k == Len(passed)
           m == MaxSkips + 2
<1>1. /\ n \in Nat /\ k \in Nat /\ m \in Nat /\ MaxSkips \in Nat
      /\ Len(values') = n + 1
      /\ values # <<>> <=> n # 0
      /\ passed # <<>> <=> k # 0
  BY HistoriesGrow, LenProperties, EmptySeq, StreamsAssumption DEF PassedInTime, Histories
<1>2. /\ skips \in 0..MaxSkips + 1
      /\ n + (MaxSkips + 1) <= k * m + skips
      /\ n = 0 => skips = MaxSkips + 1
      /\ (passed = <<>>) = (values = <<>>)
      /\ Range(passed) \subseteq Range(values)
      /\ sum = SumOf(values)
  BY DEF PassedInTime, NothingLost
<1>3. sum' = SumOf(values')
  <2>1. values \in Seq(Int) /\ v \in Int /\ values' = Append(values, v)
    BY HistoriesGrow
  <2> QED BY <1>2, <2>1, SumOfAppended DEF Value, IntegratorSet
<1>4. Range(values') = Range(values) \cup {v}
  <2>1. values \in Seq(Readings) /\ values' = Append(values, v)
    BY HistoriesGrow DEF Histories
  <2> QED BY <2>1, RangeGrows
<1>5. values' # <<>>
  BY HistoriesGrow, EmptySeq DEF Histories
<1>6. \/ passed' = Append(passed, v) /\ skips' = 0
      \/ skips <= MaxSkips /\ skips' = skips + 1 /\ passed' = passed
  BY <1>1, <1>2 DEF Value, ChangeFilterSet
<1>7. k * m \in Nat /\ (k + 1) * m = k * m + m
  <2>1. \A a, b \in Nat : a * b \in Nat /\ (a + 1) * b = a * b + b
    OBVIOUS
  <2> HIDE DEF k, m
  <2> QED BY <1>1, <2>1
<1>8. m = MaxSkips + 2 /\ n + (MaxSkips + 1) <= k * m + skips
  BY <1>2
<1> DEFINE bound == Len(passed') * m
<1>9. PassedInTime' = (/\ passed' \in Seq(Readings) /\ skips' \in 0..MaxSkips + 1
                       /\ Len(values') = 0 => skips' = MaxSkips + 1
                       /\ Len(values') + (MaxSkips + 1) <= bound + skips'
                       /\ NothingLost')
  BY Zenon DEF PassedInTime
<1>10. NothingLost' = (/\ sum' = SumOf(values')
                       /\ (passed' = <<>>) = (values' = <<>>)
                       /\ Range(passed') \subseteq Range(values')
                       /\ Len(values') <= bound)
  BY Zenon DEF NothingLost
<1>11. CASE passed' = Append(passed, v) /\ skips' = 0
  <2>1. /\ passed' \in Seq(Readings) /\ Len(passed') = k + 1 /\ passed' # <<>>
        /\ Range(passed') = Range(passed) \cup {v}
    BY <1>11, Appended, RangeGrows DEF PassedInTime
  <2> DEFINE km == k * m
  <2>2. km \in Nat /\ (k + 1) * m = km + m /\ n + (MaxSkips + 1) <= km + skips
    BY <1>7, <1>8
  <2> HIDE DEF km, m, n, k
  <2>3. /\ (n + 1) + (MaxSkips + 1) <= (km + m) + 0
        /\ n + 1 <= km + m
    BY <1>1, <1>2, <1>8, <2>2
  <2>4. bound = km + m
    BY <2>1, <2>2
  <2> HIDE DEF bound
  <2>5. /\ Len(values') <= bound
        /\ Len(values') + (MaxSkips + 1) <= bound + skips'
        /\ Len(values') # 0 /\ skips' \in 0..MaxSkips + 1
    BY <1>1, <1>11, <2>3, <2>4
  <2>6. Range(passed') \subseteq Range(values')
    BY <1>2, <1>4, <2>1
  <2>7. NothingLost'
    BY <1>3, <1>5, <1>10, <2>1, <2>5, <2>6, Zenon
  <2> QED BY <1>9, <2>1, <2>5, <2>7, Zenon
<1>12. CASE skips <= MaxSkips /\ skips' = skips + 1 /\ passed' = passed
  <2>1. n # 0
    BY <1>1, <1>2, <1>12
  <2>2. passed' # <<>> /\ passed' \in Seq(Readings) /\ Len(passed') = k
    BY <1>1, <1>2, <1>12, <2>1 DEF PassedInTime
  <2> DEFINE km == k * m
  <2>3. km \in Nat /\ n + (MaxSkips + 1) <= km + skips
    BY <1>7, <1>8
  <2> HIDE DEF km, m, n, k
  <2>4. (n + 1) + (MaxSkips + 1) <= km + (skips + 1) /\ n + 1 <= km
    BY <1>1, <1>2, <1>12, <2>3
  <2>5. bound = km
    BY <2>2 DEF km
  <2> HIDE DEF bound
  <2>6. NothingLost'
    BY <1>1, <1>2, <1>3, <1>4, <1>5, <1>10, <1>12, <2>2, <2>4, <2>5
  <2> QED BY <1>1, <1>2, <1>9, <1>12, <2>2, <2>4, <2>5, <2>6
<1> QED BY <1>6, <1>11, <1>12

-----------------------------------------------------------------------------
(* The two transforms without a state, and the median. *)

\* A finite set that is not empty has elements with the least and the greatest key.
LEMMA Extremes ==
    ASSUME NEW S, IsFiniteSet(S), S # {}, NEW key, \A x \in S : key[x] \in Int
    PROVE  /\ \E x \in S : \A y \in S : key[x] <= key[y]
           /\ \E x \in S : \A y \in S : key[y] <= key[x]
<1> DEFINE Good(s) == /\ \E x \in s : \A y \in s : key[x] <= key[y]
                      /\ \E x \in s : \A y \in s : key[y] <= key[x]
           B == {s \in SUBSET S : s # {} /\ ~Good(s)}
<1> SUFFICES ASSUME B # {} PROVE FALSE
  OBVIOUS
<1>1. PICK s \in B : \A t \in B : ~(t \subseteq s /\ t # s)
  <2>1. B \in SUBSET (SUBSET S)
    OBVIOUS
  <2> HIDE DEF B
  <2> QED BY <2>1, LeastSet
<1>2. s \in SUBSET S /\ s # {} /\ ~Good(s)
  OBVIOUS
<1>3. PICK z : z \in s
  BY <1>2
<1>4. CASE s \ {z} = {}
  <2>1. s = {z}
    BY <1>3, <1>4
  <2>2. key[z] <= key[z]
    BY <1>2, <1>3
  <2> QED BY <1>2, <2>1, <2>2
<1>5. CASE s \ {z} # {}
  <2>1. s \ {z} \in SUBSET S /\ s \ {z} # s /\ s \ {z} \subseteq s
    BY <1>2, <1>3
  <2>2. Good(s \ {z})
    BY <1>1, <1>5, <2>1
  <2>3. PICK a \in s \ {z} : \A y \in s \ {z} : key[a] <= key[y]
    BY <2>2
  <2>4. PICK b \in s \ {z} : \A y \in s \ {z} : key[y] <= key[b]
    BY <2>2
  <2>5. key[a] \in Int /\ key[b] \in Int /\ key[z] \in Int /\ \A y \in s : key[y] \in Int
    BY <1>2, <1>3
  <2> HIDE DEF B
  <2>6. \E x \in s : \A y \in s : key[x] <= key[y]
    <3>1. CASE key[a] <= key[z]
      <4>1. \A y \in s : key[a] <= key[y]
        BY <2>3, <3>1
      <4> QED BY <4>1
    <3>2. CASE ~(key[a] <= key[z])
      <4>1. \A y \in s : key[z] <= key[y]
        BY <2>3, <2>5, <3>2
      <4> QED BY <1>3, <4>1
    <3> QED BY <3>1, <3>2
  <2>7. \E x \in s : \A y \in s : key[y] <= key[x]
    <3>1. CASE key[z] <= key[b]
      <4>1. \A y \in s : key[y] <= key[b]
        BY <2>4, <3>1
      <4> QED BY <4>1
    <3>2. CASE ~(key[z] <= key[b])
      <4>1. \A y \in s : key[y] <= key[z]
        BY <2>4, <2>5, <3>2
      <4> QED BY <1>3, <4>1
    <3> QED BY <3>1, <3>2
  <2> QED BY <1>2, <2>6, <2>7
<1> QED BY <1>4, <1>5

LEMMA WindowIs == Window \in Nat \ {0}
BY StreamsAssumption

\* The buffer of Median has a median: the least value that enough are not above.
LEMMA MedianIsThere ==
    ASSUME NEW s \in Seq(Readings), Len(s) = Window
    PROVE  Sorted(s, Window \div 2) \in Readings
<1> DEFINE mid == Window \div 2
           Below(x) == {i \in DOMAIN s : s[i] < x}
           UpTo(x) == {i \in DOMAIN s : s[i] <= x}
           Many == {i \in DOMAIN s : Cardinality(UpTo(s[i])) > mid}
<1>1. mid \in Nat /\ mid < Window
  BY WindowIs
<1>2. /\ DOMAIN s = 1..Window /\ IsFiniteSet(DOMAIN s) /\ Cardinality(DOMAIN s) = Window
      /\ \A i \in DOMAIN s : s[i] \in Readings /\ s[i] \in Int
  <2>1. DOMAIN s = 1..Window /\ \A i \in 1..Window : s[i] \in Readings
    BY LenProperties, WindowIs
  <2>2. IsFiniteSet(1..Window) /\ Cardinality(1..Window) = Window
    BY WindowIs, FS_Interval
  <2> QED BY <2>1, <2>2, StreamsAssumption
<1>3. \A T \in SUBSET DOMAIN s : IsFiniteSet(T) /\ Cardinality(T) \in Nat
  BY <1>2, FS_Subset, FS_CardinalityType
<1>4. Many # {}
  <2>1. DOMAIN s # {}
    BY <1>2, WindowIs
  <2>2. PICK i \in DOMAIN s : \A j \in DOMAIN s : s[j] <= s[i]
    BY <1>2, <2>1, Extremes
  <2>3. UpTo(s[i]) = DOMAIN s
    BY <2>2
  <2> QED BY <1>1, <1>2, <2>3
<1>5. PICK i \in Many : \A j \in Many : s[i] <= s[j]
  <2>1. Many \in SUBSET DOMAIN s
    OBVIOUS
  <2> HIDE DEF Many
  <2> QED BY <1>2, <1>3, <1>4, <2>1, Extremes
<1>6. i \in DOMAIN s /\ Cardinality(UpTo(s[i])) > mid
  OBVIOUS
<1>7. Cardinality(Below(s[i])) <= mid
  <2> SUFFICES ASSUME ~(Cardinality(Below(s[i])) <= mid) PROVE FALSE
    OBVIOUS
  <2>1. Below(s[i]) \in SUBSET DOMAIN s
    OBVIOUS
  <2>2. Cardinality(Below(s[i])) > mid
    BY <1>1, <1>3, <2>1
  <2>3. Below(s[i]) # {}
    <3>1. Below(s[i]) = {} => Cardinality(Below(s[i])) = 0
      BY FS_EmptySet
    <3> QED BY <1>1, <2>2, <3>1
  <2>4. PICK j \in Below(s[i]) : \A k \in Below(s[i]) : s[k] <= s[j]
    <3> DEFINE S == Below(s[i])
    <3>1. IsFiniteSet(S) /\ S # {} /\ \A k \in S : s[k] \in Int
      BY <1>2, <1>3, <2>1, <2>3
    <3> HIDE DEF S
    <3>2. \E j \in S : \A k \in S : s[k] <= s[j]
      BY <3>1, Extremes
    <3> QED BY <3>2 DEF S
  <2>5. UpTo(s[j]) = Below(s[i])
    <3>1. j \in DOMAIN s /\ s[j] < s[i]
      BY <2>4
    <3>2. \A k \in DOMAIN s : s[k] <= s[j] <=> s[k] < s[i]
      BY <1>2, <1>6, <2>4, <3>1
    <3> QED BY <3>2
  <2>6. j \in Many
    BY <2>2, <2>4, <2>5
  <2>7. s[i] <= s[j] /\ s[j] < s[i] /\ s[i] \in Int /\ s[j] \in Int
    BY <1>2, <1>5, <1>6, <2>4, <2>6
  <2> QED BY <2>7
<1>8. /\ s[i] \in Range(s)
      /\ Cardinality({k \in DOMAIN s : s[k] < s[i]}) <= mid
      /\ Cardinality({k \in DOMAIN s : s[k] <= s[i]}) > mid
  BY <1>6, <1>7 DEF Range
<1>9. Sorted(s, mid) \in Range(s)
  BY <1>8 DEF Sorted
<1> QED BY <1>2, <1>9 DEF Range

\* AngleCorrection, for every turn, least angle, value and offset.
LEMMA AnglesKept == AnglesInTurn
<1> SUFFICES ASSUME NEW v \in Readings, NEW offset \in Readings
             PROVE  /\ AngleCorrection(v, offset) \in MinAngle..MinAngle + Turn - 1
                    /\ (AngleCorrection(v, offset) - v - offset) % Turn = 0
  BY DEF AnglesInTurn
<1> DEFINE a == v + offset - MinAngle
           r == Fmod(a, Turn)
           x == IF r < 0 THEN r + Turn ELSE r
<1>1. v \in Int /\ offset \in Int /\ MinAngle \in Int /\ Turn \in Nat \ {0} /\ a \in Int
  BY StreamsAssumption
<1>2. \A b \in Int : b % Turn \in 0..Turn - 1 /\ b = (b \div Turn) * Turn + (b % Turn)
                     /\ b \div Turn \in Int
  BY <1>1
<1>3. \A q \in Int : (q * Turn) % Turn = 0 /\ (-q) * Turn = -(q * Turn)
                     /\ (q + 1) * Turn = q * Turn + Turn
  BY <1>1
<1>4. x \in 0..Turn - 1 /\ \E q \in Int : x - a = q * Turn
  <2> HIDE DEF a
  <2>1. CASE a >= 0
    <3> DEFINE q == a \div Turn
    <3>1. r = a % Turn
      BY <2>1 DEF Fmod
    <3>2. r \in 0..Turn - 1 /\ a = q * Turn + r /\ q \in Int
      BY <1>1, <1>2, <3>1
    <3> HIDE DEF q, r
    <3>3. x = r /\ -q \in Int /\ q * Turn \in Int
      BY <1>1, <3>2
    <3>4. x - a = (-q) * Turn
      BY <1>1, <1>3, <3>2, <3>3
    <3> QED BY <3>2, <3>3, <3>4
  <2>2. CASE ~(a >= 0)
    <3> DEFINE q == (-a) \div Turn
               z == (-a) % Turn
    <3>1. r = -z
      BY <2>2 DEF Fmod
    <3>2. z \in 0..Turn - 1 /\ -a = q * Turn + z /\ q \in Int
      BY <1>1, <1>2
    <3> HIDE DEF q, z, r
    <3>3. q * Turn \in Int /\ q + 1 \in Int
      BY <1>1, <3>2
    <3>4. CASE z = 0
      <4>1. r = 0
        <5>1. \A b \in Int : -b = 0 - b
          OBVIOUS
        <5>2. z \in Int
          BY <3>2, <1>1
        <5>3. r = 0 - z
          BY <3>1, <5>1, <5>2, Zenon
        <5> QED BY <3>4, <5>3
      <4>2. x = 0 /\ -a = q * Turn
        BY <1>1, <3>2, <3>3, <3>4, <4>1
      <4>3. x - a = q * Turn
        BY <1>1, <4>2
      <4>4. x \in 0..Turn - 1
        BY <1>1, <4>2
      <4> HIDE DEF x
      <4> QED BY <3>2, <4>3, <4>4
    <3>5. CASE z # 0
      <4>1. x = Turn - z /\ x \in 0..Turn - 1
        BY <1>1, <3>1, <3>2, <3>5
      <4>2. x - a = q * Turn + Turn
        BY <1>1, <3>2, <3>3, <4>1
      <4>3. x - a = (q + 1) * Turn
        BY <1>3, <3>2, <4>2
      <4> QED BY <3>3, <4>1, <4>3
    <3> QED BY <3>4, <3>5
  <2> QED BY <2>1, <2>2
<1>5. AngleCorrection(v, offset) = MinAngle + x
  BY DEF AngleCorrection
<1>6. MinAngle + x - v - offset = x - a /\ x \in Int
  <2> HIDE DEF x
  <2> QED BY <1>1, <1>4
<1> HIDE DEF x, a
<1> QED BY <1>1, <1>3, <1>4, <1>5, <1>6

\* The line through two samples, in whole numbers.
LEMMA LineFits ==
    ASSUME NEW s \in Int \X Int, NEW t \in Int \X Int, s[1] < t[1], NEW v \in Int
    PROVE  LET y == OnLine(s, t, v)
           IN  /\ y[2] > 0
               /\ y[1] * (t[1] - s[1])
                    = y[2] * (s[2] * (t[1] - s[1]) + (t[2] - s[2]) * (v - s[1]))
               /\ v = s[1] => y[1] = s[2] * y[2]
               /\ v = t[1] => y[1] = t[2] * y[2]
<1> DEFINE a == s[1]
           b == s[2]
           c == t[1]
           d == t[2]
           y == OnLine(s, t, v)
<1>1. a \in Int /\ b \in Int /\ c \in Int /\ d \in Int /\ a < c /\ s # t
  OBVIOUS
<1>2. y[1] = b * (c - v) + d * (v - a) /\ y[2] = c - a
  BY <1>1 DEF OnLine
<1> HIDE DEF a, b, c, d, y
<1>3. y[2] > 0
  BY <1>1, <1>2
<1>4. b * (c - v) + d * (v - a) = b * (c - a) + (d - b) * (v - a)
  <2>1. \A i, j, k \in Int : i * (j - k) = i * j - i * k /\ (i - j) * k = i * k - j * k
                             /\ i * j \in Int
    OBVIOUS
  <2>2. /\ b * (c - v) = b * c - b * v /\ d * (v - a) = d * v - d * a
        /\ b * (c - a) = b * c - b * a
        /\ (d - b) * (v - a) = d * (v - a) - b * (v - a)
        /\ b * (v - a) = b * v - b * a
        /\ {b * c, b * v, b * a, d * v, d * a} \subseteq Int
    BY <1>1, <2>1
  <2> QED BY <1>1, <2>2
<1>5. y[1] * (c - a) = y[2] * (b * (c - a) + (d - b) * (v - a))
  <2>1. \A i, j \in Int : i * j = j * i
    OBVIOUS
  <2>2. y[1] \in Int /\ c - a \in Int
    BY <1>1, <1>2
  <2> QED BY <1>2, <1>4, <2>1, <2>2
<1>6. v = a => y[1] = b * y[2]
  BY <1>1, <1>2
<1>7. v = c => y[1] = d * y[2]
  BY <1>1, <1>2
<1> QED BY <1>3, <1>5, <1>6, <1>7 DEF a, b, c, d, y

\* The samples at the ends of a part of a curve.
LEMMA EndsOf ==
    ASSUME NEW c, IsFiniteSet(c), c # {}, c \subseteq Int \X Int
    PROVE  /\ Lowest(c) \in c /\ \A t \in c : Lowest(c)[1] <= t[1]
           /\ Highest(c) \in c /\ \A t \in c : t[1] <= Highest(c)[1]
<1> DEFINE key == [s \in c |-> s[1]]
<1>1. \A s \in c : key[s] = s[1] /\ key[s] \in Int
  OBVIOUS
<1>2. /\ \E x \in c : \A y \in c : key[x] <= key[y]
      /\ \E x \in c : \A y \in c : key[y] <= key[x]
  <2> HIDE DEF key
  <2> QED BY <1>1, Extremes
<1>3. /\ \E x \in c : \A y \in c : x[1] <= y[1]
      /\ \E x \in c : \A y \in c : y[1] <= x[1]
  BY <1>1, <1>2
<1> QED BY <1>3 DEF Lowest, Highest

\* Two neighbours of a curve, and a value on the line through them.
Fits(c, v, y) ==
    /\ y[2] > 0
    /\ \A s \in c : s[1] = v => y[1] = s[2] * y[2]
    /\ \E s \in c, t \in c :
         /\ s[1] < t[1] /\ \A u \in c : u[1] <= s[1] \/ u[1] >= t[1]
         /\ y[1] * (t[1] - s[1])
               = y[2] * (s[2] * (t[1] - s[1]) + (t[2] - s[2]) * (v - s[1]))

\* CurveInterpolator goes through its samples and follows the lines between them,
\* for every curve of two samples or more.
LEMMA CurvesKept == CurvesFit
<1> SUFFICES ASSUME NEW c \in Curves, NEW v \in Readings
             PROVE  Fits(c, v, Interpolate(c, v))
  BY DEF CurvesFit, Fits
<1> DEFINE below == {s \in c : s[1] < v}
           above == c \ below
           first == Lowest(c)
           final == Highest(c)
<1>1. /\ IsFiniteSet(c) /\ c \subseteq Int \X Int /\ Cardinality(c) >= 2
      /\ \A s \in c, t \in c : s[1] = t[1] => s = t
      /\ v \in Int
  BY StreamsAssumption
<1>2. \A d \in SUBSET c : IsFiniteSet(d)
  BY <1>1, FS_Subset
<1>3. /\ c # {}
      /\ \A s \in c : c \ {s} # {}
  <2>1. c # {}
    BY <1>1, FS_EmptySet
  <2>2. ASSUME NEW s \in c, c \ {s} = {} PROVE FALSE
    <3>1. c = {s}
      BY <2>2
    <3>2. Cardinality({s}) = 1
      BY FS_Singleton
    <3> QED BY <1>1, <3>1, <3>2
  <2> QED BY <2>1, <2>2
<1>4. /\ first \in c /\ \A t \in c : first[1] <= t[1]
      /\ final \in c /\ \A t \in c : t[1] <= final[1]
  BY <1>1, <1>3, EndsOf
<1>5. \A s \in c : s[1] \in Int /\ s[2] \in Int /\ s \in Int \X Int
  BY <1>1
\* Two samples s and t next to each other: the value is on their line.
<1>6. ASSUME NEW s \in c, NEW t \in c, s[1] < t[1],
             \A u \in c : u[1] <= s[1] \/ u[1] >= t[1],
             \A u \in c : u[1] = v => u = s \/ u = t
      PROVE  Fits(c, v, OnLine(s, t, v))
  <2> DEFINE y == OnLine(s, t, v)
  <2>1. /\ y[2] > 0
        /\ y[1] * (t[1] - s[1])
             = y[2] * (s[2] * (t[1] - s[1]) + (t[2] - s[2]) * (v - s[1]))
        /\ v = s[1] => y[1] = s[2] * y[2]
        /\ v = t[1] => y[1] = t[2] * y[2]
    BY <1>1, <1>5, <1>6, LineFits
  <2> HIDE DEF y
  <2>2. \A u \in c : u[1] = v => y[1] = u[2] * y[2]
    BY <1>6, <2>1
  <2>3. Fits(c, v, y)
    BY <1>6, <2>1, <2>2, Zenon DEF Fits
  <2> QED BY <2>3 DEF y
<1>7. CASE v < first[1]
  <2> DEFINE t == Lowest(c \ {first})
  <2>1. Interpolate(c, v) = OnLine(first, t, v)
    BY <1>7 DEF Interpolate
  <2>2. t \in c \ {first} /\ \A u \in c \ {first} : t[1] <= u[1]
    <3> DEFINE d == c \ {first}
    <3>1. IsFiniteSet(d) /\ d # {} /\ d \subseteq Int \X Int
      BY <1>1, <1>2, <1>3, <1>4
    <3> HIDE DEF d
    <3>2. Lowest(d) \in d /\ \A u \in d : Lowest(d)[1] <= u[1]
      BY <3>1, EndsOf
    <3> QED BY <3>2 DEF d
  <2> HIDE DEF t, first
  <2>3. first[1] < t[1]
    BY <1>1, <1>4, <1>5, <2>2
  <2>4. \A u \in c : u[1] <= first[1] \/ u[1] >= t[1]
    BY <1>4, <1>5, <2>2
  <2>5. \A u \in c : u[1] # v
    BY <1>1, <1>4, <1>5, <1>7
  <2>6. Fits(c, v, OnLine(first, t, v))
    BY <1>4, <1>6, <2>2, <2>3, <2>4, <2>5
  <2> QED BY <2>1, <2>6
<1>8. CASE ~(v < first[1]) /\ above = {}
  <2> DEFINE s == Highest(c \ {final})
  <2>1. Interpolate(c, v) = OnLine(s, final, v)
    BY <1>8 DEF Interpolate
  <2>2. s \in c \ {final} /\ \A u \in c \ {final} : u[1] <= s[1]
    <3> DEFINE d == c \ {final}
    <3>1. IsFiniteSet(d) /\ d # {} /\ d \subseteq Int \X Int
      BY <1>1, <1>2, <1>3, <1>4
    <3> HIDE DEF d
    <3>2. Highest(d) \in d /\ \A u \in d : u[1] <= Highest(d)[1]
      BY <3>1, EndsOf
    <3> QED BY <3>2 DEF d
  <2>3. \A u \in c : u[1] < v
    BY <1>8
  <2> HIDE DEF s, final, first
  <2>4. s[1] < final[1]
    BY <1>1, <1>4, <1>5, <2>2
  <2>5. \A u \in c : u[1] <= s[1] \/ u[1] >= final[1]
    BY <1>4, <1>5, <2>2
  <2>6. \A u \in c : u[1] # v
    BY <1>1, <1>5, <2>3
  <2>7. Fits(c, v, OnLine(s, final, v))
    BY <1>4, <1>6, <2>2, <2>4, <2>5, <2>6
  <2> QED BY <2>1, <2>7
<1>9. CASE ~(v < first[1]) /\ above # {}
  <2> DEFINE t == Lowest(above)
             s == IF below = {} THEN t ELSE Highest(below)
  <2>1. Interpolate(c, v) = OnLine(s, t, v)
    BY <1>9 DEF Interpolate
  <2>2. t \in c /\ v <= t[1] /\ \A u \in c : u[1] < v \/ t[1] <= u[1]
    <3>1. IsFiniteSet(above) /\ above # {} /\ above \subseteq Int \X Int
      BY <1>1, <1>2, <1>9
    <3>2. t \in above /\ \A u \in above : t[1] <= u[1]
      <4> HIDE DEF above
      <4> QED BY <3>1, EndsOf
    <3> HIDE DEF t
    <3> QED BY <1>1, <1>5, <3>2
  <2>3. CASE below = {}
    <3>1. first[1] = v /\ t = first
      <4>1. \A u \in c : ~(u[1] < v)
        BY <2>3
      <4> HIDE DEF t, first
      <4>2. first[1] = v
        BY <1>1, <1>4, <1>5, <1>9, <4>1
      <4>3. t[1] = first[1]
        BY <1>1, <1>4, <1>5, <2>2, <4>1, <4>2
      <4> QED BY <1>1, <1>4, <2>2, <4>2, <4>3
    <3>2. Interpolate(c, v) = <<first[2], 1>>
      BY <2>1, <2>3, <3>1 DEF OnLine
    <3> DEFINE r == Lowest(c \ {first})
    <3>3. r \in c \ {first} /\ \A u \in c \ {first} : r[1] <= u[1]
      <4> DEFINE d == c \ {first}
      <4>1. IsFiniteSet(d) /\ d # {} /\ d \subseteq Int \X Int
        BY <1>1, <1>2, <1>3, <1>4
      <4> HIDE DEF d
      <4>2. Lowest(d) \in d /\ \A u \in d : Lowest(d)[1] <= u[1]
        BY <4>1, EndsOf
      <4> QED BY <4>2 DEF d
    <3> HIDE DEF r, first
    <3>4. first[1] < r[1] /\ \A u \in c : u[1] <= first[1] \/ u[1] >= r[1]
      BY <1>1, <1>4, <1>5, <3>3
    <3> DEFINE y == <<first[2], 1>>
    <3>5. y[2] > 0 /\ \A u \in c : u[1] = v => y[1] = u[2] * y[2]
      <4>1. \A u \in c : u[1] = v => u = first
        BY <1>1, <1>4, <3>1
      <4>2. y[1] = first[2] * y[2]
        BY <1>4, <1>5
      <4> HIDE DEF y
      <4>3. \A u \in c : u[1] = v => y[1] = u[2] * y[2]
        BY <4>1, <4>2
      <4> QED BY <4>3 DEF y
    <3>6. y[1] * (r[1] - first[1])
            = y[2] * (first[2] * (r[1] - first[1]) + (r[2] - first[2]) * (v - first[1]))
      <4>1. \A i, j, k \in Int : i * j = 1 * (i * j + k * (v - v))
        BY <1>1
      <4>2. v - first[1] = v - v
        BY <3>1
      <4>3. first[2] \in Int /\ r[1] - first[1] \in Int /\ r[2] - first[2] \in Int
        BY <1>4, <1>5, <3>3
      <4>4. y[1] = first[2] /\ y[2] = 1
        OBVIOUS
      <4>5. first[2] * (r[1] - first[1])
              = 1 * (first[2] * (r[1] - first[1]) + (r[2] - first[2]) * (v - v))
        BY <4>1, <4>3
      <4> HIDE DEF y
      <4> QED BY <4>2, <4>4, <4>5, Zenon
    <3> HIDE DEF y
    <3>7. Fits(c, v, y)
      BY <1>4, <3>3, <3>4, <3>5, <3>6, Zenon DEF Fits
    <3> QED BY <3>2, <3>7 DEF y
  <2>4. CASE below # {}
    <3>1. s = Highest(below)
      BY <2>4
    <3>2. s \in c /\ s[1] < v /\ \A u \in c : u[1] < v => u[1] <= s[1]
      <4>1. IsFiniteSet(below) /\ below \subseteq Int \X Int
        BY <1>1, <1>2
      <4>2. Highest(below) \in below /\ \A u \in below : u[1] <= Highest(below)[1]
        <5> HIDE DEF below
        <5> QED BY <2>4, <4>1, EndsOf
      <4> QED BY <3>1, <4>2
    <3> HIDE DEF s, t, first
    <3>3. s[1] < t[1] /\ \A u \in c : u[1] <= s[1] \/ u[1] >= t[1]
      BY <1>1, <1>5, <2>2, <3>2
    <3>4. \A u \in c : u[1] = v => u = s \/ u = t
      <4> SUFFICES ASSUME NEW u \in c, u[1] = v PROVE u = t
        OBVIOUS
      <4>1. t[1] <= u[1]
        BY <1>1, <2>2
      <4>2. t[1] = u[1]
        BY <1>1, <1>5, <2>2, <4>1
      <4> QED BY <1>1, <2>2, <4>2
    <3>5. Fits(c, v, OnLine(s, t, v))
      BY <1>6, <2>2, <3>2, <3>3, <3>4
    <3> QED BY <2>1, <3>5
  <2> QED BY <2>3, <2>4
<1> QED BY <1>7, <1>8, <1>9

-----------------------------------------------------------------------------
(* The moving average. *)

\* The slot of the ring buffer that holds the value that comes in after j others
\* from the oldest, and the place of that value in the history.
Slot(p, j) == IF p + j < Window THEN p + j + 1 ELSE p + j - Window + 1
Source(n, j) == IF n - Window + 1 + j >= 1 THEN n - Window + 1 + j ELSE 1

RingHolds ==
    /\ buf \in Seq(Readings) /\ Len(buf) = Window
    /\ \A j \in 0..Window - 1 : buf[Slot(ptr, j)] = values[Source(Len(values), j)]

FinalOf(s) == {i \in DOMAIN s : i > Len(s) - Window}

WindowSum ==
    total = SumOn(values, FinalOf(values))
              + (Window - Cardinality(FinalOf(values))) * values[1]

AverageKept ==
    /\ ptr \in 0..Window - 1 /\ total \in Int
    /\ Len(values) = 0 => buf = <<>> /\ ptr = 0 /\ total = 0
    /\ Len(values) > 0 => RingHolds /\ WindowSum

LEMMA FinalIs ==
    ASSUME NEW s, NEW n \in Nat, Len(s) = n, DOMAIN s = 1..n
    PROVE  /\ n <= Window => FinalOf(s) = 1..n /\ Cardinality(FinalOf(s)) = n
           /\ n >= Window =>
                /\ FinalOf(s) = n - Window + 1..n
                /\ Cardinality(FinalOf(s)) = Window
<1>1. CASE n <= Window
  <2>1. FinalOf(s) = 1..n
    BY <1>1, WindowIs DEF FinalOf
  <2>2. Cardinality(1..n) = n
    <3>1. \A m \in Nat : Cardinality(1..m) = m
      BY FS_Interval
    <3> QED BY <3>1
  <2>3. n >= Window => n = Window /\ n - Window + 1 = 1
    <3>1. \A m \in Nat : m <= Window /\ m >= Window => m = Window /\ m - Window + 1 = 1
      BY WindowIs
    <3> QED BY <1>1, <3>1
  <2> QED BY <1>1, <2>1, <2>2, <2>3
<1>2. CASE n > Window
  <2>1. FinalOf(s) = n - Window + 1..n
    BY <1>2, WindowIs DEF FinalOf
  <2>2. Cardinality(n - Window + 1..n) = Window
    <3>1. \A a, b \in Int : a <= b => Cardinality(a..b) = b - a + 1
      BY FS_Interval
    <3>2. n \in Nat /\ n - Window + 1 \in Int /\ n - Window + 1 <= n
          /\ n - (n - Window + 1) + 1 = Window
      BY <1>2, WindowIs
    <3> QED BY <3>1, <3>2
  <2> QED BY <1>2, <2>1, <2>2, WindowIs
<1> QED BY <1>1, <1>2, WindowIs

\* The ring buffer takes a value.
LEMMA RingStep ==
    ASSUME Histories, RingHolds, ptr \in 0..Window - 1, Len(values) > 0,
           NEW v \in Readings, NEW pause \in Pauses, Value(v, pause)
    PROVE  /\ RingHolds' /\ ptr' \in 0..Window - 1
           /\ total' = total + v - values[Source(Len(values), 0)]
<1> DEFINE n == Len(values)
<1>1. buf # <<>>
  BY WindowIs, EmptySeq DEF RingHolds
<1>2. /\ total' = total + v - buf[ptr + 1]
      /\ buf' = [buf EXCEPT ![ptr + 1] = v]
      /\ ptr' = (ptr + 1) % Window
  BY <1>1 DEF Value, AverageSet
<1>3. ptr' = IF ptr + 1 = Window THEN 0 ELSE ptr + 1
  <2>1. Window % Window = 0 /\ \A m \in 0..Window - 1 : m % Window = m
    BY WindowIs
  <2> QED BY <1>2, <2>1, WindowIs
<1>4. ptr + 1 \in 1..Len(buf) /\ Slot(ptr, 0) = ptr + 1 /\ 0 \in 0..Window - 1
  BY WindowIs DEF RingHolds, Slot
<1>5. /\ buf' \in Seq(Readings) /\ Len(buf') = Window
      /\ \A i \in 1..Window : buf'[i] = IF i = ptr + 1 THEN v ELSE buf[i]
  <2>1. buf \in Seq(Readings) /\ Len(buf) = Window
    BY DEF RingHolds
  <2> QED BY <1>2, <1>4, <2>1, ExceptSeq
<1>6. /\ n \in Nat /\ n > 0 /\ Len(values') = n + 1 /\ values'[n + 1] = v
      /\ \A i \in 1..n : values'[i] = values[i]
  BY HistoriesGrow
<1>7. ASSUME NEW j \in 0..Window - 1
      PROVE  buf'[Slot(ptr', j)] = values'[Source(n + 1, j)]
  <2> HIDE DEF n
  <2>1. CASE j = Window - 1
    <3>1. Slot(ptr', j) = ptr + 1 /\ Source(n + 1, j) = n + 1
      BY <1>3, <1>6, <2>1, WindowIs DEF Slot, Source
    <3> QED BY <1>4, <1>5, <1>6, <3>1, WindowIs
  <2>2. CASE j # Window - 1
    <3>1. j + 1 \in 0..Window - 1
      BY <2>2, WindowIs
    <3>2. /\ Slot(ptr', j) = Slot(ptr, j + 1) /\ Slot(ptr, j + 1) \in 1..Window
          /\ Slot(ptr, j + 1) # ptr + 1
      BY <1>3, <2>2, <3>1, WindowIs DEF Slot
    <3>3. Source(n + 1, j) = Source(n, j + 1) /\ Source(n, j + 1) \in 1..n
      BY <1>6, <2>2, WindowIs DEF Source
    <3>4. buf'[Slot(ptr, j + 1)] = buf[Slot(ptr, j + 1)]
      BY <1>5, <3>2
    <3>5. values'[Source(n, j + 1)] = values[Source(n, j + 1)]
      BY <1>6, <3>3
    <3>6. buf[Slot(ptr, j + 1)] = values[Source(n, j + 1)]
      BY <3>1 DEF RingHolds, n
    <3> QED BY <3>2, <3>3, <3>4, <3>5, <3>6
  <2> QED BY <2>1, <2>2
<1>8. RingHolds'
  BY <1>5, <1>6, <1>7 DEF RingHolds
<1>9. buf[ptr + 1] = values[Source(n, 0)]
  BY <1>4 DEF RingHolds
<1> QED BY <1>2, <1>3, <1>8, <1>9, WindowIs

LEMMA AverageStep ==
    ASSUME Histories, AverageKept,
           NEW v \in Readings, NEW pause \in Pauses, Value(v, pause)
    PROVE  AverageKept'
<1> DEFINE n == Len(values)
           F == FinalOf(values)
           G == FinalOf(values')
<1>1. /\ n \in Nat /\ Len(values') = n + 1 /\ values'[n + 1] = v
      /\ \A i \in 1..n : values'[i] = values[i] /\ values[i] \in Int
      /\ values \in Seq(Int) /\ v \in Int /\ values' = Append(values, v)
  BY HistoriesGrow
<1>2. DOMAIN values = 1..n /\ DOMAIN values' = 1..n + 1
  <2>1. values \in Seq(Readings) /\ values' \in Seq(Readings)
    BY HistoriesGrow DEF Histories
  <2> QED BY <1>1, <2>1, LenProperties
<1>3. /\ n + 1 <= Window => G = 1..n + 1 /\ Cardinality(G) = n + 1
      /\ n + 1 >= Window => G = n - Window + 2..n + 1 /\ Cardinality(G) = Window
  <2>1. Len(values') = n + 1 /\ DOMAIN values' = 1..n + 1 /\ n + 1 \in Nat
    BY <1>1, <1>2
  <2>2. /\ n + 1 <= Window => G = 1..n + 1 /\ Cardinality(G) = n + 1
        /\ n + 1 >= Window => G = n + 1 - Window + 1..n + 1 /\ Cardinality(G) = Window
    <3> DEFINE longer == values'
               m == n + 1
    <3>1. Len(longer) = m /\ DOMAIN longer = 1..m /\ m \in Nat
      BY <2>1
    <3>2. /\ m <= Window => FinalOf(longer) = 1..m /\ Cardinality(FinalOf(longer)) = m
          /\ m >= Window =>
               /\ FinalOf(longer) = m - Window + 1..m
               /\ Cardinality(FinalOf(longer)) = Window
      <4> HIDE DEF longer, m
      <4> QED BY <3>1, FinalIs
    <3> QED BY <1>1, <3>2, WindowIs
  <2>3. n + 1 - Window + 1 = n - Window + 2
    BY <1>1, WindowIs
  <2> QED BY <2>2, <2>3
<1>4. CASE n = 0
  <2>1. buf = <<>> /\ ptr = 0
    BY <1>4 DEF AverageKept
  <2>2. buf' = AverageSeed(v) /\ total' = SumOf(AverageSeed(v)) /\ ptr' = 0
    BY <2>1 DEF Value, AverageSet
  <2>3. buf' = [i \in 1..Window |-> v]
    BY <2>2 DEF AverageSeed
  <2>4. buf' \in Seq(Readings) /\ Len(buf') = Window
    BY <2>3, WindowIs
  <2>5. RingHolds'
    <3>1. \A j \in 0..Window - 1 : Slot(0, j) \in 1..Window /\ Source(1, j) = 1
      BY WindowIs DEF Slot, Source
    <3>2. Len(values') = 1 /\ values'[1] = v
      BY <1>1, <1>4
    <3>3. \A j \in 0..Window - 1 : buf'[Slot(0, j)] = v /\ values'[Source(1, j)] = v
      BY <2>3, <3>1, <3>2
    <3> QED BY <2>2, <2>4, <3>2, <3>3, Zenon DEF RingHolds
  <2>6. total' = Window * v
    <3> DEFINE seed == [i \in 1..Window |-> v]
    <3>1. DOMAIN seed = 1..Window /\ total' = SumOn(seed, DOMAIN seed)
      BY <2>2 DEF AverageSeed, SumOf, SumOn, FoldFunction
    <3>2. /\ IsFiniteSet(1..Window) /\ Cardinality(1..Window) = Window
          /\ \A i \in 1..Window : seed[i] = v
      BY FS_Interval, WindowIs
    <3> HIDE DEF seed
    <3>3. SumOn(seed, 1..Window) = Cardinality(1..Window) * v
      BY <1>1, <3>2, SumConstant
    <3> QED BY <3>1, <3>2, <3>3
  <2>7. G = {} \cup {n + 1} /\ Cardinality(G) = 1
    BY <1>3, <1>4, WindowIs
  <2>8. SumOn(values', G) = v
    <3>1. SumOn(values, {}) = 0
      BY SumUnfolds, FS_EmptySet
    <3>2. SumOn(Append(values, v), {} \cup {Len(values) + 1}) = SumOn(values, {}) + v
      <4>1. {} \in SUBSET (1..Len(values))
        OBVIOUS
      <4> QED BY <1>1, <4>1, SumAppended
    <3> QED BY <1>1, <2>7, <3>1, <3>2
  <2>9. WindowSum'
    <3>1. values'[1] = v
      BY <1>1, <1>4
    <3>2. \A w \in Nat : w * v = v + (w - 1) * v
      BY <1>1
    <3>3. total' = SumOn(values', G) + (Window - Cardinality(G)) * values'[1]
      BY <2>6, <2>7, <2>8, <3>1, <3>2, WindowIs
    <3> QED BY <3>3 DEF WindowSum
  <2>10. total' \in Int
    BY <1>1, <2>6, WindowIs
  <2> QED BY <1>1, <2>2, <2>5, <2>9, <2>10, WindowIs DEF AverageKept
<1>5. CASE n > 0
  <2>1. RingHolds /\ WindowSum /\ ptr \in 0..Window - 1
    BY <1>5 DEF AverageKept
  <2>2. /\ RingHolds' /\ ptr' \in 0..Window - 1
        /\ total' = total + v - values[Source(n, 0)]
    BY <1>5, <2>1, RingStep
  <2>3. total = SumOn(values, F) + (Window - Cardinality(F)) * values[1]
    BY <2>1 DEF WindowSum
  <2>4. values'[1] = values[1] /\ values[1] \in Int
    BY <1>1, <1>5
  <2>5. /\ n <= Window => F = 1..n /\ Cardinality(F) = n
        /\ n >= Window => F = n - Window + 1..n /\ Cardinality(F) = Window
    BY <1>1, <1>2, FinalIs
  <2>6. F \in SUBSET (1..n) /\ IsFiniteSet(F)
    <3>1. F \in SUBSET (1..n)
      BY <1>2 DEF FinalOf
    <3>2. IsFiniteSet(1..n)
      BY <1>1, FS_Interval
    <3> QED BY <3>1, <3>2, FS_Subset
  <2>7. total' \in Int
    <3>1. Source(n, 0) \in 1..n
      BY <1>1, <1>5, WindowIs DEF Source
    <3>2. values[Source(n, 0)] \in Int /\ total \in Int
      BY <1>1, <3>1 DEF AverageKept
    <3> QED BY <1>1, <2>2, <3>2
  <2> HIDE DEF F, G
  <2>8. CASE n < Window
    <3>1. G = F \cup {n + 1} /\ Cardinality(F) = n /\ Cardinality(G) = n + 1
      BY <1>1, <1>3, <2>5, <2>8, WindowIs
    <3>2. SumOn(values', G) = SumOn(values, F) + v /\ SumOn(values, F) \in Int
      <4>1. /\ SumOn(Append(values, v), F \cup {Len(values) + 1}) = SumOn(values, F) + v
            /\ SumOn(values, F) \in Int
        BY <1>1, <2>6, SumAppended
      <4> QED BY <1>1, <3>1, <4>1
    <3>3. Source(n, 0) = 1
      BY <1>1, <2>8, WindowIs DEF Source
    <3> DEFINE c == values[1]
               rest == (Window - n) * c
    <3>4. (Window - (n + 1)) * c = rest - c /\ rest \in Int
      <4>1. \A w, m, d \in Int : (w - (m + 1)) * d = (w - m) * d - d /\ (w - m) * d \in Int
        OBVIOUS
      <4> HIDE DEF n, c
      <4> QED BY <1>1, <2>4, <4>1, WindowIs DEF c
    <3>5. total = SumOn(values, F) + rest /\ total' = total + v - c
      BY <2>2, <2>3, <3>1, <3>3
    <3>6. total' = SumOn(values', G) + (rest - c)
      <4> HIDE DEF rest, c
      <4> QED BY <1>1, <2>4, <3>2, <3>4, <3>5 DEF c
    <3>7. total' = SumOn(values', G) + (Window - Cardinality(G)) * values'[1]
      BY <2>4, <3>1, <3>4, <3>6, Zenon
    <3> QED BY <1>1, <2>2, <2>7, <3>7 DEF AverageKept, WindowSum, G
  <2>9. CASE n >= Window
    <3> DEFINE f == n - Window + 1
    <3>1. Source(n, 0) = f /\ f \in F /\ values[f] \in Int
      BY <1>1, <2>5, <2>9, WindowIs DEF Source
    <3>2. G = (F \ {f}) \cup {n + 1} /\ Cardinality(F) = Window /\ Cardinality(G) = Window
      <4>1. \A a, b \in Int : a <= b => a + 1..b + 1 = ((a..b) \ {a}) \cup {b + 1}
        OBVIOUS
      <4>2. f \in Int /\ n \in Int /\ f <= n /\ f + 1 = n - Window + 2
        BY <1>1, <2>9, WindowIs
      <4>3. F = f..n /\ G = f + 1..n + 1 /\ Cardinality(F) = Window /\ Cardinality(G) = Window
        BY <1>1, <1>3, <2>5, <2>9, <4>2, WindowIs
      <4> HIDE DEF f, n
      <4> QED BY <4>1, <4>2, <4>3
    <3>3. SumOn(values, F) = values[f] + SumOn(values, F \ {f})
      <4>1. \A i \in F : values[i] \in Int
        BY <1>1, <2>6
      <4>2. \A i \in F : SumOn(values, F) = values[i] + SumOn(values, F \ {i})
        BY <2>6, <4>1, SumRemoves
      <4> QED BY <3>1, <4>2
    <3>4. /\ SumOn(values', G) = SumOn(values, F \ {f}) + v
          /\ SumOn(values, F \ {f}) \in Int
      <4>1. F \ {f} \in SUBSET (1..n)
        BY <2>6
      <4> DEFINE R == F \ {f}
      <4>2. /\ SumOn(Append(values, v), R \cup {Len(values) + 1}) = SumOn(values, R) + v
            /\ SumOn(values, R) \in Int
        <5>1. R \in SUBSET (1..Len(values))
          BY <4>1
        <5> HIDE DEF R
        <5> QED BY <1>1, <5>1, SumAppended
      <4> QED BY <1>1, <3>2, <4>2
    <3>5. (Window - Window) * values[1] = 0
      BY <2>4, WindowIs
    <3>6. total' = SumOn(values', G) + (Window - Cardinality(G)) * values'[1]
      <4> HIDE DEF f
      <4> QED BY <1>1, <2>2, <2>3, <2>4, <3>1, <3>2, <3>3, <3>4, <3>5
    <3> QED BY <1>1, <2>2, <2>7, <3>6 DEF AverageKept, WindowSum, G
  <2> QED BY <1>1, <2>8, <2>9, WindowIs
<1> QED BY <1>1, <1>4, <1>5

-----------------------------------------------------------------------------
(* All transforms fed with a stream of values together. *)

\* A start of the device.
Starts ==
    \E file \in Nat : Begun(file) /\ saved = file /\ restarts \in 0..MaxRestarts

StreamsInv ==
    /\ StreamsTypeOK /\ Histories /\ TimeKept
    /\ HysteresisRemembers /\ PassedInTime /\ AverageKept

LEMMA StartsInv == Starts => StreamsInv
<1> SUFFICES ASSUME NEW file \in Nat, Begun(file), saved = file,
                    restarts \in 0..MaxRestarts
             PROVE  StreamsInv
  BY DEF Starts
<1>1. /\ values = <<>> /\ pauses = <<>> /\ buf = <<>> /\ ptr = 0 /\ total = 0
      /\ block = <<>> /\ median = <<>> /\ high = FALSE
      /\ passed = <<>> /\ skips = MaxSkips + 1 /\ sum = 0
      /\ running = "unknown" /\ startTime = 0
      /\ duration = file /\ atStart = file /\ booted = file
  BY DEF Begun
<1>2. /\ Len(<<>>) = 0 /\ DOMAIN <<>> = {}
      /\ \A S : <<>> \in Seq(S)
  BY EmptySeq
<1>3. SumOn(<<>>, {}) = 0
  BY SumUnfolds, FS_EmptySet
<1>4. Histories
  BY <1>1, <1>2 DEF Histories
<1>5. StreamsTypeOK
  <2>1. /\ 0 \in 0..Window - 1 /\ 0 < Window /\ 0 <= 1 /\ 0 \in Int
        /\ MaxSkips + 1 \in 0..MaxSkips + 1
    BY StreamsAssumption
  <2>2. {0, file} \subseteq Nat
    OBVIOUS
  <2>3. {startTime, duration, atStart, saved, booted} \subseteq Nat
    BY <1>1, <2>2
  <2>4. restarts \in 0..MaxRestarts
    OBVIOUS
  <2>5. /\ values \in Seq(Readings) /\ pauses \in Seq(Pauses)
        /\ buf \in Seq(Readings) /\ block \in Seq(Readings)
        /\ median \in Seq(Readings) /\ passed \in Seq(Readings)
        /\ Len(block) < Window /\ Len(median) <= 1
    BY <1>1, <1>2, <2>1
  <2> QED BY <1>1, <2>1, <2>3, <2>4, <2>5, Zenon DEF StreamsTypeOK
<1>6. TimeKept
  <2>1. Counts(<<>>) = {}
    BY <1>2 DEF Counts
  <2> QED BY <1>1, <1>2, <1>3, <2>1 DEF TimeKept
<1>7. HysteresisRemembers
  BY <1>1, <1>2 DEF HysteresisRemembers
<1>8. PassedInTime
  <2>1. SumOf(<<>>) = 0
    BY <1>2, <1>3 DEF SumOf, SumOn, FoldFunction
  <2>2. 0 * (MaxSkips + 2) = 0 /\ MaxSkips \in Nat
    BY StreamsAssumption
  <2>3. NothingLost
    BY <1>1, <1>2, <2>1, <2>2 DEF NothingLost
  <2> QED BY <1>1, <1>2, <2>2, <2>3 DEF PassedInTime
<1>9. AverageKept
  BY <1>1, <1>2, WindowIs DEF AverageKept
<1> QED BY <1>4, <1>5, <1>6, <1>7, <1>8, <1>9 DEF StreamsInv

LEMMA StreamsInitInv == StreamsInit => StreamsInv
<1>1. StreamsInit => Starts
  BY StreamsAssumption DEF StreamsInit, Starts
<1> QED BY <1>1, StartsInv

LEMMA ValueKeeps ==
    ASSUME StreamsInv, NEW v \in Readings, NEW pause \in Pauses, Value(v, pause)
    PROVE  StreamsInv'
<1>1. /\ StreamsTypeOK /\ Histories /\ TimeKept /\ TimeTypes /\ high \in BOOLEAN
      /\ HysteresisRemembers /\ PassedInTime /\ AverageKept
  BY DEF StreamsInv, StreamsTypeOK, TimeTypes
<1>2. /\ Histories' /\ TimeTypes' /\ TimeKept' /\ PassedInTime' /\ AverageKept'
      /\ high' \in BOOLEAN /\ HysteresisRemembers'
  BY <1>1, HistoriesGrow, TimeStep, HysteresisStep, ChangeFilterStep, AverageStep
<1>3. /\ block' \in Seq(Readings) /\ Len(block') < Window
      /\ median' \in Seq(Readings) /\ Len(median') <= 1
  <2>1. /\ block \in Seq(Readings) /\ Len(block) < Window
        /\ median \in Seq(Readings) /\ Len(median) <= 1
    BY <1>1 DEF StreamsTypeOK
  <2>2. MedianSet(v)
    BY DEF Value
  <2>3. /\ Append(block, v) \in Seq(Readings) /\ Len(block) \in Nat
        /\ Len(Append(block, v)) = Len(block) + 1
    BY <2>1, Appended
  <2>4. CASE Len(block) + 1 < Window
    BY <2>1, <2>2, <2>3, <2>4 DEF MedianSet
  <2>5. CASE ~(Len(block) + 1 < Window)
    <3>1. Len(Append(block, v)) = Window
      BY <2>1, <2>3, <2>5, WindowIs
    <3>2. Sorted(Append(block, v), Window \div 2) \in Readings
      BY <2>3, <3>1, MedianIsThere
    <3>3. block' = <<>> /\ median' = <<Sorted(Append(block, v), Window \div 2)>>
      BY <2>2, <2>5 DEF MedianSet
    <3>4. <<>> \in Seq(Readings) /\ Len(<<>>) = 0
      BY EmptySeq
    <3> QED BY <3>2, <3>3, <3>4, WindowIs
  <2> QED BY <2>4, <2>5
<1>4. sum' \in Int
  <2>1. values \in Seq(Int) /\ v \in Int /\ values' = Append(values, v)
    BY <1>1, HistoriesGrow
  <2>2. sum = SumOf(values)
    BY <1>1 DEF PassedInTime, NothingLost
  <2> QED BY <2>1, <2>2, SumOfAppended DEF Value, IntegratorSet
<1>5. buf' \in Seq(Readings) /\ ptr' \in 0..Window - 1 /\ total' \in Int
  <2>1. Len(values') > 0
    BY <1>1, HistoriesGrow
  <2> QED BY <1>2, <2>1 DEF AverageKept, RingHolds
<1>6. restarts' \in 0..MaxRestarts
  BY <1>1 DEF Value, StreamsTypeOK
<1>7. StreamsTypeOK'
  BY <1>2, <1>3, <1>4, <1>5, <1>6
  DEF StreamsTypeOK, Histories, TimeTypes, PassedInTime
<1> QED BY <1>2, <1>7 DEF StreamsInv

LEMMA StreamsNextInv == StreamsInv /\ [StreamsNext]_streamVars => StreamsInv'
<1> SUFFICES ASSUME StreamsInv, [StreamsNext]_streamVars PROVE StreamsInv'
  OBVIOUS
<1>1. CASE RestartStreams
  <2>1. saved \in Nat /\ restarts \in 0..MaxRestarts
    BY DEF StreamsInv, StreamsTypeOK
  <2>2. saved' = saved /\ restarts' \in 0..MaxRestarts
    BY <1>1, <2>1, StreamsAssumption DEF RestartStreams
  <2>3. Starts'
    BY <1>1, <2>1, <2>2 DEF Starts, Begun, RestartStreams
  <2> QED BY <2>3, StartsInv, PTL
<1>2. CASE UNCHANGED streamVars
  <2>1. /\ values' = values /\ pauses' = pauses /\ buf' = buf /\ ptr' = ptr
        /\ total' = total /\ block' = block /\ median' = median /\ high' = high
        /\ passed' = passed /\ skips' = skips /\ sum' = sum
        /\ running' = running /\ startTime' = startTime /\ duration' = duration
        /\ atStart' = atStart /\ saved' = saved /\ booted' = booted
        /\ restarts' = restarts
    BY <1>2 DEF streamVars, averageVars, medianVars, timeCounterVars
  <2>2. StreamsTypeOK'
    BY <2>1, Zenon DEF StreamsInv, StreamsTypeOK
  <2>3. Histories'
    BY <2>1, Zenon DEF StreamsInv, Histories
  <2>4. TimeKept'
    <3>1. Counts(values') = Counts(values) /\ SumOf(pauses') = SumOf(pauses)
      BY <2>1, Zenon
    <3> QED BY <2>1, <3>1, Zenon DEF StreamsInv, TimeKept
  <2>5. HysteresisRemembers'
    BY <2>1, Zenon DEF StreamsInv, HysteresisRemembers
  <2>6. PassedInTime'
    <3>1. SumOf(values') = SumOf(values)
      BY <2>1, Zenon
    <3> QED BY <2>1, <3>1, Zenon DEF StreamsInv, PassedInTime, NothingLost
  <2>7. AverageKept'
    <3>1. FinalOf(values') = FinalOf(values)
      BY <2>1, Zenon
    <3>2. RingHolds' = RingHolds
      BY <2>1, Zenon DEF RingHolds
    <3>3. WindowSum' = WindowSum
      BY <2>1, <3>1, Zenon DEF WindowSum
    <3> QED BY <2>1, <3>2, <3>3, Zenon DEF StreamsInv, AverageKept
  <2> QED BY <2>2, <2>3, <2>4, <2>5, <2>6, <2>7 DEF StreamsInv
<1> QED BY <1>1, <1>2, ValueKeeps DEF StreamsNext

LEMMA StreamsInvSound == StreamsInv => StreamsSound
<1> SUFFICES ASSUME StreamsInv PROVE StreamsSound
  OBVIOUS
<1>1. /\ values \in Seq(Readings) /\ Len(values) \in Nat /\ DOMAIN values = 1..Len(values)
      /\ values # <<>> => Len(values) > 0
  BY LenProperties, EmptySeq DEF StreamsInv, Histories
<1>2. AverageIsWindow
  BY <1>1 DEF AverageIsWindow, StreamsInv, AverageKept, WindowSum, FinalOf, Final, SumOn
<1>3. HysteresisRemembers /\ NothingLost
  BY DEF StreamsInv, PassedInTime
<1>4. TimeCounted
  <2>1. {i \in DOMAIN values : i > 1 /\ values[i - 1] # 0} = Counts(values)
    BY <1>1 DEF Counts
  <2> QED BY <2>1 DEF TimeCounted, StreamsInv, TimeKept, SumOn
<1> QED BY <1>2, <1>3, <1>4, AnglesKept, CurvesKept DEF StreamsSound

\* The transforms that keep a state compute what they should of all the values
\* there were since the start, and the two without one do for every value: for
\* every window, band, limit, curve and turn, and every sequence of values.
THEOREM StreamsAreSound == StreamsSpec => [](StreamsTypeOK /\ StreamsSound)
<1>1. StreamsInv => StreamsTypeOK /\ StreamsSound
  BY StreamsInvSound DEF StreamsInv
<1> QED BY StreamsInitInv, StreamsNextInv, <1>1, PTL DEF StreamsSpec
=============================================================================
