------------------------------- MODULE Streams -------------------------------
(***************************************************************************)
(* Transforms whose output depends on the values so far, or on one value   *)
(* alone, all fed from one producer of whole numbers: MovingAverage,       *)
(* Median, Hysteresis, ChangeFilter, Integrator, TimeCounter,              *)
(* AngleCorrection and CurveInterpolator                                   *)
(* (src/sensesp/transforms/).                                              *)
(*                                                                         *)
(* Each is modelled by the state it keeps, and compared with what it should*)
(* be by the history of the values. Fractions are kept as a numerator over *)
(* a known denominator. The configuration does not change here. The values *)
(* are whole numbers whose sums a float holds exactly, up to 2^24: what    *)
(* rounding adds to the running sums of MovingAverage and Integrator, and  *)
(* a NaN, which never leaves them, are left out.                           *)
(***************************************************************************)
EXTENDS Integers, Sequences, FiniteSets, Folds, Functions

CONSTANTS
    Readings,           \* the values produced, a set of integers
    Window,             \* sample_size_ of MovingAverage and of Median
    Lower, Upper,       \* the thresholds of Hysteresis
    MinDelta, MaxDelta, \* of ChangeFilter
    MaxSkips,           \* max_skips_
    Turn, MinAngle,     \* a full turn in units of angle, and min_angle_
    Curves,             \* sets of samples <<input, output>>, two or more of each
    Pauses,             \* times there may be between two values
    MaxValues, MaxRestarts  \* bounds

ASSUME StreamsAssumption ==
    /\ Window \in Nat \ {0} /\ Turn \in Nat \ {0} /\ MaxSkips \in Nat
    /\ Lower \in Int /\ Upper \in Int /\ MinAngle \in Int /\ Lower < Upper
    /\ MinDelta \in Nat /\ MaxDelta \in Nat
    /\ Readings \subseteq Int /\ Pauses \subseteq Nat
    /\ MaxValues \in Nat /\ MaxRestarts \in Nat
    /\ \A c \in Curves :
         /\ IsFiniteSet(c) /\ Cardinality(c) >= 2 /\ c \subseteq Int \X Int
         /\ \A s \in c, t \in c : s[1] = t[1] => s = t

VARIABLES
    values, pauses,   \* history: the values since the start, the time before each
    buf, ptr, total,  \* buf_, ptr_ and sum_ of MovingAverage
    block, median,    \* buf_ and output_ of Median, or << >>
    high,             \* last_value_ of Hysteresis is high_output
    passed, skips,    \* of ChangeFilter: history of the values passed, skips_
    sum,              \* value of Integrator
    running,          \* previous_state_ of TimeCounter, or "unknown" ...
    startTime,        \* ... start_time_ms_ ...
    duration, atStart,\* ... duration_ms_ and duration_at_start_ms_ ...
    saved,            \* ... and the duration in its file
    booted,           \* history: the duration it started from
    restarts          \* history: restarts

averageVars == <<buf, ptr, total>>
medianVars == <<block, median>>
timeCounterVars == <<running, startTime, duration, atStart, saved>>
streamVars ==
    <<values, pauses, averageVars, medianVars, high, passed, skips, sum,
      timeCounterVars, booted, restarts>>

StreamsTypeOK ==
    /\ values \in Seq(Readings) /\ pauses \in Seq(Pauses)
    /\ buf \in Seq(Readings) /\ ptr \in 0..Window - 1 /\ total \in Int
    /\ block \in Seq(Readings) /\ Len(block) < Window
    /\ median \in Seq(Readings) /\ Len(median) <= 1
    /\ high \in BOOLEAN
    /\ passed \in Seq(Readings) /\ skips \in 0..MaxSkips + 1
    /\ sum \in Int
    /\ running \in {"unknown", "on", "off"}
    /\ {startTime, duration, atStart, saved, booted} \subseteq Nat
    /\ restarts \in 0..MaxRestarts

\* What a start leaves, but for the file of TimeCounter.
Begun(file) ==
    /\ values = <<>> /\ pauses = <<>>
    /\ buf = <<>> /\ ptr = 0 /\ total = 0
    /\ block = <<>> /\ median = <<>>
    /\ high = FALSE
    /\ passed = <<>> /\ skips = MaxSkips + 1
    /\ sum = 0
    /\ running = "unknown" /\ startTime = 0
    /\ duration = file /\ atStart = file /\ booted = file

StreamsInit == Begun(0) /\ saved = 0 /\ restarts = 0

SumOf(s) == FoldFunction(+, 0, s)

-----------------------------------------------------------------------------
(* set() of each transform. *)

\* A mistake: the buffer is not seeded with the first value.
VariantAverageSeed(v) == [i \in 1..Window |-> IF i = 1 THEN v ELSE 0]

AverageSeed(v) == [i \in 1..Window |-> v]

AverageSet(v) ==
    IF buf = <<>>  \* not initialized_
    THEN buf' = AverageSeed(v) /\ total' = SumOf(AverageSeed(v)) /\ UNCHANGED ptr
    ELSE /\ total' = total + v - buf[ptr + 1]
         /\ buf' = [buf EXCEPT ![ptr + 1] = v]
         /\ ptr' = (ptr + 1) % Window

\* The value at position mid of the sorted buffer.
Sorted(s, mid) ==
    CHOOSE v \in Range(s) :
        /\ Cardinality({i \in DOMAIN s : s[i] < v}) <= mid
        /\ Cardinality({i \in DOMAIN s : s[i] <= v}) > mid

MedianSet(v) ==
    IF Len(block) + 1 < Window
    THEN block' = Append(block, v) /\ UNCHANGED median
    ELSE block' = <<>> /\ median' = <<Sorted(Append(block, v), Window \div 2)>>

HysteresisSet(v) ==
    high' = IF v < Lower THEN FALSE ELSE IF v >= Upper THEN TRUE ELSE high

Distance(a, b) == IF a > b THEN a - b ELSE b - a

\* output_ is 0 before the first value is passed.
ChangeFilterSet(v) ==
    LET output == IF passed = <<>> THEN 0 ELSE passed[Len(passed)]
    IN IF Distance(v, output) \in MinDelta..MaxDelta \/ skips > MaxSkips
       THEN passed' = Append(passed, v) /\ skips' = 0
       ELSE skips' = skips + 1 /\ UNCHANGED passed

IntegratorSet(v) == sum' = sum + v

\* TimeCounter::set: the input is taken as a condition.
TimeCounterSet(v, now) ==
    LET isOn == v # 0
        was == IF running = "unknown" THEN isOn ELSE running = "on"
        start == IF running = "unknown" THEN now ELSE startTime
        base == IF running = "unknown" THEN duration ELSE atStart
        lasted == IF was THEN base + (now - start) ELSE duration
    IN /\ running' = IF isOn THEN "on" ELSE "off"
       /\ duration' = lasted
       /\ startTime' = IF isOn /\ ~was THEN now ELSE start
       /\ atStart' = IF isOn /\ ~was THEN lasted ELSE base
       /\ saved' = IF isOn # was THEN lasted ELSE saved

Value(v, pause) ==
    /\ Len(values) < MaxValues
    /\ values' = Append(values, v) /\ pauses' = Append(pauses, pause)
    /\ AverageSet(v) /\ MedianSet(v) /\ HysteresisSet(v) /\ ChangeFilterSet(v)
    /\ IntegratorSet(v)
    /\ TimeCounterSet(v, SumOf(pauses'))
    /\ UNCHANGED <<booted, restarts>>

\* The device restarts and load() reads the file of TimeCounter.
RestartStreams ==
    /\ restarts < MaxRestarts
    /\ restarts' = restarts + 1
    /\ UNCHANGED saved
    /\ values' = <<>> /\ pauses' = <<>>
    /\ buf' = <<>> /\ ptr' = 0 /\ total' = 0
    /\ block' = <<>> /\ median' = <<>>
    /\ high' = FALSE
    /\ passed' = <<>> /\ skips' = MaxSkips + 1
    /\ sum' = 0
    /\ running' = "unknown" /\ startTime' = 0
    /\ duration' = saved /\ atStart' = saved /\ booted' = saved

StreamsNext ==
    \/ \E v \in Readings, pause \in Pauses : Value(v, pause)
    \/ RestartStreams

StreamsSpec == StreamsInit /\ [][StreamsNext]_streamVars

-----------------------------------------------------------------------------
(* Transforms without a state. *)

\* C's fmod has the sign of its first argument.
Fmod(a, b) == IF a >= 0 THEN a % b ELSE -((-a) % b)

AngleCorrection(v, offset) ==
    LET x == Fmod(v + offset - MinAngle, Turn)
    IN MinAngle + (IF x < 0 THEN x + Turn ELSE x)

Lowest(c) == CHOOSE s \in c : \A t \in c : s[1] <= t[1]
Highest(c) == CHOOSE s \in c : \A t \in c : t[1] <= s[1]

\* The value at v of the line through two samples, as a fraction. A hit on a
\* sample is one of them twice.
OnLine(s, t, v) ==
    IF s = t THEN <<t[2], 1>>
    ELSE <<s[2] * (t[1] - v) + t[2] * (v - s[1]), t[1] - s[1]>>

\* CurveInterpolator::set, for curves of two samples or more.
Interpolate(c, v) ==
    LET below == {s \in c : s[1] < v}
        above == c \ below
        first == Lowest(c)
        final == Highest(c)
    IN IF v < first[1] THEN OnLine(first, Lowest(c \ {first}), v)
       ELSE IF above = {} THEN OnLine(Highest(c \ {final}), final, v)
       ELSE OnLine(IF below = {} THEN Lowest(above) ELSE Highest(below), Lowest(above), v)

-----------------------------------------------------------------------------
(* Properties. *)

Final(n) == {i \in DOMAIN values : i > Len(values) - n}

\* The running sum of MovingAverage, which a value enters once and leaves once, is
\* the sum of the last values, the first value standing for those there are too
\* few of: for values whose sums are exact. sum_ is a float
\* (moving_average.cpp:28), and where they are not it drifts from the window.
AverageIsWindow ==
    values # <<>> =>
        total = FoldFunctionOnSet(+, 0, values, Final(Window))
                    + (Window - Cardinality(Final(Window))) * values[1]

\* Hysteresis is high just when the last value outside the band was above it.
HysteresisRemembers ==
    LET outside == {i \in DOMAIN values : values[i] \notin Lower..Upper - 1}
    IN high = (outside # {} /\ \E i \in outside :
                   (\A j \in outside : j <= i) /\ values[i] >= Upper)

\* Integrator holds the sum of its inputs. ChangeFilter passes the first value,
\* passes only values there were, and never holds back more than max_skips and one
\* in a row: one more than change_filter.h:17-19 says (SkipsWithinMax).
NothingLost ==
    /\ sum = SumOf(values)
    /\ (passed = <<>>) = (values = <<>>)
    /\ Range(passed) \subseteq Range(values)
    /\ Len(values) <= Len(passed) * (MaxSkips + 2)

\* TimeCounter counts just the time after values that were on, and a restart
\* while it is off loses none of it.
TimeCounted ==
    LET counted == {i \in DOMAIN values : i > 1 /\ values[i - 1] # 0}
    IN /\ duration = booted + FoldFunctionOnSet(+, 0, pauses, counted)
       /\ saved <= duration
       /\ running # "on" => saved = duration

\* A corrected angle is the same angle, in the turn that begins at min_angle.
AnglesInTurn ==
    \A v \in Readings, offset \in Readings :
        LET x == AngleCorrection(v, offset)
        IN x \in MinAngle..MinAngle + Turn - 1 /\ (x - v - offset) % Turn = 0

\* An interpolated curve goes through its samples, and between two neighbours
\* and beyond the ends it is the line through two neighbours.
CurvesFit ==
    \A c \in Curves, v \in Readings :
        LET y == Interpolate(c, v)
        IN /\ y[2] > 0
           /\ \A s \in c : s[1] = v => y[1] = s[2] * y[2]
           /\ \E s \in c, t \in c :
                /\ s[1] < t[1] /\ \A u \in c : u[1] <= s[1] \/ u[1] >= t[1]
                /\ y[1] * (t[1] - s[1])
                      = y[2] * (s[2] * (t[1] - s[1]) + (t[2] - s[2]) * (v - s[1]))

\* "If the consecutive skip count ever reaches max_skips, the value will be let
\* through regardless" (change_filter.h:17-19; its lines 27-29 and the text on the
\* page, change_filter.cpp:49, say the same): no more than max_skips values are
\* held back after one that was passed. False of ChangeFilter::set, which waits
\* until skips_ is greater (change_filter.cpp:19).
SkipsWithinMax == Len(values) <= Len(passed) * (MaxSkips + 1)

StreamsSound ==
    /\ AverageIsWindow /\ HysteresisRemembers /\ NothingLost /\ TimeCounted
    /\ AnglesInTurn /\ CurvesFit
=============================================================================
