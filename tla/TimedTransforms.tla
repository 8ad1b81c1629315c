--------------------------- MODULE TimedTransforms ---------------------------
(***************************************************************************)
(* The transforms that measure time, all connected to the same producers:  *)
(* Debounce, Throttle, Repeat, RepeatStopping, RepeatExpiring, ExpiringValue*)
(* and the pairs Join and Zip (src/sensesp/transforms/debounce.h,          *)
(* throttle.h, repeat.h, join.h, zip.h, src/sensesp/system/                *)
(* expiring_value.h).                                                      *)
(*                                                                         *)
(* Producer 1 feeds them all, producer 2 the second input of the pairs. The*)
(* event loop fires a timer when it is due; here all that are due fire at  *)
(* the end of a period, after the values of that period. An elapsedMillis  *)
(* is an age in periods, saturated one above the largest limit.            *)
(***************************************************************************)
EXTENDS Integers

CONSTANTS
    Samples,     \* the values produced
    Invalid,     \* the invalid value of Nullable
    Delay,       \* ms_min_delay_ of Debounce
    MinInterval, \* min_interval_ of Throttle
    Every,       \* interval_ of the Repeat transforms
    MaxAge       \* max_age_, and expiration_duration_ of ExpiringValue

ASSUME PeriodsAssumption ==
    /\ {Delay, MinInterval, Every, MaxAge} \subseteq Nat \ {0}
    /\ Invalid \notin Samples

Limit == 1 + (CHOOSE n \in {Delay, MinInterval, Every, MaxAge + Every} :
                \A m \in {Delay, MinInterval, Every, MaxAge + Every} : m <= n)

VARIABLES
    last,      \* history: the values the producers produced last
    age,       \* age_ of the pairs and of the Repeat transforms, since last
    debounced, \* debounced_value_ ...
    settling,  \* ... the periods until event_ emits it, or 0 ...
    settled,   \* ... and the value Debounce emitted last
    throttled, \* age_ of Throttle
    spacing,   \* history: periods between the last two values of Throttle
    repeatIn,  \* periods until repeat_event_ of Repeat is due, or 0
    silent,    \* history: periods for which Repeat has emitted nothing
    stopIn,    \* the same of RepeatStopping
    expireIn,  \* the same of RepeatExpiring ...
    expiring,  \* ... and the value it emitted last
    joined,    \* history: ages of the values of the tuple Join emitted last
    fresh,     \* fresh_ of Zip
    used,      \* history: the value was part of a tuple
    reused     \* history: a tuple was zipped of a used value or an old one

timedVars ==
    <<last, age, debounced, settling, settled, throttled, spacing, repeatIn,
      silent, stopIn, expireIn, expiring, joined, fresh, used, reused>>

Inputs == {1, 2}

TimedTypeOK ==
    /\ last \in [Inputs -> Samples \cup {Invalid}]
    /\ age \in [Inputs -> 0..Limit]
    /\ {debounced, settled, expiring} \subseteq Samples \cup {Invalid}
    /\ settling \in 0..Delay
    /\ {repeatIn, stopIn, expireIn} \subseteq 0..Every
    /\ {throttled, spacing, silent} \subseteq 0..Limit
    /\ joined \in [Inputs -> 0..Limit]
    /\ fresh \in [Inputs -> BOOLEAN] /\ used \in [Inputs -> BOOLEAN]
    /\ reused \in BOOLEAN

\* The pairs start at max_age, Throttle at an age above every interval. One
\* period has gone by before the first value: one that comes with the start, while
\* an age is still max_age and not above it, would make a tuple with a value that
\* never was, and is left out.
TimedInit ==
    /\ last = [i \in Inputs |-> Invalid]
    /\ age = [i \in Inputs |-> MaxAge + 1]
    /\ debounced = Invalid /\ settling = 0 /\ settled = Invalid
    /\ throttled = Limit /\ spacing = Limit
    /\ repeatIn = 0 /\ silent = 0
    /\ stopIn = Every
    /\ expireIn = Every /\ expiring = Invalid
    /\ joined = [i \in Inputs |-> 0]
    /\ fresh = [i \in Inputs |-> FALSE] /\ used = [i \in Inputs |-> FALSE]
    /\ reused = FALSE

-----------------------------------------------------------------------------
(* A value of producer 1 (set). *)

\* A mistake: a bounce back to the value emitted last is taken for no change.
VariantDiffers(v) == v # settled

\* value_received_ is false as long as debounced_value_ is Invalid.
Differs(v) == v # debounced

DebounceSet(v) ==
    IF Differs(v)
    THEN debounced' = v /\ settling' = Delay /\ UNCHANGED settled
    ELSE UNCHANGED <<debounced, settling, settled>>

ThrottleSet ==
    IF throttled < MinInterval
    THEN UNCHANGED <<throttled, spacing>>
    ELSE throttled' = 0 /\ spacing' = throttled

\* Repeat, RepeatStopping and RepeatExpiring emit the value and start their
\* event anew.
RepeatSet(v) ==
    /\ repeatIn' = Every /\ silent' = 0
    /\ stopIn' = Every
    /\ expireIn' = Every /\ expiring' = v

(* A value of either for the pairs (the lambdas in consumers, check_emit). A *)
(* max_age of 0, the default, means no limit: that Join emits every value    *)
(* beside the other, however old or never set, and is left out.              *)

JoinSet ==
    joined' = IF \A i \in Inputs : age'[i] <= MaxAge THEN age' ELSE joined

ZipSet(i) ==
    LET fresh2 == [fresh EXCEPT ![i] = TRUE]
        used2 == [used EXCEPT ![i] = FALSE]
    IN IF \A j \in Inputs : age'[j] <= MaxAge /\ fresh2[j]
       THEN /\ fresh' = [j \in Inputs |-> FALSE]
            /\ used' = [j \in Inputs |-> TRUE]
            /\ reused' = (reused \/ \E j \in Inputs : used2[j])
       ELSE /\ fresh' = fresh2 /\ used' = used2
            /\ UNCHANGED reused

Produced(i, v) ==
    /\ last' = [last EXCEPT ![i] = v]
    /\ age' = [age EXCEPT ![i] = 0]
    /\ JoinSet /\ ZipSet(i)
    /\ IF i = 1
       THEN DebounceSet(v) /\ ThrottleSet /\ RepeatSet(v)
       ELSE UNCHANGED <<debounced, settling, settled, throttled, spacing, repeatIn,
                        silent, stopIn, expireIn, expiring>>

-----------------------------------------------------------------------------
(* A period ends, and the timers that are due fire. *)

Later(n) == IF n < Limit THEN n + 1 ELSE n

DebounceDue ==
    /\ settling' = IF settling > 0 THEN settling - 1 ELSE 0
    /\ settled' = IF settling = 1 THEN debounced ELSE settled
    /\ UNCHANGED debounced

\* A RepeatEvent is due again an interval after it fired.
NextTime(n) == IF n = 1 THEN Every ELSE IF n > 0 THEN n - 1 ELSE 0

RepeaterDue ==
    /\ repeatIn' = NextTime(repeatIn)
    /\ silent' = IF repeatIn \in {0, 1} THEN 0 ELSE silent + 1

\* RepeatStopping::repeat_function removes the event when the value is too old.
StoppingDue ==
    stopIn' = IF stopIn = 1 /\ age'[1] >= MaxAge THEN 0 ELSE NextTime(stopIn)

\* RepeatExpiring::repeat_function.
ExpiringDue ==
    /\ expireIn' = NextTime(expireIn)
    /\ expiring' = IF expireIn = 1 /\ age'[1] >= MaxAge THEN Invalid ELSE expiring

Period ==
    /\ age' = [i \in Inputs |-> Later(age[i])]
    /\ throttled' = Later(throttled)
    /\ DebounceDue /\ RepeaterDue /\ StoppingDue /\ ExpiringDue
    /\ UNCHANGED <<last, spacing, joined, fresh, used, reused>>

TimedNext ==
    \/ \E i \in Inputs, v \in Samples : Produced(i, v)
    \/ Period

TimedSpec == TimedInit /\ [][TimedNext]_timedVars

\* ExpiringValue::get, updated with each value.
ExpiringValue == IF age[1] <= MaxAge THEN last[1] ELSE Invalid

-----------------------------------------------------------------------------
(* Properties. *)

\* Once the input has been quiet for the delay, Debounce has emitted it, however
\* often it bounced before.
DebounceSettles == age[1] >= Delay /\ last[1] # Invalid => settled = last[1]

\* RepeatExpiring never goes on with a value that is older than its age and one
\* repetition, nor gives one up that is younger, RepeatStopping falls silent
\* within the same time, and both agree with ExpiringValue outside that margin.
FreshOrExpired ==
    last[1] # Invalid =>
        /\ age[1] < MaxAge => expiring = last[1] /\ stopIn > 0
        /\ age[1] >= MaxAge + Every => expiring = Invalid /\ stopIn = 0
        /\ expiring \in {Invalid, last[1]}
        /\ age[1] \notin MaxAge..MaxAge + Every - 1 => ExpiringValue = expiring

\* Repeat is not silent for longer than its interval, Throttle keeps its
\* distance, no tuple is made of an old value and none of Zip's of a value twice.
OnTime ==
    /\ silent < Every
    /\ spacing >= MinInterval
    /\ \A i \in Inputs : joined[i] <= MaxAge
    /\ ~reused

TimedSound == DebounceSettles /\ FreshOrExpired /\ OnTime
=============================================================================
