------------------------------- MODULE Button -------------------------------
(***************************************************************************)
(* A push button that switches a load, wired as in                         *)
(* examples/smart_switch/smart_switch_example.cpp: DigitalInputState reads *)
(* the pin, PressRepeater repeats a press that is held, ClickType tells the*)
(* clicks apart and SmartSwitchController toggles the load                 *)
(* (src/sensesp/transforms/press_repeater.cpp, click_type.cpp,             *)
(* src/sensesp/controllers/smart_switch_controller.h).                     *)
(*                                                                         *)
(* Time goes by in periods of the reading of the pin. Timers that are due  *)
(* in the same period fire in any order, and all of them before the next.  *)
(***************************************************************************)
EXTENDS Integers, Sequences, SequencesExt

CONSTANTS
    Long, Ultra, Interval,    \* long_click_delay_, ultra_long_click_delay_, double_click_interval_
    Grace,                    \* the 20 ms by which a report outlasts the interval
    RepeatStart, RepeatEvery, \* repeat_start_interval_, repeat_interval_
    MaxPresses                \* bound on the presses

ASSUME DelaysAssumption ==
    /\ {Long, Ultra, Interval, Grace, RepeatStart, RepeatEvery} \subseteq Nat \ {0}
    /\ Long < Ultra
\* A press is not repeated before the report of an earlier click is out, nor
\* repeated again within the interval after it: a repeat that could be taken for
\* a second press would count the press twice. (By default the report comes after
\* 420 ms and the repeats after 1500 and 250; each is late by up to a period.)
ASSUME RepeatsAssumption ==
    /\ Interval + Grace <= RepeatStart + 1
    /\ Interval + (Interval + Grace) <= (RepeatStart + 1) + (RepeatEvery + 1)
ASSUME PressesAssumption == MaxPresses \in Nat

VARIABLES
    polled,               \* the pin was read in this period
    pushed, repeating,    \* of PressRepeater
    sent,                 \* last_value_sent_, how long ago
    count,                \* click_count_
    pressAge, releaseAge, \* press_duration_, release_duration_
    reports,              \* the delayed SingleClick reports: periods they have left
    tracked,              \* delayed_click_report_ is the last of them
    outbox,               \* clicks that emitDelayed emits in 5 ms
    isOn,                 \* is_on_
    synced,               \* the value last put to the paths to synchronise
    presses,              \* history: presses since the device started
    claimed               \* history: presses that clicks were emitted for

buttonVars ==
    <<polled, pushed, repeating, sent, count, pressAge, releaseAge, reports,
      tracked, outbox, isOn, synced, presses, claimed>>

ClickTypes == {"Long", "Ultra", "Double"}

ButtonTypeOK ==
    /\ {polled, pushed, repeating, tracked, isOn} \subseteq BOOLEAN
    /\ sent \in Nat /\ pressAge \in 0..Ultra + 1 /\ releaseAge \in 0..Interval + 1
    /\ count \in 0..2
    /\ reports \in Seq(0..Interval + Grace)
    /\ tracked => reports # <<>>
    /\ outbox \in Seq(ClickTypes)
    /\ synced \in {"none", "on", "off"}
    /\ presses \in 0..MaxPresses /\ claimed \in Nat

ButtonInit ==
    /\ polled = FALSE /\ pushed = FALSE /\ repeating = FALSE /\ sent = 0
    /\ count = 0 /\ pressAge = 0 /\ releaseAge = 0
    /\ reports = <<>> /\ tracked = FALSE /\ outbox = <<>>
    /\ isOn = FALSE /\ synced = "none"
    /\ presses = 0 /\ claimed = 0

-----------------------------------------------------------------------------
(* ClickType: what a press and a release do. *)

\* on_click_completed.
Completed ==
    count' = 0 /\ tracked' = FALSE /\ pressAge' = 0 /\ releaseAge' = 0

\* A click that ends the tracking is emitted later, for n presses.
Detected(click, n) ==
    /\ outbox' = Append(outbox, click)
    /\ claimed' = claimed + n
    /\ Completed
    /\ UNCHANGED reports

\* A mistake: the report of a first click stays queued when a second one begins.
VariantRemoveReport == tracked' = FALSE /\ UNCHANGED reports

RemoveReport ==
    /\ reports' = IF tracked THEN Front(reports) ELSE reports
    /\ tracked' = FALSE

FirstPress ==
    /\ count = 0
    /\ count' = 1 /\ pressAge' = 0
    /\ UNCHANGED <<releaseAge, reports, tracked, outbox, claimed>>

HeldTooLong == count > 0 /\ pressAge > Ultra /\ Detected("Ultra", 1)

SecondPress ==
    /\ count > 0 /\ pressAge <= Ultra /\ releaseAge <= Interval
    /\ count' = count + 1
    /\ RemoveReport
    /\ UNCHANGED <<pressAge, releaseAge, outbox, claimed>>

PressIgnored ==
    /\ count > 0 /\ pressAge <= Ultra /\ releaseAge > Interval
    /\ UNCHANGED <<count, pressAge, releaseAge, reports, tracked, outbox, claimed>>

\* on_button_press.
OnPress == FirstPress \/ HeldTooLong \/ SecondPress \/ PressIgnored

\* on_button_release.
OnRelease ==
    \/ /\ count > 0 /\ pressAge >= Ultra
       /\ Detected("Ultra", 1)
    \/ /\ count > 0 /\ pressAge \in Long..Ultra - 1
       /\ Detected("Long", 1)
    \/ /\ count > 1 /\ pressAge < Long
       /\ Detected("Double", 2)
    \/ /\ count = 1 /\ pressAge < Long
       /\ reports' = Append(reports, Interval + Grace) /\ tracked' = TRUE
       /\ releaseAge' = 0
       /\ UNCHANGED <<count, pressAge, outbox, claimed>>
    \/ /\ count = 0
       /\ releaseAge' = 0
       /\ UNCHANGED <<count, pressAge, reports, tracked, outbox, claimed>>

-----------------------------------------------------------------------------
(* The steps of the event loop. *)

clickVars == <<count, pressAge, releaseAge, reports, tracked, outbox, claimed>>
switchVars == <<isOn, synced>>

\* The reading of the pin, of which PressRepeater passes on a change.
Pressed ==
    /\ ~polled /\ ~pushed /\ presses < MaxPresses
    /\ polled' = TRUE
    /\ pushed' = TRUE /\ sent' = 0 /\ presses' = presses + 1
    /\ OnPress
    /\ UNCHANGED <<repeating, switchVars>>

Released ==
    /\ ~polled /\ pushed
    /\ polled' = TRUE
    /\ pushed' = FALSE /\ repeating' = FALSE /\ sent' = 0
    /\ OnRelease
    /\ UNCHANGED <<presses, switchVars>>

SameLevel ==
    /\ ~polled
    /\ polled' = TRUE
    /\ UNCHANGED <<pushed, repeating, sent, presses, clickVars, switchVars>>

RepeatDue == pushed /\ sent > IF repeating THEN RepeatEvery ELSE RepeatStart

\* PressRepeater's event, every 10 ms.
Repeated ==
    /\ RepeatDue
    /\ repeating' = TRUE /\ sent' = 0
    /\ OnPress
    /\ UNCHANGED <<polled, pushed, presses, switchVars>>

\* click_consumer_ of the switch: any click but an ultra long one toggles, and a
\* double click puts the state to the paths to synchronise.
Toggle(syncs) ==
    /\ isOn' = ~isOn
    /\ synced' = IF ~syncs THEN synced ELSE IF isOn' THEN "on" ELSE "off"

\* A delayed SingleClick report that is due.
SingleReported ==
    /\ reports # <<>> /\ Head(reports) = 0
    /\ reports' = Tail(reports)
    /\ Completed
    /\ claimed' = claimed + 1
    /\ Toggle(FALSE)
    /\ UNCHANGED <<polled, pushed, repeating, sent, outbox, presses>>

ClickEmitted ==
    /\ outbox # <<>> /\ Head(outbox) # "Ultra"
    /\ outbox' = Tail(outbox)
    /\ Toggle(Head(outbox) = "Double")
    /\ UNCHANGED <<polled, pushed, repeating, sent, count, pressAge, releaseAge,
                   reports, tracked, presses, claimed>>

\* ESP.restart(). What was put to the paths is not the device's.
UltraRestarts ==
    /\ outbox # <<>> /\ Head(outbox) = "Ultra"
    /\ polled' = FALSE /\ pushed' = FALSE /\ repeating' = FALSE /\ sent' = 0
    /\ count' = 0 /\ pressAge' = 0 /\ releaseAge' = 0
    /\ reports' = <<>> /\ tracked' = FALSE /\ outbox' = <<>>
    /\ isOn' = FALSE
    /\ presses' = 0 /\ claimed' = 0
    /\ UNCHANGED synced

\* truthy_string_consumer_ and switch_consumer_: the load is switched from
\* elsewhere, to a value or to the other one.
SwitchSet ==
    /\ isOn' \in BOOLEAN
    /\ UNCHANGED <<polled, pushed, repeating, sent, clickVars, presses, synced>>

Older(age, limit) == IF age > limit THEN age ELSE age + 1

\* The next period begins.
ButtonTick ==
    /\ polled /\ outbox = <<>>
    /\ \A i \in DOMAIN reports : reports[i] > 0
    /\ ~RepeatDue
    /\ polled' = FALSE
    /\ sent' = Older(sent, RepeatStart)
    /\ pressAge' = Older(pressAge, Ultra)
    /\ releaseAge' = Older(releaseAge, Interval)
    /\ reports' = [i \in DOMAIN reports |-> reports[i] - 1]
    /\ UNCHANGED <<pushed, repeating, count, tracked, outbox, presses, claimed,
                   switchVars>>

ButtonNext ==
    \/ Pressed \/ Released \/ SameLevel \/ Repeated
    \/ SingleReported \/ ClickEmitted \/ UltraRestarts \/ SwitchSet
    \/ ButtonTick

ButtonSpec == ButtonInit /\ [][ButtonNext]_buttonVars

-----------------------------------------------------------------------------
(* Properties. *)

\* No press counts twice: the clicks emitted since the device started, a double
\* click for two, never stand for more presses than there were, whatever
\* repeated presses and delayed reports come between.
ClicksBacked == claimed <= presses
=============================================================================
