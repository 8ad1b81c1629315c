------------------------------ MODULE PinInputs ------------------------------
(***************************************************************************)
(* Pins that interrupt: DigitalInputCounter counts pulses and              *)
(* DigitalInputChange reports levels (src/sensesp/sensors/digital_input.h).*)
(*                                                                         *)
(* An interrupt handler runs between any two steps of the event loop,      *)
(* unless interrupts are masked (noInterrupts); one that comes meanwhile is*)
(* kept by the hardware until they are allowed again. A critical section is*)
(* taken to be too short for two edges of one pin.                         *)
(***************************************************************************)
EXTENDS Naturals

CONSTANT MaxPulses  \* bound on the pulses

ASSUME PulsesAssumption == MaxPulses \in Nat

VARIABLES
    masked,              \* interrupts are off
    pulseWaits,          \* an interrupt of the counter's pin is kept
    counter, counted,    \* counter_ and output_ of DigitalInputCounter
    counterAt,           \* where its event is
    pulses, reported,    \* history: pulses of the pin, pulses emitted
    level,               \* the level of the other pin
    levelWaits,          \* an interrupt of that pin is kept
    triggered, output,   \* triggered_, output_ and last_output_ of
    lastOutput,          \* DigitalInputChange
    changeAt,            \* where its event is
    emitted              \* history: the level emitted last, or "none"

counterVars == <<pulseWaits, counter, counted, counterAt, pulses, reported>>
changeVars == <<level, levelWaits, triggered, output, lastOutput, changeAt, emitted>>
pinVars == <<masked, counterVars, changeVars>>

PinTypeOK ==
    /\ {masked, pulseWaits, level, levelWaits, triggered, output, lastOutput}
           \subseteq BOOLEAN
    /\ {counter, counted, pulses, reported} \subseteq 0..MaxPulses
    /\ counterAt \in {"idle", "copy", "clear", "allow", "notify"}
    /\ changeAt \in {"idle", "notify"}
    /\ emitted \in {"none", "low", "high"}

\* The constructor of DigitalInputChange makes sure that the first level is sent.
PinInit ==
    /\ masked = FALSE
    /\ pulseWaits = FALSE /\ counter = 0 /\ counted = 0 /\ counterAt = "idle"
    /\ pulses = 0 /\ reported = 0
    /\ level \in BOOLEAN /\ levelWaits = FALSE
    /\ triggered = TRUE /\ output = level /\ lastOutput = ~level
    /\ changeAt = "idle" /\ emitted = "none"

-----------------------------------------------------------------------------
(* The pins and their interrupt handlers. *)

Pulse ==
    /\ pulses < MaxPulses /\ ~pulseWaits
    /\ pulses' = pulses + 1
    /\ pulseWaits' = TRUE
    /\ UNCHANGED <<masked, counter, counted, counterAt, reported, changeVars>>

CountPulse ==
    /\ ~masked /\ pulseWaits
    /\ counter' = counter + 1
    /\ pulseWaits' = FALSE
    /\ UNCHANGED <<masked, counted, counterAt, pulses, reported, changeVars>>

Edge ==
    /\ ~levelWaits
    /\ level' = ~level /\ levelWaits' = TRUE
    /\ UNCHANGED <<masked, counterVars, triggered, output, lastOutput, changeAt, emitted>>

ReadLevel ==
    /\ ~masked /\ levelWaits
    /\ output' = level /\ triggered' = TRUE /\ levelWaits' = FALSE
    /\ UNCHANGED <<masked, counterVars, level, lastOutput, changeAt, emitted>>

-----------------------------------------------------------------------------
(* The event loop: the repeated event of the counter, instruction by         *)
(* instruction, and the tick event of the other.                             *)

\* A mistake: the counter is read with interrupts on.
VariantMasks == masked' = FALSE

Masks == masked' = TRUE

BeginCount ==
    /\ counterAt = "idle" /\ changeAt = "idle"
    /\ counterAt' = "copy"
    /\ Masks
    /\ UNCHANGED <<pulseWaits, counter, counted, pulses, reported, changeVars>>

CopyCount ==
    /\ counterAt = "copy"
    /\ counted' = counter
    /\ counterAt' = "clear"
    /\ UNCHANGED <<masked, pulseWaits, counter, pulses, reported, changeVars>>

ClearCount ==
    /\ counterAt = "clear"
    /\ counter' = 0
    /\ counterAt' = "allow"
    /\ UNCHANGED <<masked, pulseWaits, counted, pulses, reported, changeVars>>

AllowInterrupts ==
    /\ counterAt = "allow"
    /\ masked' = FALSE
    /\ counterAt' = "notify"
    /\ UNCHANGED <<pulseWaits, counter, counted, pulses, reported, changeVars>>

NotifyCount ==
    /\ counterAt = "notify"
    /\ reported' = reported + counted
    /\ counterAt' = "idle"
    /\ UNCHANGED <<masked, pulseWaits, counter, counted, pulses, changeVars>>

\* The tick event, with interrupts off: it goes on to notify only for a change.
CheckLevel ==
    /\ changeAt = "idle" /\ counterAt = "idle"
    /\ triggered /\ output # lastOutput
    /\ triggered' = FALSE /\ lastOutput' = output
    /\ changeAt' = "notify"
    /\ UNCHANGED <<masked, counterVars, level, levelWaits, output, emitted>>

\* notify() runs with interrupts on, and the observers read output_ again.
NotifyLevel ==
    /\ changeAt = "notify"
    /\ emitted' = IF output THEN "high" ELSE "low"
    /\ changeAt' = "idle"
    /\ UNCHANGED <<masked, counterVars, level, levelWaits, triggered, output, lastOutput>>

PinNext ==
    \/ Pulse \/ CountPulse \/ Edge \/ ReadLevel
    \/ BeginCount \/ CopyCount \/ ClearCount \/ AllowInterrupts \/ NotifyCount
    \/ CheckLevel \/ NotifyLevel

PinSpec == PinInit /\ [][PinNext]_pinVars

-----------------------------------------------------------------------------
(* Properties. *)

\* Between two reports every pulse is either reported, counted or kept, whenever
\* it came.
PulsesKept ==
    counterAt = "idle" =>
        pulses = reported + counter + (IF pulseWaits THEN 1 ELSE 0)

\* No interrupt is kept and the tick event has nothing to do.
LevelAtRest ==
    ~levelWaits /\ changeAt = "idle" /\ ~(triggered /\ output # lastOutput)

\* "ensure that we always send the first output_" (the constructor of
\* DigitalInputChange): when no interrupt is kept and the tick event has nothing
\* to do, a level has been sent.
FirstLevelSent == LevelAtRest => emitted # "none"
=============================================================================
