------------------------------- MODULE StatusLed -------------------------------
(***************************************************************************)
(* The patterns of the status LED: LEDPattern and LEDBlinker               *)
(* (src/sensesp/system/led_blinker.h) under BaseSystemStatusLed.           *)
(*                                                                         *)
(* A pattern is a sequence of fragments, here their durations; what they   *)
(* draw is left out. The event loop ticks the blinker every 5 ms or, when  *)
(* it is busy, late: a tick catches up with the fragments it missed, one   *)
(* round of the loop of apply at a time. A blip is a pattern laid over the *)
(* other one, once, for each delta sent. Time is counted modulo Wrap, the  *)
(* width of unsigned long, and stands still during a tick.                 *)
(***************************************************************************)
EXTENDS Integers, SequencesExt

CONSTANTS
    Patterns,  \* the patterns of the states of the system
    Blip,      \* blip_pattern
    Wrap,      \* one above the largest millis()
    MaxGap,    \* bound on the time between two ticks
    MaxBlips   \* bound on the modifiers at a time

Length(p) == FoldFunction(+, 0, p)

\* The time from the start of a pattern to that of its fragment i.
Before(p, i) == FoldFunctionOnSet(+, 0, p, 1..i - 1)

ASSUME LedAssumption ==
    /\ Patterns \cup {Blip} \subseteq Seq(Nat \ {0}) \ {<<>>} /\ Patterns # {}
    /\ MaxGap \in Nat \ {0} /\ MaxBlips \in Nat
    /\ \A p \in Patterns \cup {Blip} : Wrap \in Nat /\ Length(p) + MaxGap < Wrap

VARIABLES
    millis,   \* at the last tick
    pattern,  \* pattern_ ...
    main,     \* ... and how far it is
    blips,    \* modifiers_: how far each is
    applying  \* in a tick: what it applies, 1 for the pattern, i + 1 for blip i

ledVars == <<millis, pattern, main, blips, applying>>

\* idx is current_fragment_idx_, begin is fragment_begin_ms_. History: age, the
\* time since the pattern began, of a repeated one since it did last. A begin of
\* 0 is taken for a pattern not begun even in the middle of it: its fragment
\* begins again, and the age is counted from there.
Progress(p) == [idx : DOMAIN p, begin : 0..Wrap - 1, age : 0..Wrap - 1]

LedTypeOK ==
    /\ millis \in 0..Wrap - 1
    /\ pattern \in Patterns
    /\ main \in Progress(pattern)
    /\ blips \in Seq(Progress(Blip)) /\ Len(blips) <= MaxBlips
    /\ applying \in 0..Len(blips) + 1

Fresh == [idx |-> 1, begin |-> 0, age |-> 0]

LedInit ==
    /\ millis \in 0..Wrap - 1 /\ pattern \in Patterns
    /\ main = Fresh /\ blips = <<>> /\ applying = 0

-----------------------------------------------------------------------------
(* LEDPattern *)

Elapsed(a, now) == (now - a.begin) % Wrap

\* The condition of the while loop of apply.
Over(p, a) == Elapsed(a, millis) >= p[a.idx]

AtLast(p, a) == a.idx = Len(p)

NextIndex(p, a) == IF AtLast(p, a) THEN 1 ELSE a.idx + 1

\* A mistake: the next fragment begins now, not when the former one ended.
VariantNextFragment(p, a) ==
    [idx |-> NextIndex(p, a), begin |-> millis,
     age |-> IF AtLast(p, a) THEN a.age - Length(p) ELSE a.age]

\* Its body.
NextFragment(p, a) ==
    [idx |-> NextIndex(p, a), begin |-> (a.begin + p[a.idx]) % Wrap,
     age |-> IF AtLast(p, a) THEN a.age - Length(p) ELSE a.age]

\* The lines before it, and the history.
WithBegin(p, a, now, gap) ==
    IF a.begin = 0 THEN [a EXCEPT !.begin = now, !.age = Before(p, a.idx)]
    ELSE [a EXCEPT !.age = @ + gap]

-----------------------------------------------------------------------------
(* LEDBlinker *)

\* tick(), gap after the one before.
LedTick(gap) ==
    LET now == (millis + gap) % Wrap
    IN /\ applying = 0 /\ applying' = 1
       /\ millis' = now
       /\ main' = WithBegin(pattern, main, now, gap)
       /\ blips' = [i \in DOMAIN blips |-> WithBegin(Blip, blips[i], now, gap)]
       /\ UNCHANGED pattern

PatternGoesOn ==
    /\ applying = 1 /\ Over(pattern, main)
    /\ main' = NextFragment(pattern, main)
    /\ UNCHANGED <<millis, pattern, blips, applying>>

PatternShown ==
    /\ applying = 1 /\ ~Over(pattern, main)
    /\ applying' = IF blips = <<>> THEN 0 ELSE 2
    /\ UNCHANGED <<millis, pattern, main, blips>>

BlipGoesOn(i) ==
    /\ applying = i + 1 /\ Over(Blip, blips[i]) /\ ~AtLast(Blip, blips[i])
    /\ blips' = [blips EXCEPT ![i] = NextFragment(Blip, @)]
    /\ UNCHANGED <<millis, pattern, main, applying>>

\* apply returns false: the modifier is erased.
BlipEnds(i) ==
    /\ applying = i + 1 /\ Over(Blip, blips[i]) /\ AtLast(Blip, blips[i])
    /\ blips' = RemoveAt(blips, i)
    /\ applying' = IF i = Len(blips) THEN 0 ELSE applying
    /\ UNCHANGED <<millis, pattern, main>>

BlipShown(i) ==
    /\ applying = i + 1 /\ ~Over(Blip, blips[i])
    /\ applying' = IF i = Len(blips) THEN 0 ELSE applying + 1
    /\ UNCHANGED <<millis, pattern, main, blips>>

\* set_pattern, for a state of the system: operator= begins at the beginning.
SetPattern(p) ==
    /\ applying = 0
    /\ pattern' = p /\ main' = Fresh
    /\ UNCHANGED <<millis, blips, applying>>

\* add_modifier(blip_pattern)
AddModifier ==
    /\ applying = 0 /\ Len(blips) < MaxBlips
    /\ blips' = Append(blips, Fresh)
    /\ UNCHANGED <<millis, pattern, main, applying>>

LedNext ==
    \/ \E gap \in 1..MaxGap : LedTick(gap)
    \/ PatternGoesOn \/ PatternShown
    \/ \E i \in DOMAIN blips : BlipGoesOn(i) \/ BlipEnds(i) \/ BlipShown(i)
    \/ \E p \in Patterns : SetPattern(p)
    \/ AddModifier

LedSpec == LedInit /\ [][LedNext]_ledVars

-----------------------------------------------------------------------------
(* Property. *)

InStep(p, a) ==
    /\ a.age = Before(p, a.idx) + Elapsed(a, millis)
    /\ a.age < Length(p)

\* However late the ticks come and whenever millis() wraps, the LED shows what
\* its pattern has at this time since it began, in a fragment the pattern has
\* (a switch to a shorter one included), and so do the blips, which go when
\* they are over. Once in a wrap a fragment may begin at time 0: it begins again
\* at the next tick, and what follows is late by that much.
LedSound ==
    /\ main.idx \in DOMAIN pattern
    /\ applying = 0 =>
         /\ main.begin # 0 => InStep(pattern, main)
         /\ \A i \in DOMAIN blips : blips[i].begin # 0 => InStep(Blip, blips[i])
=============================================================================
