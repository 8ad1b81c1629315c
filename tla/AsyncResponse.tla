--------------------------- MODULE AsyncResponse ---------------------------
(***************************************************************************)
(* The status of a command sent to another device: AsyncResponseHandler    *)
(* (src/sensesp/system/async_response_handler.h). All of it runs in the    *)
(* event loop, but its observers run inside its emissions: one may send    *)
(* the next command, or deliver an answer, before the emitting function    *)
(* has done the rest of its work. set() has nothing left to do after its   *)
(* emission, so what an observer of it does follows it. A period is no     *)
(* shorter than the loop takes to run an event that is due.                *)
(***************************************************************************)
EXTENDS Naturals, Sequences

CONSTANTS
    Timeout,     \* timeout_
    MaxCommands  \* bound on commands

ASSUME ResponseAssumption == Timeout \in Nat \ {0} /\ MaxCommands \in Nat

VARIABLES
    replyStatus,  \* status_
    timers,       \* delayed events not removed: [command, left (periods)]
    handle,       \* timeout_event_: the command of the timer, or nullptr
    calls,        \* functions inside an emission, innermost first
    commands,     \* history: commands sent
    ends,         \* history: final statuses emitted since the last command
    pendingFor,   \* history: periods since it, while it is pending
    retried       \* history: a command was sent from the emission of a timeout

replyVars ==
    <<replyStatus, timers, handle, calls, commands, ends, pendingFor, retried>>

Outcomes == {"success", "failure", "timeout"}

nullptr == 0
\* In calls a number is activate() of that command, this the timer's lambda.
Lambda == 0

Inside(call) == calls # <<>> /\ Head(calls) = call
LambdaRuns == \E i \in 1..Len(calls) : calls[i] = Lambda

ReplyTypeOK ==
    /\ replyStatus \in Outcomes \cup {"ready", "pending"}
    /\ timers \subseteq [command : 1..MaxCommands, left : 0..Timeout]
    /\ handle \in 0..MaxCommands
    /\ calls \in Seq(0..MaxCommands)
    /\ commands \in 0..MaxCommands
    /\ ends \in Nat /\ pendingFor \in Nat
    /\ retried \in BOOLEAN

ReplyInit ==
    /\ replyStatus = "ready" /\ timers = {} /\ handle = nullptr /\ calls = <<>>
    /\ commands = 0 /\ ends = 0 /\ pendingFor = 0 /\ retried = FALSE

\* activate() up to its emission.
Activate ==
    /\ commands < MaxCommands
    /\ commands' = commands + 1
    /\ replyStatus' = "pending" /\ ends' = 0 /\ pendingFor' = 0
    /\ calls' = <<commands'>> \o calls
    /\ retried' = (retried \/ LambdaRuns)
    /\ UNCHANGED <<timers, handle>>

\* The rest of activate(): the timer it knows of is removed.
Arm(c) ==
    /\ c # Lambda /\ Inside(c)
    /\ calls' = Tail(calls)
    /\ timers' = {t \in timers : t.command # handle} \cup
                 {[command |-> c, left |-> Timeout]}
    /\ handle' = c
    /\ UNCHANGED <<replyStatus, commands, ends, pendingFor, retried>>

\* set(): an answer, to whichever command; one that finds none pending has no
\* effect.
Answer(status) ==
    /\ replyStatus = "pending"
    /\ replyStatus' = status /\ ends' = ends + 1
    /\ timers' = {t \in timers : t.command # handle}
    /\ handle' = nullptr
    /\ UNCHANGED <<calls, commands, pendingFor, retried>>

\* A timer fires: its lambda looks at the status at that time. A timeout is
\* emitted before timeout_event_ is cleared.
TimedOut(t) ==
    /\ calls = <<>> /\ t.left = 0
    /\ timers' = timers \ {t}
    /\ \/ /\ replyStatus = "pending"
          /\ replyStatus' = "timeout" /\ ends' = ends + 1
          /\ calls' = <<Lambda>>
          /\ UNCHANGED handle
       \/ /\ replyStatus # "pending"
          /\ handle' = nullptr
          /\ UNCHANGED <<replyStatus, ends, calls>>
    /\ UNCHANGED <<commands, pendingFor, retried>>

\* The rest of the lambda: it clears the handle, of whichever timer.
EndTimeout ==
    /\ Inside(Lambda)
    /\ handle' = nullptr
    /\ calls' = Tail(calls)
    /\ UNCHANGED <<replyStatus, timers, commands, ends, pendingFor, retried>>

ReplyPeriod ==
    /\ calls = <<>> /\ timers # {}
    /\ \A t \in timers : t.left > 0
    /\ timers' = {[t EXCEPT !.left = t.left - 1] : t \in timers}
    /\ pendingFor' = IF replyStatus = "pending" THEN pendingFor + 1 ELSE pendingFor
    /\ UNCHANGED <<replyStatus, handle, calls, commands, ends, retried>>

ReplyNext ==
    \/ Activate \/ EndTimeout \/ ReplyPeriod
    \/ \E c \in 1..MaxCommands : Arm(c)
    \/ \E t \in timers : TimedOut(t)
    \/ \E status \in {"success", "failure"} : Answer(status)

ReplySpec == ReplyInit /\ [][ReplyNext]_replyVars

\* A command has one end, by an answer or, no later than the whole timeout, by
\* a timeout: a pending one always has a timer, once activate() has returned,
\* that ends it in time. It is never ended early, by the timer of a command that
\* was answered or replaced, with one exception the code has: once an observer
\* has sent a command from the emission of a timeout, the lambda clears the
\* handle of the new timer (async_response_handler.h:59-61); nothing can remove
\* that timer, and it ends a later command before its time.
OneReply ==
    /\ ends = IF replyStatus \in Outcomes THEN 1 ELSE 0
    /\ replyStatus = "pending" =>
         pendingFor <= Timeout /\ (timers # {} \/ calls # <<>>)
    /\ replyStatus = "timeout" => pendingFor = Timeout \/ retried
=============================================================================
