---------------------------- MODULE RequestQueue ----------------------------
(***************************************************************************)
(* Configuration cards that load through one limiter: createRequestQueue   *)
(* (frontend/src/common/requestQueue.ts) under the effect of ConfigCard.   *)
(*                                                                         *)
(* Every card schedules one GET when it is shown. The limiter keeps at most*)
(* MaxConcurrency calls in flight; a slot belongs to a call from acquire to*)
(* release, its backoff waits included, and passes from a call that ends to*)
(* the first that waits. A step is what the browser runs without a break.  *)
(***************************************************************************)
EXTENDS Naturals, FiniteSets, Sequences, SequencesExt

CONSTANTS
    Cards,
    MaxConcurrency,  \* MAX_CONCURRENCY
    MaxRetries,      \* DEFAULT_MAX_RETRIES
    MaxReloads       \* bound on presses of Retry, for each card

ASSUME QueueAssumption ==
    /\ IsFiniteSet(Cards) /\ MaxConcurrency \in Nat \ {0}
    /\ MaxRetries \in Nat /\ MaxReloads \in Nat

VARIABLES
    inFlight, waiters,  \* of the limiter
    at,                 \* where the call of a card is
    aborted,            \* its signal: the card was taken off the page
    attempt,            \* failures of its task so far
    outcome,            \* how its task ended
    phase,              \* phase of ConfigCard
    reloads

queueVars == <<inFlight, waiters>>
callVars == <<at, aborted, attempt, outcome>>
cardVars == <<phase, reloads>>
slotVars == <<queueVars, callVars, cardVars>>

\* A call holds a slot from the moment it is granted one until it releases it.
HoldsSlot == {"granted", "fetching", "delaying", "releasing"}

SlotTypeOK ==
    /\ inFlight \in 0..Cardinality(Cards)
    /\ waiters \in Seq(Cards)
    /\ at \in [Cards -> HoldsSlot \cup {"none", "waiting", "ended"}]
    /\ aborted \in [Cards -> BOOLEAN]
    /\ attempt \in [Cards -> 0..MaxRetries + 1]
    /\ outcome \in [Cards -> {"none", "data", "error", "abort"}]
    /\ phase \in [Cards -> {"hidden", "loading", "loaded", "failed"}]
    /\ reloads \in [Cards -> 0..MaxReloads]

SlotInit ==
    /\ inFlight = 0 /\ waiters = <<>>
    /\ at = [c \in Cards |-> "none"]
    /\ aborted = [c \in Cards |-> FALSE]
    /\ attempt = [c \in Cards |-> 0]
    /\ outcome = [c \in Cards |-> "none"]
    /\ phase = [c \in Cards |-> "hidden"]
    /\ reloads = [c \in Cards |-> 0]

-----------------------------------------------------------------------------
(* The limiter. *)

\* acquire(): a free slot, or a place among the waiters.
Acquire(c) ==
    \/ /\ inFlight < MaxConcurrency
       /\ inFlight' = inFlight + 1
       /\ at' = [at EXCEPT ![c] = "granted"]
       /\ UNCHANGED waiters
    \/ /\ inFlight >= MaxConcurrency
       /\ waiters' = Append(waiters, c)
       /\ at' = [at EXCEPT ![c] = "waiting"]
       /\ UNCHANGED inFlight

\* A mistake: an abort takes away the first that waits, whoever that is.
VariantLeave(c) == waiters # <<>> /\ waiters' = Tail(waiters)

\* onAbort of acquire().
Leave(c) ==
    \E i \in DOMAIN waiters : waiters[i] = c /\ waiters' = RemoveAt(waiters, i)

\* release(): the slot goes to the first waiter, or is free again.
Release(c) ==
    \/ /\ waiters # <<>>
       /\ at' = [at EXCEPT ![c] = "ended", ![Head(waiters)] = "granted"]
       /\ waiters' = Tail(waiters)
       /\ UNCHANGED inFlight
    \/ /\ waiters = <<>>
       /\ at' = [at EXCEPT ![c] = "ended"]
       /\ inFlight' = inFlight - 1
       /\ UNCHANGED waiters

-----------------------------------------------------------------------------
(* Cards: the effect that loads one, and its cleanup. *)

\* The effect starts a call with a new signal.
Load(c) ==
    /\ phase' = [phase EXCEPT ![c] = "loading"]
    /\ aborted' = [aborted EXCEPT ![c] = FALSE]
    /\ Acquire(c)
    /\ UNCHANGED <<attempt, outcome>>

Show(c) ==
    /\ phase[c] = "hidden" /\ at[c] = "none"
    /\ Load(c)
    /\ UNCHANGED reloads

Reload(c) ==
    /\ phase[c] = "failed" /\ reloads[c] < MaxReloads
    /\ reloads' = [reloads EXCEPT ![c] = @ + 1]
    /\ Load(c)

\* The cleanup aborts the call: a waiting one ends at once, one in its backoff
\* is woken, one whose fetch runs finds out from its fetch.
Hide(c) ==
    /\ phase[c] # "hidden"
    /\ phase' = [phase EXCEPT ![c] = "hidden"]
    /\ aborted' = [aborted EXCEPT ![c] = TRUE]
    /\ \/ /\ at[c] = "waiting"
          /\ Leave(c)
          /\ at' = [at EXCEPT ![c] = "ended"]
          /\ UNCHANGED outcome
       \/ /\ at[c] = "delaying"
          /\ at' = [at EXCEPT ![c] = "releasing"]
          /\ outcome' = [outcome EXCEPT ![c] = "abort"]
          /\ UNCHANGED waiters
       \/ /\ at[c] \notin {"waiting", "delaying"}
          /\ UNCHANGED <<at, outcome, waiters>>
    /\ UNCHANGED <<inFlight, attempt, reloads>>

-----------------------------------------------------------------------------
(* runWithRetry *)

\* The call leaves the loop with its outcome.
EndsWith(c, result) ==
    /\ at' = [at EXCEPT ![c] = "releasing"]
    /\ outcome' = [outcome EXCEPT ![c] = result]

\* The loop's test of the signal, and the task is started.
Begin(c) ==
    /\ at[c] = "granted"
    /\ \/ aborted[c] /\ EndsWith(c, "abort")
       \/ ~aborted[c] /\ at' = [at EXCEPT ![c] = "fetching"] /\ UNCHANGED outcome
    /\ UNCHANGED <<queueVars, aborted, attempt, cardVars>>

\* The fetch ends with data, which an abort meanwhile makes of no use.
Succeeds(c) ==
    /\ at[c] = "fetching"
    /\ EndsWith(c, IF aborted[c] THEN "abort" ELSE "data")
    /\ UNCHANGED <<queueVars, aborted, attempt, cardVars>>

\* The fetch was aborted.
FetchAborted(c) ==
    /\ at[c] = "fetching" /\ aborted[c]
    /\ EndsWith(c, "abort")
    /\ UNCHANGED <<queueVars, aborted, attempt, cardVars>>

\* The fetch fails: shouldRetry is false of a client error. The backoff of an
\* aborted call is refused at once.
Fails(c) ==
    /\ at[c] = "fetching"
    /\ attempt' = [attempt EXCEPT ![c] = @ + 1]
    /\ \E shouldRetry \in BOOLEAN :
         \/ /\ attempt[c] + 1 > MaxRetries \/ ~shouldRetry
            /\ EndsWith(c, "error")
         \/ /\ attempt[c] + 1 <= MaxRetries /\ shouldRetry
            /\ \/ aborted[c] /\ EndsWith(c, "abort")
               \/ /\ ~aborted[c]
                  /\ at' = [at EXCEPT ![c] = "delaying"]
                  /\ UNCHANGED outcome
    /\ UNCHANGED <<queueVars, aborted, cardVars>>

DelayOver(c) ==
    /\ at[c] = "delaying"
    /\ at' = [at EXCEPT ![c] = "granted"]
    /\ UNCHANGED <<queueVars, aborted, attempt, outcome, cardVars>>

\* The finally of schedule(), and the card is told: not of an abort. The locals
\* of the call are gone.
Finish(c) ==
    /\ at[c] = "releasing"
    /\ Release(c)
    /\ phase' = [phase EXCEPT ![c] =
           CASE outcome[c] = "data"  /\ ~aborted[c] -> "loaded"
             [] outcome[c] = "error" /\ ~aborted[c] -> "failed"
             [] OTHER -> @]
    /\ attempt' = [attempt EXCEPT ![c] = 0]
    /\ outcome' = [outcome EXCEPT ![c] = "none"]
    /\ UNCHANGED <<aborted, reloads>>

\* What the browser runs by itself. A fetch ends in the end: the browser gives
\* up a connection that does not answer.
CallStep(c) ==
    \/ Begin(c) \/ Succeeds(c) \/ FetchAborted(c) \/ Fails(c)
    \/ DelayOver(c) \/ Finish(c)

SlotNext == \E c \in Cards : Show(c) \/ Reload(c) \/ Hide(c) \/ CallStep(c)

SlotSpec ==
    SlotInit /\ [][SlotNext]_slotVars /\ \A c \in Cards : WF_slotVars(CallStep(c))

-----------------------------------------------------------------------------
(* Properties. *)

\* The count is the number of calls that hold a slot, never more than the
\* limit, and nobody waits while a slot is free: no order of aborts, failures
\* and grants leaks a slot or uses one twice.
SlotsCounted ==
    /\ inFlight = Cardinality({c \in Cards : at[c] \in HoldsSlot})
    /\ inFlight <= MaxConcurrency
    /\ waiters # <<>> => inFlight = MaxConcurrency

\* A card that is loading is loaded, has failed or is taken off the page in the
\* end: no call waits for ever for a slot.
CardsEnd == \A c \in Cards : phase[c] = "loading" ~> phase[c] # "loading"
=============================================================================
