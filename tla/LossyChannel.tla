---------------------------- MODULE LossyChannel ----------------------------
(***************************************************************************)
(* What a device promises about the values it sends to a Signal K server,  *)
(* on a channel of its own for each context: any of them may be lost, but  *)
(* those that arrive do so once, in the order they were produced ("Deltas  *)
(* are supersedable", send_delta; "oldest-first ordering",                 *)
(* SKDeltaQueue::get_deltas). A value is the number it was produced with.  *)
(***************************************************************************)
EXTENDS Naturals, Sequences, Functions

CONSTANT Channels

VARIABLES
    produced,  \* the number of the last value produced
    pending,   \* of each channel: the values neither lost nor received
    received   \* of each channel: the values received, in order of arrival

vars == <<produced, pending, received>>

Init ==
    /\ produced = 0
    /\ pending = [c \in Channels |-> {}]
    /\ received = [c \in Channels |-> <<>>]

\* Any of the values p are lost, the others pend.
Lost(p) ==
    /\ pending' \in [Channels -> SUBSET Nat]
    /\ \A c \in Channels : pending'[c] \subseteq p[c]

Produce(c, v) ==
    /\ v \in Nat /\ v > produced
    /\ produced' = v
    /\ Lost([pending EXCEPT ![c] = @ \cup {v}])
    /\ UNCHANGED received

Lose ==
    /\ Lost(pending)
    /\ UNCHANGED <<produced, received>>

Increasing(d) == \A i, j \in DOMAIN d : i < j => d[i] < d[j]

\* What is older than a value delivered will not arrive any more.
Deliver(c, d) ==
    /\ Range(d) \subseteq pending[c] /\ Increasing(d)
    /\ received' = [received EXCEPT ![c] = @ \o d]
    /\ Lost(pending)
    /\ \A v \in Range(d), w \in pending'[c] : v < w
    /\ UNCHANGED produced

Next ==
    \/ \E c \in Channels : Produce(c, produced')
    \/ Lose
    \/ \E c \in Channels :
          LET arrived == SubSeq(received'[c], Len(received[c]) + 1, Len(received'[c]))
          IN  Deliver(c, arrived)

Spec == Init /\ [][Next]_vars

\* What follows: nothing arrives twice or after a later value.
InOrder == \A c \in Channels : Increasing(received[c])
=============================================================================
