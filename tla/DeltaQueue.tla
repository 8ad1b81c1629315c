----------------------------- MODULE DeltaQueue -----------------------------
(***************************************************************************)
(* The values a device sends: SKDeltaQueue                                 *)
(* (src/sensesp/signalk/signalk_delta_queue.{h,cpp}) and the part of       *)
(* SKWSClient that empties it, send_delta.                                 *)
(*                                                                         *)
(* Any task appends a value under the semaphore of the queue. The event    *)
(* loop drains the queue into a batch of deltas, one per context, and sends*)
(* them without blocking. The first delta after a connection is made also  *)
(* carries the metadata of every path; meta_sent_ remembers that it did.   *)
(* The flag is tested and set by the event loop, and reset by the transport*)
(* task when a connection is made. The connection itself is abstract here: *)
(* a link that comes up and goes down (WsClient models it).                *)
(***************************************************************************)
EXTENDS Integers, Sequences, Functions

CONSTANTS
    Contexts,    \* Signal K contexts values are reported for
    Self,        \* the vessel's own: the values without a context key
    MaxBuffer,   \* max_buffer_size (20)
    WsBuffer,    \* SENSESP_SK_WS_BUFFER_SIZE
    MetaSize,    \* what the metadata add to the length of a delta
    ValueSize,   \* what a value adds to the length of a delta
    MaxProduced, \* bound on the values produced
    MaxLinks     \* bound on the connections made

ASSUME ContextsAssumption == Self \in Contexts
ASSUME SizesAssumption ==
    /\ MaxBuffer \in Nat \ {0}
    /\ WsBuffer \in Nat /\ MetaSize \in Nat /\ ValueSize \in Nat
ASSUME BoundsAssumption == MaxProduced \in Nat /\ MaxLinks \in Nat

VARIABLES
    buffer,    \* the values waiting, oldest first (the code keeps the mirror)
    metaSent,  \* meta_sent_
    sending,   \* the event loop in send_delta: its place and locals
    connected, \* the connection state is Connected
    link,      \* the websocket is open
    connecting, \* the place of the transport task in on_connected
    produced,  \* history: how many values were produced
    links,     \* history: how many connections were made
    server,    \* history: of each context, the values the server received
    meta,      \* history: the metadata on the present connection
    arms,      \* history: how often meta_sent_ was reset, or false at boot
    drops      \* history: how many deltas with metadata were dropped as too long

deltaVars == <<buffer, metaSent, sending, connected, link, connecting,
          produced, links, server, meta, arms, drops>>

Numbers == 1..MaxProduced
Values == [id : Numbers, ctx : Contexts]
Batches ==
    [pc : {"idle", "drain", "group", "build", "send"}, items : Seq(Values),
     deltas : [Contexts -> Seq(Numbers)],
     meta : BOOLEAN, todo : SUBSET Contexts, first : BOOLEAN]
NoDeltas == [c \in Contexts |-> <<>>]
NoBatch == [pc |-> "idle", items |-> <<>>, deltas |-> NoDeltas,
         meta |-> FALSE, todo |-> {}, first |-> FALSE]

DeltaInit ==
    /\ buffer = <<>> /\ metaSent = FALSE /\ sending = NoBatch
    /\ connected = FALSE /\ link = FALSE /\ connecting = "idle"
    /\ produced = 0 /\ links = 0 /\ server = NoDeltas
    /\ meta = "none" /\ arms = 1 /\ drops = 0

-----------------------------------------------------------------------------
(* Producers. *)

\* Variants: the limit is off by one; a full queue loses its newest value.
VariantPush(v) == Append(IF Len(buffer) > MaxBuffer THEN Tail(buffer) ELSE buffer, v)
VariantPushNewest(v) ==
    Append(IF Len(buffer) >= MaxBuffer THEN SubSeq(buffer, 1, Len(buffer) - 1)
                                       ELSE buffer, v)

Push(v) == Append(IF Len(buffer) >= MaxBuffer THEN Tail(buffer) ELSE buffer, v)

AppendValue(c) ==
    /\ produced < MaxProduced
    /\ produced' = produced + 1
    /\ buffer' = Push([id |-> produced + 1, ctx |-> c])
    /\ UNCHANGED <<metaSent, sending, connected, link, connecting, links, server, meta,
                   arms, drops>>

-----------------------------------------------------------------------------
(* The event loop: send_delta and get_deltas. *)

historyVars == <<produced, links, server, meta, arms, drops>>

\* The client closed without an event.
SendNotices ==
    /\ sending.pc = "idle" /\ connected /\ ~link
    /\ connected' = FALSE
    /\ UNCHANGED <<buffer, metaSent, sending, link, connecting, historyVars>>

SendBegins ==
    /\ sending.pc = "idle" /\ connected /\ link
    /\ buffer # <<>>
    /\ sending' = [sending EXCEPT !.pc = "drain"]
    /\ UNCHANGED <<buffer, metaSent, connected, link, connecting, historyVars>>

\* Variant: the values are copied, not taken.
VariantDrain ==
    /\ sending.pc = "drain"
    /\ sending' = [sending EXCEPT !.pc = "group", !.items = buffer]
    /\ UNCHANGED <<buffer, metaSent, connected, link, connecting, historyVars>>

Drain ==
    /\ sending.pc = "drain"
    /\ sending' = [sending EXCEPT !.pc = "group", !.items = buffer]
    /\ buffer' = <<>>
    /\ UNCHANGED <<metaSent, connected, link, connecting, historyVars>>

\* The oldest item goes to the delta of its context, without its context key.
\* A batch without such a key has one delta and the same order. (An item that
\* cannot be parsed for want of memory is dropped by the code, as an item of an
\* oversize delta is here; no item the device made is malformed.)
Group ==
    /\ sending.pc = "group" /\ sending.items # <<>>
    /\ LET v == Head(sending.items) IN
       sending' = [sending EXCEPT !.items = Tail(@), !.deltas[v.ctx] = Append(@, v.id)]
    /\ UNCHANGED <<buffer, metaSent, connected, link, connecting, historyVars>>

\* meta_sent_ is read and, by add_metadata, set, without the semaphore.
TestMeta ==
    /\ sending.pc = "group" /\ sending.items = <<>>
    /\ sending' = [sending EXCEPT !.pc = "build", !.meta = ~metaSent]
    /\ UNCHANGED <<buffer, metaSent, connected, link, connecting, historyVars>>

\* One delta per context that has a value, and the vessel's own if there are
\* metadata to carry.
DeltaContexts(deltas, withMeta) ==
    {c \in Contexts : deltas[c] # <<>> \/ (c = Self /\ withMeta)}

Build ==
    /\ sending.pc = "build"
    /\ metaSent' = (metaSent \/ sending.meta)
    /\ sending' = [sending EXCEPT !.pc = "send", !.first = TRUE,
                        !.todo = DeltaContexts(sending.deltas, sending.meta)]
    /\ UNCHANGED <<buffer, connected, link, connecting, historyVars>>

CarriesMeta(c) == c = Self /\ sending.meta

Length(c) ==
    (IF CarriesMeta(c) THEN MetaSize ELSE 0) + ValueSize * Len(sending.deltas[c])

Oversize(c) == Length(c) > WsBuffer

\* The vessel's own delta comes first.
IsNext(c) ==
    sending.pc = "send" /\ c \in sending.todo /\ (Self \in sending.todo => c = Self)

\* The rest of the batch once the delta of c is dealt with.
After(c) ==
    IF sending.todo = {c} THEN NoBatch
    ELSE [sending EXCEPT !.deltas[c] = <<>>, !.todo = @ \ {c}, !.first = FALSE]

\* Variant: a dropped first delta arms the metadata as a failed one does.
VariantAfterOversize == metaSent /\ ~sending.first

\* What an oversize delta does to meta_sent_: it is left as it is.
AfterOversize == metaSent

DropOversize(c) ==
    /\ IsNext(c) /\ Oversize(c)
    /\ metaSent' = AfterOversize
    /\ drops' = IF CarriesMeta(c) THEN drops + 1 ELSE drops
    /\ meta' = IF CarriesMeta(c) THEN "dropped" ELSE meta
    /\ sending' = After(c)
    /\ UNCHANGED <<buffer, connected, link, connecting, produced, links, server,
                   arms>>

SendOk(c) ==
    /\ IsNext(c) /\ ~Oversize(c) /\ link
    /\ server' = [server EXCEPT ![c] = @ \o sending.deltas[c]]
    /\ meta' = IF CarriesMeta(c) THEN "sent" ELSE meta
    /\ sending' = After(c)
    /\ UNCHANGED <<buffer, metaSent, connected, link, connecting, produced, links,
                   arms, drops>>

\* Variant: a failed send never arms the metadata.
VariantRearms == FALSE

\* Whether a failed send arms the metadata again.
Rearms == sending.first

\* The client is busy or aborts the connection; the rest of the batch is lost.
SendFails(c, aborts) ==
    /\ IsNext(c) /\ ~Oversize(c)
    /\ metaSent' = (metaSent /\ ~Rearms)
    /\ arms' = IF Rearms THEN arms + 1 ELSE arms
    /\ link' = (link /\ ~aborts)
    /\ sending' = NoBatch
    /\ UNCHANGED <<buffer, connected, connecting, produced, links, server, meta, drops>>

SendDelta ==
    \/ SendNotices
    \/ SendBegins
    \/ Drain
    \/ Group
    \/ TestMeta
    \/ Build
    \/ \E c \in Contexts :
        \/ DropOversize(c)
        \/ SendOk(c)
        \/ \E aborts \in BOOLEAN : SendFails(c, aborts)

-----------------------------------------------------------------------------
(* The transport task. *)

LinkUp ==
    /\ connecting = "idle" /\ ~link
    /\ links < MaxLinks
    /\ links' = links + 1
    /\ link' = TRUE
    /\ connecting' = "connected"
    /\ meta' = "owed"
    /\ UNCHANGED <<buffer, metaSent, sending, connected, produced, server, arms, drops>>

LinkDown ==
    /\ connecting = "idle" /\ link
    /\ link' = FALSE
    /\ UNCHANGED <<buffer, metaSent, sending, connected, connecting, historyVars>>

OnDisconnected ==
    /\ connecting = "idle" /\ ~link /\ connected
    /\ connected' = FALSE
    /\ UNCHANGED <<buffer, metaSent, sending, link, connecting, historyVars>>

OnConnectedState ==
    /\ connecting = "connected"
    /\ connected' = TRUE
    /\ connecting' = "reset"
    /\ UNCHANGED <<buffer, metaSent, sending, link, historyVars>>

ResetMetaSend ==
    /\ metaSent' = FALSE
    /\ arms' = arms + 1

OnConnectedReset ==
    /\ connecting = "reset"
    /\ ResetMetaSend
    /\ connecting' = "idle"
    /\ UNCHANGED <<buffer, sending, connected, link, produced, links, server, meta, drops>>

Connection ==
    \/ LinkUp
    \/ LinkDown
    \/ OnDisconnected
    \/ OnConnectedState
    \/ OnConnectedReset

DeltaNext ==
    \/ \E c \in Contexts : AppendValue(c)
    \/ SendDelta
    \/ Connection

DeltaSpec == DeltaInit /\ [][DeltaNext]_deltaVars

-----------------------------------------------------------------------------
(* Properties. *)

\* Every variable has its type, and the queue its limit (append).
DeltaTypeOK ==
    /\ buffer \in Seq(Values) /\ Len(buffer) <= MaxBuffer
    /\ sending \in Batches
    /\ metaSent \in BOOLEAN /\ connected \in BOOLEAN /\ link \in BOOLEAN
    /\ connecting \in {"idle", "connected", "reset"}
    /\ produced \in 0..MaxProduced /\ links \in 0..MaxLinks
    /\ meta \in {"none", "owed", "sent", "dropped"}
    /\ arms \in Nat /\ drops \in Nat
    /\ server \in [Contexts -> Seq(Numbers)]

\* The batch at hand will send the metadata, or notice that it could not.
InFlight ==
    \/ sending.pc = "build" /\ sending.meta
    \/ sending.pc = "send" /\ sending.first /\ sending.meta /\ Self \in sending.todo

\* Metadata the present connection has not had are still to be sent: meta_sent_
\* is clear, or the first delta of the batch at hand carries them, whatever
\* connection was lost or made while get_deltas tested and set the flag without
\* the semaphore ("otherwise the server runs without it until the next
\* reconnect", send_delta). Only a delta too long to send ends this.
MetadataOwed ==
    link /\ connecting = "idle" /\ meta = "owed" => ~metaSent \/ InFlight

\* Metadata that make a delta too long cost the device one batch each time they
\* are armed, not every batch ("dropped and re-armed forever, never delivered",
\* send_delta).
OversizeBounded == drops <= arms

\* The last values of the first n produced, in order.
Latest(values, n) ==
    \A i \in DOMAIN values : values[i].id = n - Len(values) + i

\* The values waiting are the latest ones, none missing: a full queue loses its
\* oldest value (append).
FreshestKept == Latest(buffer, produced)

\* The values of context c that are neither lost nor received: in the queue,
\* drained, or in a delta that has not been dealt with.
Waiting(c) ==
    {v.id : v \in {w \in Range(buffer) \cup Range(sending.items) : w.ctx = c}}
    \cup Range(sending.deltas[c])

Channel ==
    INSTANCE LossyChannel WITH
        Channels <- Contexts,
        pending <- [c \in Contexts |-> Waiting(c)],
        received <- server

\* The values of each context arrive at most once and in the order they were
\* produced, whatever is dropped, sent again or reconnected: append, get_deltas
\* and send_delta implement a LossyChannel for each context.
InOrderOnce == Channel!Spec

=============================================================================
