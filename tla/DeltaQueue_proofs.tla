------------------------- MODULE DeltaQueue_proofs -------------------------
(***************************************************************************)
(* Theorems of DeltaQueue, for every size of the queue, of a delta and of  *)
(* the metadata: the queue keeps the latest values, the metadata of a      *)
(* connection are never lost, and metadata that make a delta too long are  *)
(* tried only once each time they are armed. The last two follow from      *)
(* where the one batch of metadata is: to be made, at hand, sent, dropped. *)
(* The values reach the server as a LossyChannel says, which follows from  *)
(* the order of the values at each stage of their way.                     *)
(***************************************************************************)
EXTENDS DeltaQueue, SequenceTheorems, TLAPS

\* The metadata are not yet marked as sent; a batch about to mark them is
\* counted by AtHand.
Unmarked == IF ~metaSent /\ ~(sending.pc = "build" /\ sending.meta) THEN 1 ELSE 0

\* A batch carries the metadata and has not dealt with them.
AtHand == IF InFlight THEN 1 ELSE 0

\* Each arming of the metadata pays for one delta that carries them.
Paid == drops + Unmarked + AtHand <= arms

\* The delta with the metadata is the first of its batch.
FirstCarries == sending.pc = "send" /\ sending.meta /\ Self \in sending.todo => sending.first

-----------------------------------------------------------------------------
\* A delta that is not carried away leaves a batch of the same type.
LEMMA IdleType == NoDeltas \in [Contexts -> Seq(Numbers)] /\ NoBatch \in Batches
<1>1. <<>> \in Seq(Numbers) /\ <<>> \in Seq(Values)
  BY EmptySeq
<1> QED BY <1>1 DEF NoDeltas, NoBatch, Batches

LEMMA AfterType ==
    ASSUME sending \in Batches, NEW c \in Contexts
    PROVE  After(c) \in Batches
<1>1. CASE sending.todo = {c}
  BY <1>1, IdleType DEF After
<1>2. CASE sending.todo # {c}
  <2>1. [sending.deltas EXCEPT ![c] = <<>>] \in [Contexts -> Seq(Numbers)]
    BY EmptySeq DEF Batches
  <2>2. After(c) = [pc |-> sending.pc, items |-> sending.items,
                    deltas |-> [sending.deltas EXCEPT ![c] = <<>>], meta |-> sending.meta,
                    todo |-> sending.todo \ {c}, first |-> FALSE]
    BY <1>2 DEF After, Batches
  <2> QED BY <2>1, <2>2 DEF Batches
<1> QED BY <1>1, <1>2

\* The values pushed are typed and within the limit, and the latest ones.
LEMMA PushType ==
    ASSUME DeltaTypeOK, NEW v \in Values
    PROVE  Push(v) \in Seq(Values) /\ Len(Push(v)) <= MaxBuffer
BY SizesAssumption DEF DeltaTypeOK, Push

LEMMA PushLatest ==
    ASSUME DeltaTypeOK, FreshestKept, NEW v, v.id = produced + 1
    PROVE  Latest(Push(v), produced + 1)
<1> DEFINE rest == IF Len(buffer) >= MaxBuffer THEN Tail(buffer) ELSE buffer
<1>1. rest \in Seq(Values)
  BY SizesAssumption DEF DeltaTypeOK
<1>2. \A i \in 1..Len(rest) : rest[i].id = produced - Len(rest) + i
  <2>1. CASE Len(buffer) >= MaxBuffer
    <3>1. buffer \in Seq(Values) /\ buffer # <<>>
      BY <2>1, SizesAssumption DEF DeltaTypeOK
    <3>2. /\ Len(Tail(buffer)) = Len(buffer) - 1
          /\ \A i \in 1..Len(Tail(buffer)) : Tail(buffer)[i] = buffer[i + 1]
      BY <3>1, HeadTailProperties
    <3>3. rest = Tail(buffer)
      BY <2>1
    <3> HIDE DEF rest
    <3>4. Len(buffer) \in Nat /\ DOMAIN buffer = 1..Len(buffer)
      BY <3>1
    <3>5. SUFFICES ASSUME NEW i \in 1..Len(rest)
                   PROVE  rest[i].id = produced - Len(rest) + i
      OBVIOUS
    <3>6. i + 1 \in DOMAIN buffer /\ rest[i] = buffer[i + 1]
      BY <3>2, <3>3, <3>4
    <3>7. rest[i].id = produced - Len(buffer) + (i + 1)
      BY <3>6 DEF FreshestKept, Latest
    <3>8. produced \in Int /\ i \in Int
      BY DEF DeltaTypeOK
    <3>9. Len(rest) = Len(buffer) - 1
      BY <3>2, <3>3
    <3>10. produced - Len(buffer) + (i + 1) = produced - (Len(buffer) - 1) + i
      BY <3>4, <3>8
    <3> QED BY <3>7, <3>9, <3>10
  <2>2. CASE ~(Len(buffer) >= MaxBuffer)
    BY <2>2 DEF DeltaTypeOK, FreshestKept, Latest
  <2> QED BY <2>1, <2>2
<1>3. Push(v) = Append(rest, v)
  BY DEF Push
<1> HIDE DEF rest
<1>4. Len(Push(v)) = Len(rest) + 1 /\ DOMAIN Push(v) = 1..(Len(rest) + 1)
  BY <1>1, <1>3
<1>5. Push(v)[Len(rest) + 1] = v /\ \A i \in 1..Len(rest) : Push(v)[i] = rest[i]
  BY <1>1, <1>3
<1>6. Len(rest) \in Nat /\ produced \in Nat
  BY <1>1 DEF DeltaTypeOK
<1> QED BY <1>2, <1>4, <1>5, <1>6 DEF Latest

-----------------------------------------------------------------------------
(* Type correctness. *)

LEMMA TypeStep ==
    ASSUME DeltaTypeOK, [DeltaNext]_deltaVars
    PROVE  DeltaTypeOK'
<1>1. ASSUME NEW c \in Contexts, AppendValue(c) PROVE DeltaTypeOK'
  <2>1. [id |-> produced + 1, ctx |-> c] \in Values
    BY <1>1, BoundsAssumption DEF AppendValue, Numbers, Values, DeltaTypeOK
  <2>2. produced' \in 0..MaxProduced
    BY <1>1, BoundsAssumption DEF AppendValue, DeltaTypeOK
  <2>3. buffer' \in Seq(Values) /\ Len(buffer') <= MaxBuffer
    BY <1>1, <2>1, PushType DEF AppendValue
  <2> QED BY <1>1, <2>2, <2>3 DEF AppendValue, DeltaTypeOK
<1>2. ASSUME SendNotices \/ SendBegins \/ Drain \/ TestMeta PROVE DeltaTypeOK'
  <2>1. CASE SendNotices
    BY <2>1 DEF SendNotices, DeltaTypeOK, historyVars
  <2>2. CASE SendBegins
    <3>1. sending' \in Batches
      BY <2>2 DEF SendBegins, DeltaTypeOK, Batches
    <3> QED BY <2>2, <3>1 DEF SendBegins, DeltaTypeOK, historyVars
  <2>3. CASE Drain
    <3>1. sending' \in Batches
      BY <2>3 DEF Drain, DeltaTypeOK, Batches
    <3>2. buffer' \in Seq(Values) /\ Len(buffer') <= MaxBuffer
      BY <2>3, SizesAssumption DEF Drain
    <3> QED BY <2>3, <3>1, <3>2 DEF Drain, DeltaTypeOK, historyVars
  <2>4. CASE TestMeta
    <3>1. sending' \in Batches
      BY <2>4 DEF TestMeta, DeltaTypeOK, Batches
    <3> QED BY <2>4, <3>1 DEF TestMeta, DeltaTypeOK, historyVars
  <2> QED BY <1>2, <2>1, <2>2, <2>3, <2>4
<1>3. CASE Build
  <2>1. DeltaContexts(sending.deltas, sending.meta) \in SUBSET Contexts
    BY DEF DeltaContexts
  <2>2. sending' \in Batches
    BY <1>3, <2>1 DEF Build, DeltaTypeOK, Batches
  <2> QED BY <1>3, <2>2 DEF Build, DeltaTypeOK, historyVars
<1>3a. CASE Group
  <2> DEFINE v == Head(sending.items)
  <2>1. sending.items \in Seq(Values) /\ sending.items # <<>>
    BY <1>3a DEF Group, DeltaTypeOK, Batches
  <2>2. v \in Values /\ Tail(sending.items) \in Seq(Values)
    BY <2>1
  <2>3. v.id \in Numbers /\ v.ctx \in Contexts
    BY <2>2 DEF Values
  <2>4. sending' = [sending EXCEPT !.items = Tail(@), !.deltas[v.ctx] = Append(@, v.id)]
    BY <1>3a DEF Group
  <2> HIDE DEF v
  <2>5. Append(sending.deltas[v.ctx], v.id) \in Seq(Numbers)
    BY <2>3 DEF DeltaTypeOK, Batches
  <2>6. [sending.deltas EXCEPT ![v.ctx] = Append(@, v.id)] \in [Contexts -> Seq(Numbers)]
    BY <2>5 DEF DeltaTypeOK, Batches
  <2>7. sending' \in Batches
    BY <2>2, <2>4, <2>6 DEF DeltaTypeOK, Batches
  <2> QED BY <1>3a, <2>7 DEF Group, DeltaTypeOK, historyVars
<1>4. ASSUME NEW c \in Contexts, DropOversize(c) PROVE DeltaTypeOK'
  BY <1>4, AfterType DEF DropOversize, AfterOversize, DeltaTypeOK
<1>5. ASSUME NEW c \in Contexts, SendOk(c) PROVE DeltaTypeOK'
  <2>1. server[c] \o sending.deltas[c] \in Seq(Numbers)
    BY DEF DeltaTypeOK, Batches
  <2>2. server' \in [Contexts -> Seq(Numbers)]
    BY <1>5, <2>1 DEF SendOk, DeltaTypeOK
  <2> QED BY <1>5, <2>2, AfterType DEF SendOk, DeltaTypeOK
<1>6. ASSUME NEW c \in Contexts, NEW aborts \in BOOLEAN, SendFails(c, aborts)
      PROVE  DeltaTypeOK'
  BY <1>6, IdleType DEF SendFails, DeltaTypeOK
<1>7. CASE Connection
  <2>1. CASE LinkUp
    <3>1. links' \in 0..MaxLinks
      BY <2>1, BoundsAssumption DEF LinkUp, DeltaTypeOK
    <3> QED BY <2>1, <3>1 DEF LinkUp, DeltaTypeOK
  <2>2. CASE LinkDown \/ OnDisconnected \/ OnConnectedState
    BY <2>2 DEF LinkDown, OnDisconnected, OnConnectedState, DeltaTypeOK, historyVars
  <2>3. CASE OnConnectedReset
    <3>1. arms' \in Nat
      BY <2>3 DEF OnConnectedReset, ResetMetaSend, DeltaTypeOK
    <3> QED BY <2>3, <3>1 DEF OnConnectedReset, ResetMetaSend, DeltaTypeOK
  <2> QED BY <1>7, <2>1, <2>2, <2>3 DEF Connection
<1>8. CASE UNCHANGED deltaVars
  BY <1>8 DEF deltaVars, DeltaTypeOK
<1> QED BY <1>1, <1>2, <1>3, <1>3a, <1>4, <1>5, <1>6, <1>7, <1>8 DEF DeltaNext, SendDelta

-----------------------------------------------------------------------------
(* The values waiting. *)

LEMMA FreshestStep ==
    ASSUME DeltaTypeOK, FreshestKept, [DeltaNext]_deltaVars
    PROVE  FreshestKept'
<1>1. ASSUME NEW c \in Contexts, AppendValue(c) PROVE FreshestKept'
  <2> DEFINE v == [id |-> produced + 1, ctx |-> c]
  <2>1. v.id = produced + 1
    OBVIOUS
  <2>2. buffer' = Push(v) /\ produced' = produced + 1
    BY <1>1 DEF AppendValue
  <2> HIDE DEF v
  <2>3. Latest(Push(v), produced + 1)
    BY <2>1, PushLatest
  <2> QED BY <2>2, <2>3 DEF FreshestKept
<1>2. CASE Drain
  BY <1>2 DEF Drain, FreshestKept, Latest
<1>3. CASE UNCHANGED <<buffer, produced>>
  BY <1>3 DEF FreshestKept
<1> QED BY <1>1, <1>2, <1>3
        DEF DeltaNext, SendDelta, Connection, SendNotices, SendBegins, Group, TestMeta, Build,
            DropOversize, SendOk, SendFails, LinkUp, LinkDown, OnDisconnected,
            OnConnectedState, OnConnectedReset, historyVars, deltaVars
-----------------------------------------------------------------------------
(* The metadata. One lemma per task: a step keeps all three parts at once,  *)
(* because where the batch of metadata goes is what all of them count.      *)

Metadata == FirstCarries /\ Paid /\ MetadataOwed

LEMMA BuildSteps ==
    ASSUME DeltaTypeOK, Metadata,
           SendNotices \/ SendBegins \/ Drain \/ Group \/ TestMeta \/ Build
    PROVE  Metadata'
<1>1. CASE SendNotices
  BY <1>1 DEF SendNotices, historyVars, DeltaTypeOK, Metadata, FirstCarries, Paid, Unmarked,
              AtHand, MetadataOwed, InFlight
<1>2. CASE SendBegins \/ Drain \/ Group
  <2>1. sending'.pc \in {"drain", "group"} /\ sending.pc \in {"idle", "drain", "group"}
    BY <1>2 DEF SendBegins, Drain, Group, DeltaTypeOK, Batches
  <2> QED BY <1>2, <2>1 DEF SendBegins, Drain, Group, historyVars, DeltaTypeOK, Metadata,
             FirstCarries, Paid, Unmarked, AtHand, MetadataOwed, InFlight
<1>3. CASE TestMeta
  <2>1. sending.pc = "group" /\ sending'.pc = "build"
    BY <1>3 DEF TestMeta, DeltaTypeOK, Batches
  <2>2. (metaSent => ~sending'.meta) /\ (~metaSent => sending'.meta)
    <3> DEFINE begun == [sending EXCEPT !.pc = "build"]
    <3>1. begun \in Batches
      BY DEF DeltaTypeOK, Batches
    <3>2. sending' = [begun EXCEPT !.meta = ~metaSent]
      BY <1>3 DEF TestMeta
    <3> HIDE DEF begun
    <3>3. CASE metaSent
      <4>1. (~metaSent) = FALSE
        BY <3>3
      <4>2. sending' = [begun EXCEPT !.meta = FALSE]
        BY <3>2, <4>1, Zenon
      <4>3. ~sending'.meta
        BY <3>1, <4>2 DEF Batches
      <4> QED BY <3>3, <4>3
    <3>4. CASE ~metaSent
      <4>1. (~metaSent) = TRUE
        BY <3>4
      <4>2. sending' = [begun EXCEPT !.meta = TRUE]
        BY <3>2, <4>1, Zenon
      <4>3. sending'.meta
        BY <3>1, <4>2 DEF Batches
      <4> QED BY <3>4, <4>3
    <3> QED BY <3>3, <3>4
  <2>3. Unmarked' + AtHand' = Unmarked + AtHand
    <3>1. metaSent' = metaSent
      BY <1>3 DEF TestMeta
    <3>2. CASE metaSent
      <4>1. Unmarked = 0 /\ Unmarked' = 0 /\ AtHand = 0 /\ AtHand' = 0
        BY <2>1, <2>2, <3>1, <3>2 DEF Unmarked, AtHand, InFlight
      <4> QED BY <4>1
    <3>3. CASE ~metaSent
      <4>1. Unmarked = 1 /\ Unmarked' = 0 /\ AtHand = 0 /\ AtHand' = 1
        BY <2>1, <2>2, <3>1, <3>3 DEF Unmarked, AtHand, InFlight
      <4> QED BY <4>1
    <3> QED BY <3>2, <3>3
  <2>4. Paid'
    <3>1. {Unmarked, AtHand, Unmarked', AtHand'} \subseteq Nat
      BY DEF Unmarked, AtHand
    <3> HIDE DEF Unmarked, AtHand
    <3> QED BY <1>3, <2>3, <3>1 DEF TestMeta, historyVars, DeltaTypeOK, Metadata, Paid
  <2>5. FirstCarries' /\ MetadataOwed'
    BY <1>3, <2>1, <2>2 DEF TestMeta, historyVars, Metadata, FirstCarries,
       MetadataOwed, InFlight
  <2> QED BY <2>4, <2>5 DEF Metadata
<1>4. CASE Build
  <2>1. /\ sending.pc = "build" /\ sending'.pc = "send" /\ sending'.first
        /\ sending'.meta = sending.meta /\ (sending.meta => Self \in sending'.todo)
    BY <1>4, ContextsAssumption DEF Build, DeltaContexts, DeltaTypeOK, Batches
  <2> QED BY <1>4, <2>1 DEF Build, historyVars, DeltaTypeOK, Metadata,
             FirstCarries, Paid, Unmarked, AtHand, MetadataOwed, InFlight
<1> QED BY <1>1, <1>2, <1>3, <1>4

\* Once the delta of c is dealt with nothing of the metadata is at hand.
LEMMA AfterDone ==
    ASSUME DeltaTypeOK, NEW c \in Contexts, IsNext(c)
    PROVE  /\ After(c).pc \in {"idle", "send"}
           /\ Self \notin After(c).todo
BY ContextsAssumption DEF IsNext, After, NoBatch, DeltaTypeOK, Batches

LEMMA SendSteps ==
    ASSUME DeltaTypeOK, Metadata, NEW c \in Contexts,
           DropOversize(c) \/ SendOk(c) \/ \E aborts \in BOOLEAN : SendFails(c, aborts)
    PROVE  Metadata'
<1>1. CASE DropOversize(c) \/ SendOk(c)
  <2>1. sending'.pc \in {"idle", "send"} /\ Self \notin sending'.todo
    BY <1>1, AfterDone DEF DropOversize, SendOk
  <2>2. sending.pc = "send" /\ c \in sending.todo /\ (Self \in sending.todo => c = Self)
    BY <1>1 DEF DropOversize, SendOk, IsNext
  <2>3. FirstCarries'
    BY <2>1 DEF FirstCarries
  <2>4. Unmarked' = Unmarked /\ AtHand' = 0
    <3>1. metaSent' = metaSent
      BY <1>1 DEF DropOversize, SendOk, AfterOversize
    <3>2. sending'.pc # "build" /\ sending.pc # "build" /\ ~InFlight'
      BY <2>1, <2>2 DEF InFlight
    <3> QED BY <3>1, <3>2 DEF Unmarked, AtHand
  <2>5. AtHand = IF CarriesMeta(c) THEN 1 ELSE 0
    BY <2>2 DEF Metadata, FirstCarries, AtHand, InFlight, CarriesMeta
  <2>6. Paid'
    BY <1>1, <2>4, <2>5
       DEF DropOversize, SendOk, Metadata, Paid, Unmarked, DeltaTypeOK
  <2>7. MetadataOwed'
    <3>1. CASE CarriesMeta(c)
      BY <1>1, <3>1 DEF DropOversize, SendOk, MetadataOwed
    <3>2. CASE ~CarriesMeta(c)
      BY <1>1, <2>2, <3>2 DEF DropOversize, SendOk, AfterOversize, CarriesMeta,
         Metadata, MetadataOwed, InFlight
    <3> QED BY <3>1, <3>2
  <2> QED BY <2>3, <2>6, <2>7 DEF Metadata
<1>2. ASSUME NEW aborts \in BOOLEAN, SendFails(c, aborts) PROVE Metadata'
  <2>1. sending'.pc = "idle" /\ sending.pc = "send"
    BY <1>2 DEF SendFails, NoBatch, IsNext
  <2>2. CASE sending.first
    <3>1. metaSent' = FALSE /\ arms' = arms + 1 /\ drops' = drops /\ meta' = meta
      BY <1>2, <2>2 DEF SendFails, Rearms
    <3> QED BY <2>1, <2>2, <3>1 DEF DeltaTypeOK, Metadata, FirstCarries, Paid,
       Unmarked, AtHand, MetadataOwed, InFlight
  <2>3. CASE ~sending.first
    <3>1. /\ metaSent' = metaSent /\ arms' = arms /\ drops' = drops /\ meta' = meta
          /\ connecting' = connecting /\ (link' => link)
      BY <1>2, <2>3 DEF SendFails, Rearms, DeltaTypeOK
    <3> QED BY <2>1, <2>3, <3>1 DEF DeltaTypeOK, Metadata, FirstCarries, Paid,
       Unmarked, AtHand, MetadataOwed, InFlight
  <2> QED BY <2>2, <2>3
<1> QED BY <1>1, <1>2

LEMMA LinkSteps ==
    ASSUME DeltaTypeOK, Metadata, Connection
    PROVE  Metadata'
<1>1. CASE LinkUp
  BY <1>1 DEF LinkUp, Metadata, FirstCarries, Paid, Unmarked, AtHand, MetadataOwed, InFlight
<1>2. CASE LinkDown
  BY <1>2 DEF LinkDown, historyVars, Metadata, FirstCarries, Paid, Unmarked, AtHand,
              MetadataOwed, InFlight
<1>3. CASE OnDisconnected
  BY <1>3 DEF OnDisconnected, historyVars, Metadata, FirstCarries, Paid, Unmarked, AtHand,
              MetadataOwed, InFlight
<1>4. CASE OnConnectedState
  BY <1>4 DEF OnConnectedState, historyVars, Metadata, FirstCarries, Paid, Unmarked,
              AtHand, MetadataOwed, InFlight
<1>5. CASE OnConnectedReset
  BY <1>5 DEF OnConnectedReset, ResetMetaSend, DeltaTypeOK, Metadata, FirstCarries, Paid,
              Unmarked, AtHand, MetadataOwed, InFlight
<1> QED BY <1>1, <1>2, <1>3, <1>4, <1>5 DEF Connection

LEMMA MetadataStep ==
    ASSUME DeltaTypeOK, Metadata, [DeltaNext]_deltaVars
    PROVE  Metadata'
<1>1. CASE UNCHANGED <<metaSent, sending, link, connecting, meta, arms, drops>>
  BY <1>1 DEF Metadata, FirstCarries, Paid, Unmarked, AtHand, MetadataOwed, InFlight
<1>2. ASSUME NEW c \in Contexts, AppendValue(c) PROVE Metadata'
  BY <1>1, <1>2 DEF AppendValue
<1> QED BY <1>1, <1>2, BuildSteps, SendSteps, LinkSteps DEF DeltaNext, SendDelta, deltaVars

-----------------------------------------------------------------------------
(* The order of the values on their way: those of the deltas at hand are    *)
(* older than those still to be grouped, and these than the ones waiting.   *)

\* The numbers of a sequence of values.
Ids(values) == {v.id : v \in Range(values)}

Before(S, T) == \A m \in S, n \in T : m < n

\* The items are in order, and each delta is.
Sorted ==
    /\ \A i, j \in DOMAIN sending.items : i < j => sending.items[i].id < sending.items[j].id
    /\ \A c \in Contexts : Channel!Increasing(sending.deltas[c])

\* The stages of the way, from the last to the first.
Staged ==
    /\ \A c \in Contexts :
          /\ Before(Range(sending.deltas[c]), Ids(sending.items) \cup Ids(buffer))
          /\ Range(sending.deltas[c]) \subseteq 1..produced
    /\ Before(Ids(sending.items), Ids(buffer))
    /\ Ids(sending.items) \cup Ids(buffer) \subseteq 1..produced

\* There is nothing at hand before the queue is drained.
Fresh == sending.pc \in {"idle", "drain"} => sending.items = <<>> /\ sending.deltas = NoDeltas

OnTheWay == Sorted /\ Staged /\ Fresh

\* What Head, Tail and Append do to the elements of a sequence.
LEMMA HeadTail ==
    ASSUME NEW S, NEW s \in Seq(S), s # <<>>
    PROVE  /\ Head(s) \in Range(s) /\ Range(Tail(s)) \subseteq Range(s)
           /\ Tail(s) \in Seq(S) /\ Len(Tail(s)) = Len(s) - 1 /\ Head(s) = s[1]
           /\ \A i \in DOMAIN Tail(s) : i + 1 \in DOMAIN s /\ Tail(s)[i] = s[i + 1]
<1>1. /\ Tail(s) \in Seq(S) /\ Len(Tail(s)) = Len(s) - 1
      /\ \A i \in 1..Len(Tail(s)) : Tail(s)[i] = s[i + 1]
  BY HeadTailProperties
<1>2. DOMAIN s = 1..Len(s) /\ DOMAIN Tail(s) = 1..Len(Tail(s)) /\ Len(s) \in Nat \ {0}
  BY <1>1, LenProperties, EmptySeq
<1>3. Head(s) = s[1] /\ 1 \in DOMAIN s
  BY <1>2
<1>4. \A i \in DOMAIN Tail(s) : i + 1 \in DOMAIN s /\ Tail(s)[i] = s[i + 1]
  BY <1>1, <1>2
<1> QED BY <1>1, <1>3, <1>4 DEF Range

LEMMA AppendRange ==
    ASSUME NEW S, NEW s \in Seq(S), NEW x \in S
    PROVE  /\ Range(Append(s, x)) = Range(s) \cup {x}
           /\ DOMAIN Append(s, x) = 1..(Len(s) + 1) /\ Append(s, x)[Len(s) + 1] = x
           /\ \A i \in 1..Len(s) : Append(s, x)[i] = s[i]
<1>1. /\ DOMAIN Append(s, x) = 1..(Len(s) + 1) /\ Append(s, x)[Len(s) + 1] = x
      /\ \A i \in 1..Len(s) : Append(s, x)[i] = s[i]
  OBVIOUS
<1>2. DOMAIN s = 1..Len(s) /\ Len(s) \in Nat
  BY LenProperties
<1>3. DOMAIN Append(s, x) = DOMAIN s \cup {Len(s) + 1}
  BY <1>1, <1>2
<1>4. Range(Append(s, x)) = Range(s) \cup {x}
  <2> DEFINE t == Append(s, x)
  <2>1. \A i \in DOMAIN s : t[i] = s[i]
    BY <1>1, <1>2
  <2>2. t[Len(s) + 1] = x /\ DOMAIN t = DOMAIN s \cup {Len(s) + 1}
    BY <1>1, <1>3
  <2> HIDE DEF t
  <2> QED BY <2>1, <2>2 DEF Range
<1> QED BY <1>1, <1>4

\* A full queue loses values and gains only the new one.
LEMMA PushIds ==
    ASSUME DeltaTypeOK, NEW v \in Values
    PROVE  Range(Push(v)) \subseteq Range(buffer) \cup {v}
<1> DEFINE rest == IF Len(buffer) >= MaxBuffer THEN Tail(buffer) ELSE buffer
<1>1. rest \in Seq(Values) /\ Range(rest) \subseteq Range(buffer)
  <2>1. CASE Len(buffer) >= MaxBuffer
    <3>1. buffer \in Seq(Values) /\ buffer # <<>>
      BY <2>1, SizesAssumption DEF DeltaTypeOK
    <3> QED BY <2>1, <3>1, HeadTail
  <2>2. CASE ~(Len(buffer) >= MaxBuffer)
    BY <2>2 DEF DeltaTypeOK
  <2> QED BY <2>1, <2>2
<1>2. Push(v) = Append(rest, v)
  BY DEF Push
<1> HIDE DEF rest
<1> QED BY <1>1, <1>2, AppendRange

\* The numbers of the values waiting are those of the latest ones.
LEMMA WaitingIds ==
    ASSUME DeltaTypeOK, FreshestKept
    PROVE  /\ Ids(buffer) \subseteq 1..produced
           /\ \A i, j \in DOMAIN buffer : i < j => buffer[i].id < buffer[j].id
<1>1. buffer \in Seq(Values) /\ DOMAIN buffer = 1..Len(buffer) /\ Len(buffer) \in Nat
  BY LenProperties DEF DeltaTypeOK
<1>2. \A i \in 1..Len(buffer) :
         buffer[i] \in Values /\ buffer[i].id = produced - Len(buffer) + i
  BY <1>1, ElementOfSeq DEF FreshestKept, Latest
<1>3. \A i \in 1..Len(buffer) : buffer[i].id \in Numbers
  BY <1>2 DEF Values
<1>4. produced \in Nat
  BY DEF DeltaTypeOK
<1>5. \A i \in 1..Len(buffer) : buffer[i].id \in 1..produced
  BY <1>1, <1>2, <1>3, <1>4 DEF Numbers
<1>6. Ids(buffer) \subseteq 1..produced
  BY <1>1, <1>5 DEF Ids, Range
<1>7. \A i, j \in DOMAIN buffer : i < j => buffer[i].id < buffer[j].id
  BY <1>1, <1>2, <1>4
<1> QED BY <1>6, <1>7

LEMMA NothingIn == Range(<<>>) = {} /\ Ids(<<>>) = {} /\ Channel!Increasing(<<>>)
<1>1. Range(<<>>) = {}
  BY DEF Range
<1> QED BY <1>1 DEF Ids, Channel!Increasing

\* A step that only drops items or deltas keeps the order of the others.
LEMMA FewerStep ==
    ASSUME Sorted, Staged, buffer' = buffer, produced' = produced,
           sending'.items \in {sending.items, <<>>},
           \A c \in Contexts : sending'.deltas[c] \in {sending.deltas[c], <<>>}
    PROVE  Sorted' /\ Staged'
<1>1. DOMAIN sending'.items \subseteq DOMAIN sending.items
      /\ \A i \in DOMAIN sending'.items : sending'.items[i] = sending.items[i]
  OBVIOUS
<1>2. Ids(sending'.items) \subseteq Ids(sending.items)
  BY NothingIn
<1>3. \A c \in Contexts : /\ Range(sending'.deltas[c]) \subseteq Range(sending.deltas[c])
                          /\ Channel!Increasing(sending'.deltas[c])
  BY NothingIn DEF Sorted
<1>4. Sorted'
  BY <1>1, <1>3 DEF Sorted
<1>5. Staged'
  BY <1>2, <1>3 DEF Staged, Before
<1> QED BY <1>4, <1>5

\* Where the oldest item goes.
LEMMA Grouped ==
    ASSUME DeltaTypeOK, Group
    PROVE  LET v == Head(sending.items) IN
           /\ v \in Values /\ v \in Range(sending.items) /\ sending.items # <<>>
           /\ sending.items \in Seq(Values) /\ sending'.items = Tail(sending.items)
           /\ sending'.pc = sending.pc /\ sending.pc = "group"
           /\ sending'.deltas[v.ctx] = Append(sending.deltas[v.ctx], v.id)
           /\ \A c \in Contexts \ {v.ctx} : sending'.deltas[c] = sending.deltas[c]
           /\ \A c \in Contexts : sending.deltas[c] \in Seq(Numbers)
<1> DEFINE v == Head(sending.items)
<1>1. sending.items \in Seq(Values) /\ sending.items # <<>> /\ sending.pc = "group"
  BY DEF Group, DeltaTypeOK, Batches
<1>2. v \in Values /\ v \in Range(sending.items)
  BY <1>1, HeadTail
<1>3. v.ctx \in Contexts
  BY <1>2 DEF Values
<1>4. sending' = [sending EXCEPT !.items = Tail(@), !.deltas[v.ctx] = Append(@, v.id)]
  BY DEF Group
<1> HIDE DEF v
<1>5. /\ sending'.items = Tail(sending.items) /\ sending'.pc = sending.pc
      /\ sending'.deltas = [sending.deltas EXCEPT ![v.ctx] = Append(@, v.id)]
      /\ sending.deltas \in [Contexts -> Seq(Numbers)]
  BY <1>4 DEF DeltaTypeOK, Batches
<1>6. /\ sending'.deltas[v.ctx] = Append(sending.deltas[v.ctx], v.id)
      /\ \A c \in Contexts \ {v.ctx} : sending'.deltas[c] = sending.deltas[c]
      /\ \A c \in Contexts : sending.deltas[c] \in Seq(Numbers)
  BY <1>3, <1>5
<1> QED BY <1>1, <1>2, <1>5, <1>6 DEF v

LEMMA GroupStep ==
    ASSUME DeltaTypeOK, OnTheWay, Group
    PROVE  Sorted' /\ Staged'
<1> DEFINE v == Head(sending.items)
<1>1. /\ v \in Values /\ v \in Range(sending.items) /\ sending.items # <<>>
      /\ sending.items \in Seq(Values) /\ sending'.items = Tail(sending.items)
      /\ sending'.deltas[v.ctx] = Append(sending.deltas[v.ctx], v.id)
      /\ \A c \in Contexts \ {v.ctx} : sending'.deltas[c] = sending.deltas[c]
      /\ \A c \in Contexts : sending.deltas[c] \in Seq(Numbers)
  BY Grouped
<1>2. buffer' = buffer /\ produced' = produced
  BY DEF Group, historyVars
<1>3. v.id \in Numbers /\ v.ctx \in Contexts /\ v.id \in Ids(sending.items)
  BY <1>1 DEF Values, Ids
<1>4. /\ \A i \in DOMAIN sending'.items : /\ i + 1 \in DOMAIN sending.items
                                     /\ sending'.items[i] = sending.items[i + 1]
      /\ DOMAIN sending.items = 1..Len(sending.items) /\ DOMAIN sending'.items = 1..Len(sending'.items)
      /\ v = sending.items[1] /\ 1 \in DOMAIN sending.items
      /\ Range(sending'.items) \subseteq Range(sending.items) /\ Len(sending.items) \in Nat \ {0}
      /\ Len(sending'.items) \in Nat
  <2>1. /\ Tail(sending.items) \in Seq(Values) /\ Range(Tail(sending.items)) \subseteq Range(sending.items)
        /\ Head(sending.items) = sending.items[1]
        /\ \A i \in DOMAIN Tail(sending.items) : /\ i + 1 \in DOMAIN sending.items
                                            /\ Tail(sending.items)[i] = sending.items[i + 1]
    BY <1>1, HeadTail
  <2>2. /\ DOMAIN sending.items = 1..Len(sending.items) /\ Len(sending.items) \in Nat \ {0}
        /\ DOMAIN Tail(sending.items) = 1..Len(Tail(sending.items)) /\ Len(Tail(sending.items)) \in Nat
    BY <1>1, <2>1, LenProperties, EmptySeq
  <2>3. v = sending.items[1]
    BY <2>1
  <2>4. sending'.items = Tail(sending.items)
    BY <1>1
  <2>5. 1 \in DOMAIN sending.items
    BY <2>2
  <2> HIDE DEF v
  <2> QED BY <2>1, <2>2, <2>3, <2>4, <2>5, Zenon
<1>5. Ids(sending'.items) \subseteq Ids(sending.items)
  BY <1>4 DEF Ids
<1>6. Before({v.id}, Ids(sending'.items))
  <2>1. \A i \in DOMAIN sending'.items : v.id < sending'.items[i].id
    <3> SUFFICES ASSUME NEW i \in DOMAIN sending'.items PROVE v.id < sending'.items[i].id
      OBVIOUS
    <3>1. i \in Nat /\ 1 < i + 1
      BY <1>4
    <3>2. sending.items[1].id < sending.items[i + 1].id
      BY <1>4, <3>1 DEF OnTheWay, Sorted
    <3> QED BY <1>4, <3>2
  <2> QED BY <2>1 DEF Before, Ids, Range
<1>7. /\ Range(sending'.deltas[v.ctx]) = Range(sending.deltas[v.ctx]) \cup {v.id}
      /\ Channel!Increasing(sending'.deltas[v.ctx])
  <2> DEFINE d == sending.deltas[v.ctx]
             e == sending'.deltas[v.ctx]
  <2>1. d \in Seq(Numbers) /\ e = Append(d, v.id)
    BY <1>1, <1>3
  <2>2. Channel!Increasing(d) /\ \A n \in Range(d) : n < v.id
    BY <1>3 DEF OnTheWay, Sorted, Staged, Before
  <2>3. DOMAIN d = 1..Len(d) /\ Len(d) \in Nat
    BY <2>1, LenProperties
  <2> HIDE DEF d, e
  <2>4. /\ Range(e) = Range(d) \cup {v.id} /\ DOMAIN e = 1..(Len(d) + 1)
        /\ e[Len(d) + 1] = v.id /\ \A i \in 1..Len(d) : e[i] = d[i]
    BY <1>3, <2>1, AppendRange
  <2>5. \A i \in 1..Len(d) : e[i] < v.id
    BY <2>2, <2>3, <2>4 DEF Range
  <2>6. \A i, j \in DOMAIN e : i < j => e[i] < e[j]
    <3> SUFFICES ASSUME NEW i \in DOMAIN e, NEW j \in DOMAIN e, i < j PROVE e[i] < e[j]
      OBVIOUS
    <3>1. CASE j = Len(d) + 1
      BY <2>3, <2>4, <2>5, <3>1
    <3>2. CASE j # Len(d) + 1
      <4>1. i \in 1..Len(d) /\ j \in 1..Len(d)
        BY <2>3, <2>4, <3>2
      <4> QED BY <2>2, <2>3, <2>4, <4>1 DEF Channel!Increasing
    <3> QED BY <3>1, <3>2
  <2>7. Channel!Increasing(e)
    BY <2>6 DEF Channel!Increasing
  <2> QED BY <2>4, <2>7 DEF d, e
<1> HIDE DEF v
<1>8. Sorted'
  <2>1. \A i, j \in DOMAIN sending'.items : i < j => sending'.items[i].id < sending'.items[j].id
    <3> SUFFICES ASSUME NEW i \in DOMAIN sending'.items, NEW j \in DOMAIN sending'.items, i < j
                 PROVE  sending'.items[i].id < sending'.items[j].id
      OBVIOUS
    <3>1. i + 1 < j + 1
      BY <1>4
    <3> QED BY <1>4, <3>1 DEF OnTheWay, Sorted
  <2>2. \A c \in Contexts : Channel!Increasing(sending'.deltas[c])
    BY <1>1, <1>7 DEF OnTheWay, Sorted
  <2> QED BY <2>1, <2>2 DEF Sorted
<1>9. Staged'
  <2>1. \A c \in Contexts : Range(sending'.deltas[c]) \subseteq Range(sending.deltas[c]) \cup {v.id}
    BY <1>1, <1>7
  <2>2. Before({v.id}, Ids(buffer)) /\ v.id \in 1..produced
    BY <1>3 DEF OnTheWay, Staged, Before
  <2>3. \A c \in Contexts :
          /\ Before(Range(sending'.deltas[c]), Ids(sending'.items) \cup Ids(buffer))
          /\ Range(sending'.deltas[c]) \subseteq 1..produced
    BY <1>5, <1>6, <2>1, <2>2 DEF OnTheWay, Staged, Before
  <2>4. Before(Ids(sending'.items), Ids(buffer)) /\ Ids(sending'.items) \subseteq 1..produced
    BY <1>5 DEF OnTheWay, Staged, Before
  <2> QED BY <1>2, <2>3, <2>4 DEF OnTheWay, Staged
<1> QED BY <1>8, <1>9

\* What is left of the batch once the delta of c is dealt with.
LEMMA SendKeeps ==
    ASSUME DeltaTypeOK, NEW c \in Contexts, sending.pc = "send", NEW e \in {NoBatch, After(c)}
    PROVE  /\ e.items \in {sending.items, <<>>}
           /\ \A d \in Contexts : e.deltas[d] \in {sending.deltas[d], <<>>}
           /\ e = NoBatch \/ e.pc = "send"
           /\ e.deltas[c] = <<>>
           /\ NoBatch.items = <<>> /\ NoBatch.deltas = NoDeltas
<1>0. NoBatch.items = <<>> /\ NoBatch.deltas = NoDeltas
  BY DEF NoBatch
<1>1. CASE e = NoBatch
  BY <1>0, <1>1 DEF NoDeltas
<1>2. CASE e # NoBatch
  <2>1. e = [sending EXCEPT !.deltas[c] = <<>>, !.todo = @ \ {c}, !.first = FALSE]
    BY <1>2 DEF After
  <2>2. /\ e.items = sending.items /\ e.pc = sending.pc
        /\ e.deltas = [sending.deltas EXCEPT ![c] = <<>>]
    BY <2>1 DEF DeltaTypeOK, Batches
  <2>3. sending.deltas \in [Contexts -> Seq(Numbers)]
    BY DEF DeltaTypeOK, Batches
  <2> QED BY <1>0, <2>2, <2>3
<1> QED BY <1>1, <1>2

LEMMA OnTheWayStep ==
    ASSUME DeltaTypeOK, FreshestKept, OnTheWay, [DeltaNext]_deltaVars
    PROVE  OnTheWay'
<1>1. ASSUME NEW c \in Contexts, AppendValue(c) PROVE OnTheWay'
  <2> DEFINE v == [id |-> produced + 1, ctx |-> c]
  <2>1. produced < MaxProduced /\ produced' = produced + 1 /\ buffer' = Push(v) /\ sending' = sending
    BY <1>1 DEF AppendValue
  <2>2. v \in Values /\ v.id = produced + 1 /\ produced \in Nat
    BY <2>1, BoundsAssumption DEF Values, Numbers, DeltaTypeOK
  <2>3. Range(buffer') \subseteq Range(buffer) \cup {v}
    BY <2>1, <2>2, PushIds
  <2> HIDE DEF v
  <2>4. Ids(buffer') \subseteq Ids(buffer) \cup {produced + 1}
    BY <2>2, <2>3 DEF Ids
  <2>5. /\ 1..produced \subseteq 1..produced'
        /\ produced + 1 \in 1..produced'
        /\ \A n \in 1..produced : n < produced + 1
    BY <2>1, <2>2
  <2>6. Ids(sending.items) \subseteq 1..produced
        /\ \A d \in Contexts : Range(sending.deltas[d]) \subseteq 1..produced
    BY DEF OnTheWay, Staged
  <2>7. Staged'
    <3>1. Before(Ids(sending.items), Ids(buffer'))
      BY <2>4, <2>5, <2>6 DEF OnTheWay, Staged, Before
    <3>2. \A d \in Contexts : Before(Range(sending.deltas[d]), Ids(sending.items) \cup Ids(buffer'))
      BY <2>4, <2>5, <2>6 DEF OnTheWay, Staged, Before
    <3>3. Ids(sending.items) \cup Ids(buffer') \subseteq 1..produced'
      <4>1. Ids(sending.items) \cup Ids(buffer) \subseteq 1..produced
        BY DEF OnTheWay, Staged
      <4>2. 1..produced \subseteq 1..produced' /\ produced + 1 \in 1..produced'
        BY <2>5
      <4> QED BY <2>4, <4>1, <4>2, Zenon
    <3>4. \A d \in Contexts : Range(sending.deltas[d]) \subseteq 1..produced'
      BY <2>5, <2>6
    <3> QED BY <2>1, <3>1, <3>2, <3>3, <3>4 DEF Staged
  <2>8. Sorted' /\ Fresh'
    BY <2>1 DEF OnTheWay, Sorted, Fresh
  <2> QED BY <2>7, <2>8 DEF OnTheWay
<1>2. CASE Drain
  <2>1. /\ sending.items = <<>> /\ sending.deltas = NoDeltas
        /\ sending'.pc = "group" /\ sending'.items = buffer /\ sending'.deltas = NoDeltas
        /\ buffer' = <<>> /\ produced' = produced
    BY <1>2 DEF Drain, OnTheWay, Fresh, historyVars, DeltaTypeOK, Batches
  <2>2. \A c \in Contexts : sending'.deltas[c] = <<>>
    BY <2>1 DEF NoDeltas
  <2>3. Sorted'
    BY <2>1, <2>2, WaitingIds, NothingIn DEF Sorted
  <2>4. Staged'
    BY <2>1, <2>2, WaitingIds, NothingIn DEF Staged, Before
  <2> QED BY <2>1, <2>3, <2>4 DEF OnTheWay, Fresh
<1>3. CASE Group
  <2>1. Fresh'
    BY <1>3, Grouped DEF Fresh
  <2> QED BY <1>3, <2>1, GroupStep DEF OnTheWay
<1>4. CASE SendBegins \/ TestMeta \/ Build
  <2>1. /\ sending'.items = sending.items /\ sending'.deltas = sending.deltas
        /\ buffer' = buffer /\ produced' = produced
    BY <1>4 DEF SendBegins, TestMeta, Build, historyVars, DeltaTypeOK, Batches
  <2>2. sending'.pc \in {"idle", "drain"} => sending.pc = "idle"
    BY <1>4 DEF SendBegins, TestMeta, Build, DeltaTypeOK, Batches
  <2> QED BY <2>1, <2>2, FewerStep DEF OnTheWay, Fresh
<1>5. ASSUME NEW c \in Contexts,
             DropOversize(c) \/ SendOk(c) \/ \E aborts \in BOOLEAN : SendFails(c, aborts)
      PROVE  OnTheWay'
  <2>1. sending' \in {NoBatch, After(c)} /\ sending.pc = "send"
        /\ buffer' = buffer /\ produced' = produced
    BY <1>5 DEF DropOversize, SendOk, SendFails, IsNext
  <2>2. /\ sending'.items \in {sending.items, <<>>}
        /\ \A d \in Contexts : sending'.deltas[d] \in {sending.deltas[d], <<>>}
    BY <2>1, SendKeeps
  <2>3. Fresh'
    BY <2>1, SendKeeps DEF Fresh
  <2> QED BY <2>1, <2>2, <2>3, FewerStep DEF OnTheWay
<1>6. CASE UNCHANGED <<buffer, sending, produced>>
  BY <1>6 DEF OnTheWay, Sorted, Staged, Fresh
<1> QED BY <1>1, <1>2, <1>3, <1>4, <1>5, <1>6
        DEF DeltaNext, SendDelta, Connection, SendNotices, LinkUp, LinkDown, OnDisconnected,
            OnConnectedState, OnConnectedReset, historyVars, deltaVars

-----------------------------------------------------------------------------
(* Theorems. *)

IInv == DeltaTypeOK /\ FirstCarries /\ Paid /\ MetadataOwed /\ FreshestKept /\ OnTheWay

\* The parts of the invariant hold together: the metadata are conserved by the
\* steps of both tasks, because get_deltas, send_delta and on_connected arm,
\* carry or drop them and never do two of these at once.
THEOREM InvAlways == DeltaSpec => []IInv
<1>1. DeltaInit => IInv
  <2> SUFFICES ASSUME DeltaInit PROVE IInv
    OBVIOUS
  <2>1. <<>> \in Seq(Values) /\ NoBatch \in Batches /\ NoDeltas \in [Contexts -> Seq(Numbers)]
    BY IdleType, EmptySeq
  <2>2. DeltaTypeOK
    <3>1. Len(<<>>) <= MaxBuffer /\ 0 \in 0..MaxProduced /\ 0 \in 0..MaxLinks
      BY SizesAssumption, BoundsAssumption
    <3> QED BY <2>1, <3>1 DEF DeltaInit, DeltaTypeOK
  <2>3. sending.pc = "idle" /\ ~metaSent /\ drops = 0 /\ arms = 1 /\ buffer = <<>> /\ ~link
    BY DEF DeltaInit, NoBatch
  <2>4. OnTheWay
    <3>1. /\ buffer = <<>> /\ sending.items = <<>>
          /\ sending.deltas = NoDeltas /\ \A c \in Contexts : sending.deltas[c] = <<>>
      BY DEF DeltaInit, NoBatch, NoDeltas
    <3> QED BY <3>1, NothingIn DEF OnTheWay, Sorted, Staged, Fresh, Before
  <2> QED BY <2>2, <2>3, <2>4 DEF IInv, FirstCarries, Paid, Unmarked, AtHand,
             MetadataOwed, InFlight, FreshestKept, Latest
<1>2. IInv /\ [DeltaNext]_deltaVars => IInv'
  BY TypeStep, FreshestStep, MetadataStep, OnTheWayStep DEF IInv, Metadata
<1> QED BY <1>1, <1>2, PTL DEF DeltaSpec

\* Every variable keeps its type, and the queue its limit (append).
THEOREM TypeCorrect == DeltaSpec => []DeltaTypeOK
<1>1. IInv => DeltaTypeOK
  BY DEF IInv
<1> QED BY <1>1, InvAlways, PTL

\* Metadata the present connection has not had are still to be sent (send_delta,
\* reset_meta_send).
THEOREM MetadataNotLost == DeltaSpec => []MetadataOwed
<1>1. IInv => MetadataOwed
  BY DEF IInv
<1> QED BY <1>1, InvAlways, PTL

\* Metadata too long to send cost one batch each time they are armed (the
\* oversize branch of send_delta).
THEOREM OversizePaid == DeltaSpec => []OversizeBounded
<1>1. IInv => OversizeBounded
  BY DEF IInv, DeltaTypeOK, Paid, Unmarked, AtHand, OversizeBounded
<1> QED BY <1>1, InvAlways, PTL

\* The values waiting are the latest ones, none missing (append).
THEOREM LatestWait == DeltaSpec => []FreshestKept
<1>1. IInv => FreshestKept
  BY DEF IInv
<1> QED BY <1>1, InvAlways, PTL

-----------------------------------------------------------------------------
(* The refinement: DeltaQueue implements LossyChannel for each context.     *)

LEMMA WaitingNumbers ==
    DeltaTypeOK => [c \in Contexts |-> Waiting(c)] \in [Contexts -> SUBSET Nat]
<1> SUFFICES ASSUME DeltaTypeOK
             PROVE  [c \in Contexts |-> Waiting(c)] \in [Contexts -> SUBSET Nat]
  OBVIOUS
<1>1. \A v \in Range(buffer) \cup Range(sending.items) : v \in Values
  BY ElementOfSeq, LenProperties DEF DeltaTypeOK, Batches, Range
<1>2. \A c \in Contexts : Range(sending.deltas[c]) \subseteq Numbers
  <2>1. \A c \in Contexts : sending.deltas[c] \in Seq(Numbers)
    BY DEF DeltaTypeOK, Batches
  <2> QED BY <2>1, ElementOfSeq, LenProperties DEF Range
<1>3. \A c \in Contexts : Waiting(c) \subseteq Nat
  BY <1>1, <1>2 DEF Waiting, Values, Numbers
<1> QED BY <1>3

LEMMA WaitingNumbersAfter ==
    DeltaTypeOK' => [c \in Contexts |-> Waiting(c)]' \in [Contexts -> SUBSET Nat]
<1> DEFINE Typed == [c \in Contexts |-> Waiting(c)] \in [Contexts -> SUBSET Nat]
<1>1. DeltaTypeOK => Typed
  BY WaitingNumbers
<1> HIDE DEF Typed
<1>2. DeltaTypeOK' => Typed'
  BY <1>1, PTL
<1> QED BY <1>2 DEF Typed

\* Where a value that waits is.
LEMMA WaitingPlaces ==
    ASSUME NEW c \in Contexts
    PROVE  /\ Waiting(c) \subseteq Ids(buffer) \cup Ids(sending.items) \cup Range(sending.deltas[c])
           /\ Range(sending.deltas[c]) \subseteq Waiting(c)
BY DEF Waiting, Ids

\* A step after which nothing new waits and nothing was received.
LEMMA LoseStep ==
    ASSUME DeltaTypeOK', produced' = produced, server' = server,
           \A c \in Contexts : Waiting(c)' \subseteq Waiting(c)
    PROVE  Channel!Lose
<1>1. [c \in Contexts |-> Waiting(c)]' \in [Contexts -> SUBSET Nat]
  BY WaitingNumbersAfter
<1> QED BY <1>1 DEF Channel!Lose, Channel!Lost

LEMMA ChannelInit == DeltaInit => Channel!Init
<1> SUFFICES ASSUME DeltaInit PROVE Channel!Init
  OBVIOUS
<1>1. produced = 0 /\ server = [c \in Contexts |-> <<>>] /\ buffer = <<>> /\ sending.items = <<>>
      /\ \A c \in Contexts : sending.deltas[c] = <<>>
  BY DEF DeltaInit, NoBatch, NoDeltas
<1>2. \A c \in Contexts : Waiting(c) = {}
  BY <1>1, NothingIn DEF Waiting
<1> QED BY <1>1, <1>2 DEF Channel!Init

\* A value is produced: append.
LEMMA ProduceStep ==
    ASSUME DeltaTypeOK, DeltaTypeOK', NEW c \in Contexts, AppendValue(c)
    PROVE  Channel!Produce(c, produced')
<1> DEFINE v == [id |-> produced + 1, ctx |-> c]
<1>1. /\ produced < MaxProduced /\ produced' = produced + 1 /\ buffer' = Push(v)
      /\ sending' = sending /\ server' = server /\ produced \in Nat
  BY DEF AppendValue, DeltaTypeOK
<1>2. v \in Values /\ v.id = produced + 1 /\ v.ctx = c
  BY <1>1, BoundsAssumption DEF Values, Numbers
<1>3. Range(buffer') \subseteq Range(buffer) \cup {v}
  BY <1>1, <1>2, PushIds
<1> HIDE DEF v
<1>4. \A d \in Contexts :
         Waiting(d)' \subseteq IF d = c THEN Waiting(d) \cup {produced + 1} ELSE Waiting(d)
  BY <1>1, <1>2, <1>3 DEF Waiting
<1> DEFINE pending == [d \in Contexts |-> Waiting(d)]
<1>5. \A d \in Contexts : pending'[d] \subseteq [pending EXCEPT ![c] = @ \cup {produced'}][d]
  BY <1>1, <1>4
<1>6. pending' \in [Contexts -> SUBSET Nat]
  BY WaitingNumbersAfter
<1>7. produced' \in Nat /\ produced' > produced
  BY <1>1
<1> QED BY <1>1, <1>5, <1>6, <1>7 DEF Channel!Produce, Channel!Lost

\* A delta is sent: send_delta. What is left is later than what it carries.
LEMMA DeliverStep ==
    ASSUME DeltaTypeOK, DeltaTypeOK', OnTheWay, NEW c \in Contexts, SendOk(c)
    PROVE  Channel!Deliver(c, sending.deltas[c])
<1>1. /\ sending' = After(c) /\ sending.pc = "send" /\ buffer' = buffer /\ produced' = produced
      /\ server' = [server EXCEPT ![c] = @ \o sending.deltas[c]]
  BY DEF SendOk, IsNext
<1>2. /\ sending'.items \in {sending.items, <<>>} /\ sending'.deltas[c] = <<>>
      /\ \A d \in Contexts : sending'.deltas[d] \in {sending.deltas[d], <<>>}
  BY <1>1, SendKeeps
<1>3. Range(sending.deltas[c]) \subseteq Waiting(c) /\ Channel!Increasing(sending.deltas[c])
  BY WaitingPlaces DEF OnTheWay, Sorted
<1>4. /\ Range(sending'.items) \subseteq Range(sending.items) /\ Range(sending'.deltas[c]) = {}
      /\ \A d \in Contexts : Range(sending'.deltas[d]) \subseteq Range(sending.deltas[d])
  BY <1>2, NothingIn
<1>5. \A d \in Contexts : Waiting(d)' \subseteq Waiting(d)
  BY <1>1, <1>4 DEF Waiting
<1>6. Waiting(c)' \subseteq Ids(buffer) \cup Ids(sending.items)
  BY <1>1, <1>4 DEF Waiting, Ids
<1>7. \A v \in Range(sending.deltas[c]), w \in Waiting(c)' : v < w
  BY <1>6 DEF OnTheWay, Staged, Before
<1> DEFINE pending == [d \in Contexts |-> Waiting(d)]
<1>8. pending' \in [Contexts -> SUBSET Nat]
  BY WaitingNumbersAfter
<1>9. \A d \in Contexts : pending'[d] \subseteq pending[d]
  BY <1>5
<1>10. \A v \in Range(sending.deltas[c]), w \in pending'[c] : v < w
  BY <1>7
<1>11. Range(sending.deltas[c]) \subseteq pending[c]
  BY <1>3
<1> HIDE DEF pending
<1> QED BY <1>1, <1>3, <1>8, <1>9, <1>10, <1>11 DEF Channel!Deliver, Channel!Lost, Channel!Range,
       Range, pending

\* What arrived is what was appended.
LEMMA Arrived ==
    ASSUME NEW S, NEW s \in Seq(S), NEW d \in Seq(S)
    PROVE  SubSeq(s \o d, Len(s) + 1, Len(s \o d)) = d
<1>1. Len(s) \in Nat /\ Len(d) \in Nat /\ Len(s \o d) = Len(s) + Len(d)
  BY ConcatProperties, LenProperties
<1>2. SubSeq(s \o d, Len(s) + 1, Len(s \o d)) = SubSeq(d, 1, Len(d))
  <2>1. Len(s) + 1 - Len(s) = 1 /\ Len(s \o d) - Len(s) = Len(d)
    BY <1>1
  <2> QED BY <1>1, <2>1, SubSeqOfConcat2
<1> QED BY <1>2, SubSeqFull

\* Each step of the queue, of the event loop and of the transport task is one of
\* the channels, or none.
LEMMA ChannelStep ==
    ASSUME IInv, IInv', [DeltaNext]_deltaVars
    PROVE  [Channel!Next]_Channel!vars
<1> SUFFICES Channel!Next \/ UNCHANGED Channel!vars
  OBVIOUS
<1>0. DeltaTypeOK /\ DeltaTypeOK' /\ OnTheWay
  BY DEF IInv
<1>1. ASSUME NEW c \in Contexts, AppendValue(c) PROVE Channel!Next
  BY <1>0, <1>1, ProduceStep DEF Channel!Next
<1>2. ASSUME NEW c \in Contexts, SendOk(c) PROVE Channel!Next
  <2>1. Channel!Deliver(c, sending.deltas[c])
    BY <1>0, <1>2, DeliverStep
  <2>2. server[c] \in Seq(Numbers) /\ sending.deltas[c] \in Seq(Numbers)
    BY <1>0 DEF DeltaTypeOK, Batches
  <2>3. server'[c] = server[c] \o sending.deltas[c]
    BY <1>0, <1>2 DEF SendOk, DeltaTypeOK
  <2>4. SubSeq(server'[c], Len(server[c]) + 1, Len(server'[c])) = sending.deltas[c]
    BY <2>2, <2>3, Arrived
  <2> QED BY <2>1, <2>4 DEF Channel!Next
<1>3. CASE Group
  <2> DEFINE v == Head(sending.items)
  <2>1. /\ v \in Range(sending.items) /\ v \in Values /\ sending'.items = Tail(sending.items)
        /\ sending.items \in Seq(Values) /\ sending.items # <<>>
        /\ sending'.deltas[v.ctx] = Append(sending.deltas[v.ctx], v.id)
        /\ \A c \in Contexts \ {v.ctx} : sending'.deltas[c] = sending.deltas[c]
        /\ \A c \in Contexts : sending.deltas[c] \in Seq(Numbers)
    BY <1>0, <1>3, Grouped
  <2>2. Range(sending'.items) \subseteq Range(sending.items)
    BY <2>1, HeadTail
  <2> HIDE DEF v
  <2>3. v.id \in Numbers /\ v.ctx \in Contexts
    BY <2>1 DEF Values
  <2>4. Range(sending'.deltas[v.ctx]) = Range(sending.deltas[v.ctx]) \cup {v.id}
    BY <2>1, <2>3, AppendRange
  <2>5. buffer' = buffer /\ produced' = produced /\ server' = server
    BY <1>3 DEF Group, historyVars
  <2>6. \A c \in Contexts : Waiting(c)' \subseteq Waiting(c)
    BY <2>1, <2>2, <2>4, <2>5 DEF Waiting
  <2> QED BY <1>0, <2>5, <2>6, LoseStep DEF Channel!Next
<1>4. CASE Drain
  <2>1. /\ sending'.items = buffer /\ sending'.deltas = sending.deltas /\ buffer' = <<>>
        /\ produced' = produced /\ server' = server
    BY <1>0, <1>4 DEF Drain, historyVars, DeltaTypeOK, Batches
  <2>2. \A c \in Contexts : Waiting(c)' \subseteq Waiting(c)
    BY <2>1, NothingIn DEF Waiting
  <2> QED BY <1>0, <2>1, <2>2, LoseStep DEF Channel!Next
<1>5. ASSUME NEW c \in Contexts,
             DropOversize(c) \/ \E aborts \in BOOLEAN : SendFails(c, aborts)
      PROVE  Channel!Next
  <2>1. /\ sending' \in {NoBatch, After(c)} /\ sending.pc = "send" /\ buffer' = buffer
        /\ produced' = produced /\ server' = server
    BY <1>5 DEF DropOversize, SendFails, IsNext
  <2>2. /\ Range(sending'.items) \subseteq Range(sending.items)
        /\ \A d \in Contexts : Range(sending'.deltas[d]) \subseteq Range(sending.deltas[d])
    BY <1>0, <2>1, SendKeeps, NothingIn
  <2>3. \A d \in Contexts : Waiting(d)' \subseteq Waiting(d)
    BY <2>1, <2>2 DEF Waiting
  <2> QED BY <1>0, <2>1, <2>3, LoseStep DEF Channel!Next
<1>6. CASE SendBegins \/ TestMeta \/ Build
  <2>1. /\ sending'.items = sending.items /\ sending'.deltas = sending.deltas
        /\ buffer' = buffer /\ produced' = produced /\ server' = server
    BY <1>0, <1>6 DEF SendBegins, TestMeta, Build, historyVars, DeltaTypeOK, Batches
  <2> QED BY <2>1 DEF Channel!vars, Waiting
<1>7. CASE UNCHANGED <<buffer, sending, produced, server>>
  BY <1>7 DEF Channel!vars, Waiting
<1> QED BY <1>1, <1>2, <1>3, <1>4, <1>5, <1>6, <1>7
        DEF DeltaNext, SendDelta, Connection, SendNotices, LinkUp, LinkDown, OnDisconnected,
            OnConnectedState, OnConnectedReset, historyVars, deltaVars

\* The device keeps the promise of LossyChannel: the values of each context reach
\* the server at most once and in the order they were produced, whatever is
\* dropped from a full queue, oversize, failed or cut off by a reconnection
\* (append, get_deltas, send_delta).
THEOREM ChannelImplemented == DeltaSpec => InOrderOnce
<1>1. IInv /\ IInv' /\ [DeltaNext]_deltaVars => [Channel!Next]_Channel!vars
  BY ChannelStep
<1> QED BY <1>1, ChannelInit, InvAlways, PTL DEF DeltaSpec, InOrderOnce, Channel!Spec

\* What a LossyChannel promises: each channel's values were received in order and
\* before the ones pending.
Promised ==
    \A c \in Contexts : /\ Channel!Increasing(server[c])
                         /\ Before(Range(server[c]), Waiting(c))
                         /\ Range(server[c]) \subseteq 1..produced

\* Values received stay in order when later ones are appended.
LEMMA JoinedInOrder ==
    ASSUME NEW s \in Seq(Nat), NEW d \in Seq(Nat),
           Channel!Increasing(s), Channel!Increasing(d), Before(Range(s), Range(d))
    PROVE  Channel!Increasing(s \o d) /\ Range(s \o d) = Range(s) \cup Range(d)
<1>1. /\ DOMAIN s = 1..Len(s) /\ DOMAIN d = 1..Len(d) /\ Len(s) \in Nat /\ Len(d) \in Nat
      /\ DOMAIN (s \o d) = 1..(Len(s) + Len(d))
      /\ \A i \in 1..Len(s) : (s \o d)[i] = s[i]
      /\ \A i \in (Len(s) + 1)..(Len(s) + Len(d)) : (s \o d)[i] = d[i - Len(s)]
  BY LenProperties, ConcatProperties
<1>2. \A i \in DOMAIN s, j \in DOMAIN d : s[i] < d[j]
  BY DEF Before, Range
<1> DEFINE t == s \o d
<1> HIDE DEF t
<1>3. SUFFICES ASSUME NEW i \in DOMAIN t, NEW j \in DOMAIN t, i < j PROVE t[i] < t[j]
  BY RangeConcatenation DEF t, Channel!Increasing
<1>4. CASE j <= Len(s)
  <2>1. i \in DOMAIN s /\ j \in DOMAIN s /\ t[i] = s[i] /\ t[j] = s[j]
    <3>1. i \in 1..Len(s) /\ j \in 1..Len(s)
      BY <1>1, <1>3, <1>4 DEF t
    <3> QED BY <1>1, <3>1 DEF t
  <2> QED BY <2>1, <1>3 DEF Channel!Increasing
<1>5. CASE i > Len(s)
  <2>1. /\ i - Len(s) \in DOMAIN d /\ j - Len(s) \in DOMAIN d /\ i - Len(s) < j - Len(s)
        /\ t[i] = d[i - Len(s)] /\ t[j] = d[j - Len(s)]
    BY <1>1, <1>3, <1>5 DEF t
  <2> QED BY <2>1 DEF Channel!Increasing
<1>6. CASE i <= Len(s) /\ j > Len(s)
  <2>1. i \in DOMAIN s /\ j - Len(s) \in DOMAIN d /\ t[i] = s[i] /\ t[j] = d[j - Len(s)]
    BY <1>1, <1>6 DEF t
  <2> QED BY <1>2, <2>1
<1> QED BY <1>1, <1>4, <1>5, <1>6 DEF t

LEMMA PromisedStep ==
    ASSUME IInv, IInv', Promised, [DeltaNext]_deltaVars
    PROVE  Promised'
<1> DEFINE pending == [c \in Contexts |-> Waiting(c)]
<1>0. /\ DeltaTypeOK /\ DeltaTypeOK' /\ OnTheWay /\ produced \in Nat /\ produced' \in Nat
      /\ \A c \in Contexts : server[c] \in Seq(Nat)
  <2>1. server \in [Contexts -> Seq(Numbers)] /\ Numbers \subseteq Nat
    BY DEF IInv, DeltaTypeOK, Numbers
  <2>2. \A c \in Contexts : server[c] \in Seq(Nat)
    BY <2>1, SeqMonotonic
  <2> QED BY <2>2 DEF IInv, DeltaTypeOK
<1>1. CASE UNCHANGED Channel!vars
  BY <1>1 DEF Channel!vars, Promised
<1>2. ASSUME NEW c \in Contexts, Channel!Produce(c, produced') PROVE Promised'
  <2>1. /\ produced' > produced /\ server' = server
        /\ \A d \in Contexts : Waiting(d)' \subseteq Waiting(d) \cup {produced'}
    BY <1>2 DEF Channel!Produce, Channel!Lost
  <2>2. 1..produced \subseteq 1..produced' /\ \A n \in 1..produced : n < produced'
    BY <1>0, <2>1
  <2>3. \A d \in Contexts : Before(Range(server'[d]), Waiting(d)')
    BY <2>1, <2>2 DEF Promised, Before
  <2> QED BY <2>1, <2>2, <2>3 DEF Promised
<1>3. CASE Channel!Lose
  <2>1. /\ produced' = produced /\ server' = server
        /\ \A d \in Contexts : Waiting(d)' \subseteq Waiting(d)
    BY <1>3 DEF Channel!Lose, Channel!Lost
  <2> QED BY <2>1 DEF Promised, Before
<1>4. ASSUME NEW c \in Contexts, NEW d \in Seq(Nat), Channel!Deliver(c, d) PROVE Promised'
  <2>1. /\ Range(d) \subseteq Waiting(c) /\ Channel!Increasing(d)
        /\ server' = [server EXCEPT ![c] = @ \o d] /\ produced' = produced
    BY <1>4 DEF Channel!Deliver, Channel!Range, Range
  <2>2. \A e \in Contexts : Waiting(e)' \subseteq Waiting(e)
    BY <1>4 DEF Channel!Deliver, Channel!Lost
  <2>3. \A v \in Range(d), w \in Waiting(c)' : v < w
    BY <1>4 DEF Channel!Deliver, Channel!Range, Range
  <2>4. Before(Range(server[c]), Range(d)) /\ Channel!Increasing(server[c])
    BY <2>1 DEF Promised, Before
  <2>5. /\ Channel!Increasing(server[c] \o d)
        /\ Range(server[c] \o d) = Range(server[c]) \cup Range(d)
    BY <1>0, <2>1, <2>4, JoinedInOrder
  <2>6. Waiting(c) \subseteq 1..produced
    BY <1>0, WaitingPlaces DEF OnTheWay, Staged
  <2>7. Before(Range(server[c] \o d), Waiting(c)')
    BY <2>2, <2>3, <2>5 DEF Promised, Before
  <2>8. /\ server'[c] = server[c] \o d
        /\ \A e \in Contexts \ {c} : server'[e] = server[e]
    BY <1>0, <2>1 DEF DeltaTypeOK
  <2>9. ASSUME NEW e \in Contexts
        PROVE  /\ Channel!Increasing(server'[e])
               /\ Before(Range(server'[e]), Waiting(e)')
               /\ Range(server'[e]) \subseteq 1..produced'
    <3>1. CASE e = c
      BY <2>1, <2>5, <2>6, <2>7, <2>8, <3>1 DEF Promised
    <3>2. CASE e # c
      BY <2>1, <2>2, <2>8, <3>2 DEF Promised, Before
    <3> QED BY <3>1, <3>2
  <2> QED BY <2>9 DEF Promised
<1>5. ASSUME NEW c \in Contexts,
             Channel!Deliver(c, SubSeq(server'[c], Len(server[c]) + 1, Len(server'[c])))
      PROVE  Promised'
  <2> DEFINE d == SubSeq(server'[c], Len(server[c]) + 1, Len(server'[c]))
  <2>1. server'[c] \in Seq(Nat) /\ Len(server[c]) + 1 \in 1..(Len(server[c]) + 1)
    <3>1. server'[c] \in Seq(Numbers) /\ Numbers \subseteq Nat
      BY <1>0 DEF DeltaTypeOK, Numbers
    <3>2. server'[c] \in Seq(Nat)
      BY <3>1, SeqMonotonic
    <3>3. Len(server[c]) \in Nat
      BY <1>0, LenProperties
    <3> QED BY <3>2, <3>3
  <2>2. d \in Seq(Nat)
    BY <1>0, <2>1, LenProperties
  <2> HIDE DEF d
  <2> QED BY <1>4, <1>5, <2>2 DEF d
<1> QED BY <1>1, <1>2, <1>3, <1>5, ChannelStep DEF Channel!Next

\* What the server received of a context is in the order of its production, and
\* no value of it came twice.
THEOREM ServerInOrder == DeltaSpec => []Channel!InOrder
<1>1. DeltaInit => Promised
  <2> SUFFICES ASSUME DeltaInit PROVE Promised
    OBVIOUS
  <2>1. \A c \in Contexts : server[c] = <<>>
    BY DEF DeltaInit, NoDeltas
  <2> QED BY <2>1, NothingIn DEF Promised, Before
<1>2. Promised /\ IInv /\ IInv' /\ [DeltaNext]_deltaVars => Promised'
  BY PromisedStep
<1>3. Promised => Channel!InOrder
  BY DEF Promised, Channel!InOrder
<1> QED BY <1>1, <1>2, <1>3, InvAlways, PTL DEF DeltaSpec
=============================================================================
