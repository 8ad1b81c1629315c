----------------------- MODULE ReceivedUpdates_proofs -----------------------
(***************************************************************************)
(* Proofs about ReceivedUpdates for any listeners, messages and limits: the*)
(* two semaphores, the answers to PUTs and what the queue holds.           *)
(***************************************************************************)
EXTENDS ReceivedUpdates, FiniteSetTheorems, SequenceTheorems, WellFoundedInduction, TLAPS

Places == {"idle", "scan", "enqueue", "each", "put", "copy"}

\* Who has which semaphore at which place.
LockPlaces ==
    /\ locks["listeners"] = IF taken > 0 THEN "loop"
                            ELSE IF handling.pc = "copy" THEN "transport" ELSE "free"
    /\ locks["updates"] = IF taken = 2 THEN "loop"
                          ELSE IF handling.pc = "each" THEN "transport" ELSE "free"
    /\ handling.pc = "copy" => taken = 0
    /\ handling.pc = "each" => taken # 2

\* What on_receive_put has found of a message.
Found ==
    /\ handling.all <=> \A i \in DOMAIN handling.message.put :
                      handling.pc # "each" /\ i < handling.at => PutListenersOf(handling.message.put[i]) # {}
    /\ handling.pc \in {"scan", "enqueue"} => handling.at = 1
    /\ handling.pc = "copy" => handling.at <= Len(handling.message.put)

Control ==
    /\ locks \in [{"listeners", "updates"} -> {"free", "loop", "transport"}]
    /\ taken \in 0..2
    /\ handling \in [pc : Places, message : Messages \cup {NoMessage},
               at : Nat \ {0}, copies : Nat, all : BOOLEAN]
    /\ answers \subseteq [put : Seq(Paths), completed : BOOLEAN]

IInv == Control /\ LockPlaces /\ Found /\ PutAnswered

\* A circular wait: each task holds a semaphore and waits for the other's.
CircularWait ==
    \/ taken = 1 /\ locks["updates"] = "transport" /\ handling.pc \in {"scan", "put"}
    \/ handling.pc = "copy" /\ locks["updates"] = "loop"

-----------------------------------------------------------------------------
(* One lemma for each part, one step for each action. *)

\* What a message holds.
LEMMA MessageParts ==
    \A m \in Messages \cup {NoMessage} :
        m.put \in Seq(Paths) /\ m.updates \in Seq([meta : BOOLEAN, path : Paths])
<1>1. \A m \in Messages :
         m.put \in Seq(Paths) /\ m.updates \in Seq([meta : BOOLEAN, path : Paths])
  BY ListenersAssumption
<1>2. NoMessage.put \in Seq(Paths) /\ NoMessage.updates \in Seq([meta : BOOLEAN, path : Paths])
  BY EmptySeq DEF NoMessage
<1> QED BY <1>1, <1>2

\* Both tasks stay where the code has a place.
LEMMA ControlStep == IInv /\ [UpdatesNext]_updateVars => Control'
<1> SUFFICES ASSUME IInv, [UpdatesNext]_updateVars PROVE Control'
  OBVIOUS
<1> USE DEF Control, Places, transportFrame, loopFrame
<1>0. Control
  BY DEF IInv
<1>1. ASSUME NEW m \in Messages, ReceiveMessage(m) PROVE Control'
  BY <1>0, <1>1 DEF ReceiveMessage
<1>2. CASE ScanListeners
  BY <1>0, <1>2 DEF ScanListeners
<1>3. CASE UpdatesTake
  BY <1>0, <1>3 DEF UpdatesTake, Taken
<1>3a. CASE EnqueueUpdate
  BY <1>0, <1>3a DEF EnqueueUpdate
<1>3b. CASE UpdatesRelease
  <2>1. handling' = [handling EXCEPT !.pc = "put", !.at = 1]
        /\ locks' \in [{"listeners", "updates"} -> {"free", "loop", "transport"}] /\ taken' = taken
    BY <1>0, <1>3b DEF UpdatesRelease, Given
  <2>2. handling' = [pc |-> "put", message |-> handling.message, at |-> 1, copies |-> handling.copies, all |-> handling.all]
    BY <1>0, <2>1
  <2>3. handling' \in [pc : Places, message : Messages \cup {NoMessage},
                 at : Nat \ {0}, copies : Nat, all : BOOLEAN]
    BY <1>0, <2>2
  <2>4. answers' = answers
    BY <1>3b DEF UpdatesRelease
  <2> QED BY <1>0, <2>1, <2>3, <2>4
<1>4. CASE PutTakes
  <2>1. Cardinality(PutListenersOf(handling.message.put[handling.at])) \in Nat
    <3>1. IsFiniteSet(PutListenersOf(handling.message.put[handling.at]))
      BY ListenersAssumption, FS_Subset DEF Listeners, PutListenersOf
    <3> QED BY <3>1, FS_CardinalityType
  <2>2. handling' \in [pc : Places, message : Messages \cup {NoMessage},
                  at : Nat \ {0}, copies : Nat, all : BOOLEAN]
    BY <1>0, <1>4, <2>1 DEF PutTakes
  <2> QED BY <1>0, <1>4, <2>2 DEF PutTakes, Taken
<1>5. CASE PutEnqueues
  BY <1>0, <1>5 DEF PutEnqueues
<1>6. CASE PutReleases
  <2>1. handling.at + 1 \in Nat \ {0}
    BY <1>0
  <2>2. \A b \in BOOLEAN : [handling EXCEPT !.pc = "put", !.at = @ + 1, !.all = b] \in [pc : Places, message : Messages \cup {NoMessage},
                  at : Nat \ {0}, copies : Nat, all : BOOLEAN]
    BY <1>0, <2>1
  <2>3. AllMatched(handling.all, handling.message.put[handling.at]) \in BOOLEAN
    BY <1>0, Zenon DEF AllMatched
  <2>4. handling' = [handling EXCEPT !.pc = "put", !.at = @ + 1,
                         !.all = AllMatched(handling.all, handling.message.put[handling.at])]
    BY <1>6 DEF PutReleases
  <2>5. locks' \in [{"listeners", "updates"} -> {"free", "loop", "transport"}] /\ taken' = taken
    BY <1>0, <1>6 DEF PutReleases, Given
  <2>6. answers' = answers
    BY <1>6 DEF PutReleases
  <2> QED BY <1>0, <2>2, <2>3, <2>4, <2>5, <2>6
<1>7. CASE MessageDone
  <2>1. handling' = [handling EXCEPT !.pc = "idle", !.message = NoMessage, !.at = 1, !.all = TRUE]
        /\ locks' = locks /\ taken' = taken
    BY <1>7 DEF MessageDone
  <2>2. handling' = [pc |-> "idle", message |-> NoMessage, at |-> 1, copies |-> handling.copies, all |-> TRUE]
    BY <1>0, <2>1
  <2>3. handling.copies \in Nat /\ 1 \in Nat \ {0}
    BY <1>0
  <2>4. handling' \in [pc : Places, message : Messages \cup {NoMessage},
                 at : Nat \ {0}, copies : Nat, all : BOOLEAN]
    BY <2>2, <2>3
  <2>5. answers' = answers
        \/ answers' = answers \cup {[put |-> handling.message.put, completed |-> handling.all]}
    BY <1>7 DEF MessageDone
  <2>6. handling.message.put \in Seq(Paths) /\ handling.all \in BOOLEAN
    BY <1>0, MessageParts
  <2>7. answers' \subseteq [put : Seq(Paths), completed : BOOLEAN]
    BY <1>0, <2>5, <2>6
  <2> QED BY <1>0, <2>1, <2>4, <2>7
<1>8. CASE ProcessTakes
  <2>1. taken' \in 0..2 /\ handling' = handling
    BY <1>0, <1>8 DEF ProcessTakes
  <2>2. locks' \in [{"listeners", "updates"} -> {"free", "loop", "transport"}]
    BY <1>0, <1>8 DEF ProcessTakes, Taken
  <2>3. answers' = answers
    BY <1>8 DEF ProcessTakes
  <2> QED BY <1>0, <2>1, <2>2, <2>3
<1>9. CASE Dispatch
  BY <1>0, <1>9 DEF Dispatch
<1>10. CASE ProcessReleases
  BY <1>0, <1>10 DEF ProcessReleases
<1>11. CASE UNCHANGED updateVars
  BY <1>0, <1>11 DEF updateVars
<1> QED BY <1>1, <1>2, <1>3, <1>4, <1>5, <1>6, <1>7, <1>8, <1>9, <1>10, <1>11, <1>3a, <1>3b
       DEF UpdatesNext, HandleMessage, Process

\* The event loop takes the semaphore of the listeners first, and so does the
\* transport task: whoever has it finds the other one free.
LEMMA LockStep == IInv /\ [UpdatesNext]_updateVars => LockPlaces'
<1> SUFFICES ASSUME IInv, [UpdatesNext]_updateVars PROVE LockPlaces'
  OBVIOUS
<1> USE DEF LockPlaces, transportFrame, loopFrame, Free, Taken, Given
<1>0. Control /\ LockPlaces
  BY DEF IInv
<1>1. ASSUME NEW m \in Messages, ReceiveMessage(m) PROVE LockPlaces'
  BY <1>0, <1>1 DEF ReceiveMessage
<1>2. CASE ScanListeners
  BY <1>0, <1>2 DEF ScanListeners
<1>3. CASE UpdatesTake
  <2>1. locks' = [locks EXCEPT !["updates"] = "transport"] /\ locks["updates"] = "free"
    BY <1>3 DEF UpdatesTake
  <2>2. handling'.pc = "each" /\ taken' = taken /\ handling.pc = "enqueue"
    BY <1>0, <1>3 DEF UpdatesTake, Control
  <2>3. taken # 2
    BY <1>0, <2>1
  <2> QED BY <1>0, <2>1, <2>2, <2>3 DEF Control
<1>3a. CASE EnqueueUpdate
  BY <1>0, <1>3a DEF EnqueueUpdate
<1>3b. CASE UpdatesRelease
  <2>1. locks' = [locks EXCEPT !["updates"] = "free"] /\ handling.pc = "each"
    BY <1>3b DEF UpdatesRelease
  <2>2. handling'.pc = "put" /\ taken' = taken
    BY <1>0, <1>3b DEF UpdatesRelease, Control
  <2> QED BY <1>0, <2>1, <2>2 DEF Control
<1>4. CASE PutTakes
  <2>1. locks' = [locks EXCEPT !["listeners"] = "transport"] /\ locks["listeners"] = "free"
    BY <1>4 DEF PutTakes
  <2>2. handling'.pc = "copy" /\ taken' = taken
    BY <1>0, <1>4 DEF PutTakes, Control
  <2>3. taken = 0 /\ handling.pc = "put"
    BY <1>0, <1>4, <2>1 DEF Control, PutTakes
  <2> QED BY <1>0, <2>1, <2>2, <2>3 DEF Control
<1>5. CASE PutEnqueues
  BY <1>0, <1>5 DEF PutEnqueues
<1>6. CASE PutReleases
  <2>1. locks' = [locks EXCEPT !["listeners"] = "free"] /\ handling.pc = "copy"
    BY <1>6 DEF PutReleases
  <2>2. handling'.pc = "put" /\ taken' = taken
    BY <1>0, <1>6 DEF PutReleases, Control
  <2> QED BY <1>0, <2>1, <2>2 DEF Control
<1>7. CASE MessageDone
  BY <1>0, <1>7 DEF MessageDone
<1>8. CASE ProcessTakes
  <2>1. taken \in {0, 1} /\ taken' = taken + 1 /\ handling' = handling
    BY <1>0, <1>8 DEF ProcessTakes, Control
  <2>2. CASE taken = 0
    <3>1. locks' = [locks EXCEPT !["listeners"] = "loop"] /\ locks["listeners"] = "free"
      BY <1>8, <2>2 DEF ProcessTakes, ProcessLocks
    <3> QED BY <1>0, <2>1, <2>2, <3>1 DEF Control
  <2>3. CASE taken = 1
    <3>1. locks' = [locks EXCEPT !["updates"] = "loop"] /\ locks["updates"] = "free"
      BY <1>8, <2>3 DEF ProcessTakes, ProcessLocks
    <3> QED BY <1>0, <2>1, <2>3, <3>1 DEF Control
  <2> QED BY <2>1, <2>2, <2>3
<1>9. CASE Dispatch
  BY <1>0, <1>9 DEF Dispatch
<1>10. CASE ProcessReleases
  <2>1. taken' = 0 /\ handling' = handling /\ handling.pc # "copy" /\ handling.pc # "each"
    BY <1>0, <1>10 DEF ProcessReleases
  <2>2. locks'["listeners"] = "free" /\ locks'["updates"] = "free"
    BY <1>0, <1>10 DEF ProcessReleases, Control
  <2> QED BY <2>1, <2>2
<1>11. CASE UNCHANGED updateVars
  BY <1>0, <1>11 DEF updateVars
<1> QED BY <1>1, <1>2, <1>3, <1>4, <1>5, <1>6, <1>7, <1>8, <1>9, <1>10, <1>11, <1>3a, <1>3b
       DEF UpdatesNext, HandleMessage, Process

\* The loop over the paths of a PUT remembers whether one had no listener.
LEMMA FoundStep == IInv /\ [UpdatesNext]_updateVars => Found'
<1> SUFFICES ASSUME IInv, [UpdatesNext]_updateVars PROVE Found'
  OBVIOUS
<1> USE DEF Found, transportFrame, loopFrame, AllMatched, PutListenersOf
<1>0. Control /\ Found
  BY DEF IInv
<1>1. ASSUME NEW m \in Messages, ReceiveMessage(m) PROVE Found'
  <2>1. handling'.all = TRUE /\ handling'.at = 1 /\ handling'.message = m /\ handling'.pc # "copy"
    BY <1>1 DEF ReceiveMessage
  <2>2. m.put \in Seq(Paths)
    BY ListenersAssumption
  <2> QED BY <2>1, <2>2
<1>2. CASE ScanListeners
  BY <1>0, <1>2 DEF ScanListeners
<1>3. CASE UpdatesTake
  <2>1. handling'.all = handling.all /\ handling'.message = handling.message /\ handling'.pc = "each" /\ handling.pc = "enqueue"
    BY <1>0, <1>3 DEF UpdatesTake, Control
  <2>2. handling.at = 1 /\ handling.message.put \in Seq(Paths)
    BY <1>0, <2>1, MessageParts DEF Control
  <2>3. \A i \in DOMAIN handling.message.put : ~(i < 1)
    BY <2>2
  <2> QED BY <1>0, <2>1, <2>2, <2>3
<1>3a. CASE EnqueueUpdate
  BY <1>0, <1>3a DEF EnqueueUpdate
<1>3b. CASE UpdatesRelease
  <2>1. handling'.all = handling.all /\ handling'.message = handling.message /\ handling'.pc = "put" /\ handling'.at = 1
    BY <1>0, <1>3b DEF UpdatesRelease, Control
  <2>2. handling.pc = "each" /\ handling.message.put \in Seq(Paths)
    BY <1>0, <1>3b, MessageParts DEF UpdatesRelease, Control
  <2>3. \A i \in DOMAIN handling.message.put : ~(i < 1)
    BY <2>2
  <2> QED BY <1>0, <2>1, <2>2, <2>3
<1>4. CASE PutTakes
  BY <1>0, <1>4 DEF PutTakes
<1>5. CASE PutEnqueues
  BY <1>0, <1>5 DEF PutEnqueues
<1>6. CASE PutReleases
  <2>1. handling.message.put \in Seq(Paths) /\ handling.at \in DOMAIN handling.message.put
    BY <1>0, <1>6, MessageParts DEF Control, PutReleases
  <2>2. handling'.at = handling.at + 1 /\ handling'.message = handling.message /\ handling'.pc = "put"
    BY <1>0, <1>6 DEF PutReleases, Control
  <2>3. handling'.all = AllMatched(handling.all, handling.message.put[handling.at])
    BY <1>0, <1>6 DEF PutReleases, Control
  <2>4. \A i \in DOMAIN handling.message.put : i < handling.at + 1 <=> i < handling.at \/ i = handling.at
    BY <1>0, <2>1 DEF Control
  <2>5. handling'.all <=> handling.all /\ PutListenersOf(handling.message.put[handling.at]) # {}
    BY <2>3, Zenon DEF AllMatched
  <2>6. handling.pc = "copy"
    BY <1>6 DEF PutReleases
  <2> QED BY <1>0, <2>1, <2>2, <2>4, <2>5, <2>6
<1>7. CASE MessageDone
  <2>1. handling'.all = TRUE /\ handling'.at = 1 /\ handling'.message.put = <<>> /\ handling'.pc = "idle"
    BY <1>0, <1>7 DEF MessageDone, Control, NoMessage
  <2> QED BY <2>1
<1>8. CASE ProcessTakes
  BY <1>0, <1>8 DEF ProcessTakes
<1>9. CASE Dispatch
  BY <1>0, <1>9 DEF Dispatch
<1>10. CASE ProcessReleases
  BY <1>0, <1>10 DEF ProcessReleases
<1>11. CASE UNCHANGED updateVars
  BY <1>0, <1>11 DEF updateVars
<1> QED BY <1>1, <1>2, <1>3, <1>4, <1>5, <1>6, <1>7, <1>8, <1>9, <1>10, <1>11, <1>3a, <1>3b
       DEF UpdatesNext, HandleMessage, Process

\* When the loop ends it has seen every path.
LEMMA AnsweredStep == IInv /\ [UpdatesNext]_updateVars => PutAnswered'
<1> SUFFICES ASSUME IInv, [UpdatesNext]_updateVars PROVE PutAnswered'
  OBVIOUS
<1> USE DEF PutAnswered, transportFrame, loopFrame, PutListenersOf
<1>0. Control /\ Found /\ PutAnswered
  BY DEF IInv
<1>1. ASSUME NEW m \in Messages, ReceiveMessage(m) PROVE PutAnswered'
  BY <1>0, <1>1 DEF ReceiveMessage
<1>2. CASE ScanListeners
  BY <1>0, <1>2 DEF ScanListeners
<1>3. CASE UpdatesTake
  BY <1>0, <1>3 DEF UpdatesTake
<1>3a. CASE EnqueueUpdate
  BY <1>0, <1>3a DEF EnqueueUpdate
<1>3b. CASE UpdatesRelease
  BY <1>0, <1>3b DEF UpdatesRelease
<1>4. CASE PutTakes
  BY <1>0, <1>4 DEF PutTakes
<1>5. CASE PutEnqueues
  BY <1>0, <1>5 DEF PutEnqueues
<1>6. CASE PutReleases
  BY <1>0, <1>6 DEF PutReleases
<1>7. CASE MessageDone
  <2>1. handling.message.put \in Seq(Paths)
    BY <1>0, MessageParts DEF Control
  <2>2. \A i \in DOMAIN handling.message.put : i < handling.at
    BY <1>0, <1>7, <2>1 DEF MessageDone, Control
  <2>3. answers' = answers
        \/ answers' = answers \cup {[put |-> handling.message.put, completed |-> handling.all]}
    BY <1>7 DEF MessageDone
  <2>4. handling.all <=> \A i \in DOMAIN handling.message.put : PutListenersOf(handling.message.put[i]) # {}
    BY <1>0, <1>7, <2>2 DEF Found, MessageDone
  <2>5. ASSUME NEW a \in answers'
        PROVE  a.completed <=> \A i \in DOMAIN a.put : PutListenersOf(a.put[i]) # {}
    <3>1. CASE a \in answers
      BY <1>0, <3>1
    <3>2. CASE a = [put |-> handling.message.put, completed |-> handling.all]
      <4>1. a.put = handling.message.put /\ a.completed = handling.all
        BY <3>2
      <4> QED BY <2>4, <4>1
    <3> QED BY <2>3, <2>5, <3>1, <3>2
  <2> QED BY <2>5
<1>8. CASE ProcessTakes
  BY <1>0, <1>8 DEF ProcessTakes
<1>9. CASE Dispatch
  BY <1>0, <1>9 DEF Dispatch
<1>10. CASE ProcessReleases
  BY <1>0, <1>10 DEF ProcessReleases
<1>11. CASE UNCHANGED updateVars
  BY <1>0, <1>11 DEF updateVars
<1> QED BY <1>1, <1>2, <1>3, <1>4, <1>5, <1>6, <1>7, <1>8, <1>9, <1>10, <1>11, <1>3a, <1>3b
       DEF UpdatesNext, HandleMessage, Process

-----------------------------------------------------------------------------
(* Operators on the queue: a sequence of entries whose numbers increase. *)

AllEntries == [n : Nat \ {0}, meta : BOOLEAN, path : Paths]

Increasing(q) == \A i, j \in DOMAIN q : i < j => q[i].n < q[j].n

\* A set of natural numbers has a least one.
LEMMA LeastNat ==
    ASSUME NEW T \in SUBSET Nat, T # {}
    PROVE  \E x \in T : \A y \in T : x <= y
<1>1. PICK x \in T : \A y \in T : ~(<<y, x>> \in OpToRel(<, Nat))
  BY NatLessThanWellFounded, WFMin
<1>2. \A y \in T : <<y, x>> \in OpToRel(<, Nat) <=> y < x
  BY DEF OpToRel
<1>3. \A y \in T : ~(y < x)
  BY <1>1, <1>2, Zenon
<1>4. \A y \in T : x <= y
  BY <1>3
<1> QED BY <1>4

\* A sequence holds finitely many elements.
LEMMA RangeFinite ==
    ASSUME NEW S, NEW q \in Seq(S)
    PROVE  IsFiniteSet(Range(q))
<1>1. Len(q) \in Nat /\ q \in [1..Len(q) -> Range(q)]
  BY LenProperties DEF Range
<1>2. q \in Surjection(1..Len(q), Range(q))
  BY <1>1, LenProperties DEF Surjection, Range
<1> QED BY <1>1, <1>2, FS_NatSurjection DEF ExistsSurjection

\* What RemoveAt leaves, place by place.
LEMMA Shortened ==
    ASSUME NEW S, NEW q \in Seq(S), NEW i \in 1..Len(q)
    PROVE  /\ RemoveAt(q, i) \in Seq(S)
           /\ Len(RemoveAt(q, i)) = Len(q) - 1
           /\ \A j \in 1..(Len(q) - 1) : RemoveAt(q, i)[j] = IF j < i THEN q[j] ELSE q[j + 1]
<1> DEFINE s1 == SubSeq(q, 1, i - 1)
           s2 == SubSeq(q, i + 1, Len(q))
<1>0. Len(q) \in Nat /\ i \in Nat /\ (\A j \in 1..Len(q) : q[j] \in S)
  BY LenProperties, ElementOfSeq
<1>1. s1 \in Seq(S) /\ Len(s1) = i - 1 /\ \A j \in 1..(i - 1) : s1[j] = q[j]
  <2>1. \A j \in 1..(i - 1) : q[j] \in S
    BY <1>0
  <2> QED BY <1>0, <2>1, SubSeqProperties
<1>2. s2 \in Seq(S) /\ Len(s2) = Len(q) - i /\ \A j \in 1..(Len(q) - i) : s2[j] = q[i + j]
  <2>1. \A j \in (i + 1)..Len(q) : q[j] \in S
    BY <1>0
  <2> QED BY <1>0, <2>1, SubSeqProperties
<1>3. /\ s1 \o s2 \in Seq(S)
      /\ Len(s1 \o s2) = Len(s1) + Len(s2)
      /\ \A j \in 1 .. Len(s1) + Len(s2) :
            (s1 \o s2)[j] = IF j <= Len(s1) THEN s1[j] ELSE s2[j - Len(s1)]
  BY <1>1, <1>2, ConcatProperties
<1>4. RemoveAt(q, i) = s1 \o s2
  BY DEF RemoveAt
<1> HIDE DEF s1, s2
<1>5. ASSUME NEW j \in 1..(Len(q) - 1)
      PROVE  (s1 \o s2)[j] = IF j < i THEN q[j] ELSE q[j + 1]
  <2>1. CASE j < i
    BY <1>0, <1>1, <1>2, <1>3, <2>1
  <2>2. CASE ~(j < i)
    <3>1. (s1 \o s2)[j] = s2[j - (i - 1)] /\ j - (i - 1) \in 1..(Len(q) - i)
      BY <1>0, <1>1, <1>2, <1>3, <2>2
    <3> QED BY <1>0, <1>2, <2>2, <3>1
  <2> QED BY <2>1, <2>2
<1>6. Len(s1 \o s2) = Len(q) - 1
  BY <1>0, <1>1, <1>2, <1>3
<1> QED BY <1>3, <1>4, <1>5, <1>6, Zenon

\* Taking an element out of the queue takes that one and no other.
LEMMA Removed ==
    ASSUME NEW q \in Seq(AllEntries), Increasing(q), NEW i \in 1..Len(q)
    PROVE  /\ RemoveAt(q, i) \in Seq(AllEntries)
           /\ Increasing(RemoveAt(q, i))
           /\ Range(RemoveAt(q, i)) = Range(q) \ {q[i]}
<1> DEFINE r == RemoveAt(q, i)
<1>1. /\ r \in Seq(AllEntries) /\ Len(r) = Len(q) - 1
      /\ \A j \in 1..(Len(q) - 1) : r[j] = IF j < i THEN q[j] ELSE q[j + 1]
  BY Shortened
<1>2. Len(q) \in Nat /\ DOMAIN q = 1..Len(q) /\ DOMAIN r = 1..(Len(q) - 1)
  BY <1>1, LenProperties
<1>3. \A j \in DOMAIN q : q[j].n \in Nat
  <2>1. \A j \in DOMAIN q : q[j] \in AllEntries
    BY <1>2, ElementOfSeq
  <2> QED BY <2>1 DEF AllEntries
<1> HIDE DEF r
<1>4. Increasing(r)
  <2> SUFFICES ASSUME NEW j \in DOMAIN r, NEW k \in DOMAIN r, j < k
               PROVE  r[j].n < r[k].n
    BY DEF Increasing
  <2> DEFINE from(l) == IF l < i THEN l ELSE l + 1
  <2>1. from(j) \in DOMAIN q /\ from(k) \in DOMAIN q /\ from(j) < from(k)
    BY <1>2
  <2>2. r[j] = q[from(j)] /\ r[k] = q[from(k)]
    BY <1>1, <1>2
  <2> HIDE DEF from
  <2> QED BY <2>1, <2>2 DEF Increasing
<1>5. ASSUME NEW e \in Range(r) PROVE e \in Range(q) \ {q[i]}
  <2>1. PICK j \in 1..(Len(q) - 1) : e = r[j]
    BY <1>2 DEF Range
  <2> DEFINE from == IF j < i THEN j ELSE j + 1
  <2>2. from \in DOMAIN q /\ from # i /\ e = q[from]
    BY <1>1, <1>2, <2>1
  <2> HIDE DEF from
  <2>3. q[from].n # q[i].n
    BY <1>2, <1>3, <2>2 DEF Increasing
  <2> QED BY <1>2, <2>2, <2>3 DEF Range
<1>6. ASSUME NEW e \in Range(q) \ {q[i]} PROVE e \in Range(r)
  <2>1. PICK k \in DOMAIN q : k # i /\ e = q[k]
    BY DEF Range
  <2>2. CASE k < i
    <3>1. k \in 1..(Len(q) - 1) /\ r[k] = e
      BY <1>1, <1>2, <2>1, <2>2
    <3> QED BY <1>2, <3>1 DEF Range
  <2>3. CASE k > i
    <3>1. k - 1 \in 1..(Len(q) - 1) /\ r[k - 1] = e
      BY <1>1, <1>2, <2>1, <2>3
    <3> QED BY <1>2, <3>1 DEF Range
  <2> QED BY <1>2, <2>1, <2>2, <2>3
<1> QED BY <1>1, <1>4, <1>5, <1>6 DEF r

\* A later entry goes to the end.
LEMMA Appended ==
    ASSUME NEW q \in Seq(AllEntries), Increasing(q),
           NEW entry \in AllEntries, \A e \in Range(q) : e.n < entry.n
    PROVE  /\ Append(q, entry) \in Seq(AllEntries)
           /\ Increasing(Append(q, entry))
           /\ Range(Append(q, entry)) = Range(q) \cup {entry}
<1> DEFINE r == Append(q, entry)
<1>1. /\ r \in Seq(AllEntries) /\ Len(r) = Len(q) + 1
      /\ \A j \in 1..Len(q) : r[j] = q[j]
      /\ r[Len(q) + 1] = entry
  BY AppendProperties
<1>2. Len(q) \in Nat /\ DOMAIN q = 1..Len(q) /\ DOMAIN r = 1..(Len(q) + 1)
  BY <1>1, LenProperties
<1>3. \A j \in DOMAIN q : q[j].n < entry.n
  BY DEF Range
<1> HIDE DEF r
<1>4. Increasing(r)
  <2> SUFFICES ASSUME NEW j \in DOMAIN r, NEW k \in DOMAIN r, j < k
               PROVE  r[j].n < r[k].n
    BY DEF Increasing
  <2>1. CASE k \in DOMAIN q
    BY <1>1, <1>2, <2>1 DEF Increasing
  <2>2. CASE k = Len(q) + 1
    BY <1>1, <1>2, <1>3, <2>2
  <2> QED BY <1>2, <2>1, <2>2
<1>5. Range(r) = Range(q) \cup {entry}
  BY <1>1, <1>2 DEF Range
<1> QED BY <1>1, <1>4, <1>5 DEF r

\* The entry that makes room is the oldest of its kind.
LEMMA OldestOfKind ==
    ASSUME NEW q \in Seq(AllEntries), Increasing(q), NEW meta \in BOOLEAN,
           OfKind(Range(q), meta) # {}
    PROVE  /\ Oldest(q, meta) \in 1..Len(q)
           /\ q[Oldest(q, meta)] \in OfKind(Range(q), meta)
           /\ \A e \in OfKind(Range(q), meta) \ {q[Oldest(q, meta)]} :
                  q[Oldest(q, meta)].n < e.n
<1> DEFINE places == {i \in DOMAIN q : q[i].meta = meta}
<1>1. Len(q) \in Nat /\ DOMAIN q = 1..Len(q)
  BY LenProperties
<1>2. places \in SUBSET Nat /\ places # {}
  BY <1>1 DEF OfKind, Range
<1>3. PICK i \in places : \A j \in places : i <= j
  BY <1>2, LeastNat
<1>4. i \in DOMAIN q /\ q[i].meta = meta /\ \A j \in 1..(i - 1) : q[j].meta # meta
  BY <1>1, <1>3
<1>5. /\ Oldest(q, meta) \in DOMAIN q
      /\ q[Oldest(q, meta)].meta = meta
      /\ \A j \in 1..(Oldest(q, meta) - 1) : q[j].meta # meta
  BY <1>4 DEF Oldest
<1> HIDE DEF places
<1>6. ASSUME NEW e \in OfKind(Range(q), meta) \ {q[Oldest(q, meta)]}
      PROVE  q[Oldest(q, meta)].n < e.n
  <2>1. PICK k \in DOMAIN q : e = q[k] /\ e.meta = meta
    BY DEF OfKind, Range
  <2>2. Oldest(q, meta) < k
    BY <1>1, <1>5, <2>1
  <2> QED BY <1>5, <2>1, <2>2 DEF Increasing
<1> QED BY <1>1, <1>5, <1>6 DEF OfKind, Range

\* What enqueue_received_update does to the queue.
LEMMA Enqueued ==
    ASSUME NEW q \in Seq(AllEntries), Increasing(q),
           NEW entry \in AllEntries, \A e \in Range(q) : e.n < entry.n
    PROVE  /\ Enqueue(q, entry) \in Seq(AllEntries)
           /\ Increasing(Enqueue(q, entry))
           /\ ~Full(q, entry.meta) => Range(Enqueue(q, entry)) = Range(q) \cup {entry}
           /\ Full(q, entry.meta) =>
                 \E old \in OfKind(Range(q), entry.meta) :
                    /\ \A e \in OfKind(Range(q), entry.meta) \ {old} : old.n < e.n
                    /\ Range(Enqueue(q, entry)) = (Range(q) \ {old}) \cup {entry}
<1>0. entry.meta \in BOOLEAN
  BY DEF AllEntries
<1>1. CASE ~Full(q, entry.meta)
  <2>1. Enqueue(q, entry) = Append(q, entry)
    BY <1>1 DEF Enqueue
  <2> QED BY <1>1, <2>1, Appended
<1>2. CASE Full(q, entry.meta)
  <2> DEFINE old == q[Oldest(q, entry.meta)]
             r == RemoveAt(q, Oldest(q, entry.meta))
  <2>1. OfKind(Range(q), entry.meta) # {}
    <3>1. Limit(entry.meta) \in Nat \ {0}
      BY LimitsAssumption DEF Limit
    <3>2. Cardinality(OfKind(Range(q), entry.meta)) >= Limit(entry.meta)
      BY <1>2 DEF Full
    <3>3. OfKind(Range(q), entry.meta) = {} => Cardinality(OfKind(Range(q), entry.meta)) = 0
      BY FS_EmptySet
    <3> QED BY <3>1, <3>2, <3>3
  <2>2. /\ Oldest(q, entry.meta) \in 1..Len(q)
        /\ old \in OfKind(Range(q), entry.meta)
        /\ \A e \in OfKind(Range(q), entry.meta) \ {old} : old.n < e.n
    BY <1>0, <2>1, OldestOfKind
  <2>3. r \in Seq(AllEntries) /\ Increasing(r) /\ Range(r) = Range(q) \ {old}
    BY <2>2, Removed
  <2>4. Enqueue(q, entry) = Append(r, entry)
    BY <1>2 DEF Enqueue
  <2> HIDE DEF old, r
  <2>5. \A e \in Range(r) : e.n < entry.n
    BY <2>3
  <2>6. /\ Append(r, entry) \in Seq(AllEntries) /\ Increasing(Append(r, entry))
        /\ Range(Append(r, entry)) = (Range(q) \ {old}) \cup {entry}
    BY <2>3, <2>5, Appended
  <2> QED BY <1>2, <2>2, <2>4, <2>6
<1> QED BY <1>1, <1>2

\* What is left when the oldest entry of all is dispatched.
LEMMA Dequeued ==
    ASSUME NEW q \in Seq(AllEntries), Increasing(q), q # <<>>
    PROVE  /\ Head(q) \in Range(q)
           /\ Tail(q) \in Seq(AllEntries)
           /\ Increasing(Tail(q))
           /\ Range(Tail(q)) = Range(q) \ {Head(q)}
           /\ \A e \in Range(Tail(q)) : Head(q).n < e.n
<1> DEFINE r == Tail(q)
<1>1. /\ r \in Seq(AllEntries) /\ Len(r) = Len(q) - 1
      /\ \A i \in 1..(Len(q) - 1) : r[i] = q[i + 1]
  BY HeadTailProperties
<1>2. Len(q) \in Nat \ {0} /\ DOMAIN q = 1..Len(q) /\ DOMAIN r = 1..(Len(q) - 1)
  BY <1>1, LenProperties, EmptySeq
<1>3. Head(q) = q[1]
  OBVIOUS
<1>4. \A j \in DOMAIN q : q[j].n \in Nat
  <2>1. \A j \in DOMAIN q : q[j] \in AllEntries
    BY <1>2, ElementOfSeq
  <2> QED BY <2>1 DEF AllEntries
<1> HIDE DEF r
<1>5. Increasing(r)
  <2> SUFFICES ASSUME NEW j \in DOMAIN r, NEW k \in DOMAIN r, j < k
               PROVE  r[j].n < r[k].n
    BY DEF Increasing
  <2>1. j + 1 \in DOMAIN q /\ k + 1 \in DOMAIN q /\ j + 1 < k + 1
    BY <1>2
  <2>2. r[j] = q[j + 1] /\ r[k] = q[k + 1]
    BY <1>1, <1>2
  <2> QED BY <2>1, <2>2 DEF Increasing
<1>6. \A i \in DOMAIN q : i # 1 => q[1].n < q[i].n
  BY <1>2 DEF Increasing
<1>7. ASSUME NEW e \in Range(r) PROVE e \in Range(q) /\ q[1].n < e.n
  <2>1. PICK i \in 1..(Len(q) - 1) : e = q[i + 1]
    BY <1>1, <1>2 DEF Range
  <2> QED BY <1>2, <1>6, <2>1 DEF Range
<1>8. ASSUME NEW e \in Range(q), e # q[1] PROVE e \in Range(r)
  <2>1. PICK i \in DOMAIN q : e = q[i] /\ i # 1
    BY <1>8 DEF Range
  <2>2. i - 1 \in 1..(Len(q) - 1) /\ r[i - 1] = e
    BY <1>1, <1>2, <2>1
  <2> QED BY <1>2, <2>2 DEF Range
<1>9. q[1] \in Range(q) /\ q[1] \notin Range(r)
  BY <1>2, <1>4, <1>7 DEF Range
<1>10. Range(r) = Range(q) \ {q[1]}
  BY <1>7, <1>8, <1>9
<1> QED BY <1>1, <1>3, <1>5, <1>7, <1>9, <1>10 DEF r

-----------------------------------------------------------------------------
(* What the queue holds: the entries are numbered as they come, a listener  *)
(* has seen none that still waits, and the limits hold.                     *)

Numbered ==
    /\ received \in Nat
    /\ queue \in Seq(AllEntries) /\ Increasing(queue)
    /\ arrived \subseteq AllEntries /\ Range(queue) \subseteq arrived
    /\ \A e \in arrived : e.n <= received
    /\ last \in [Listeners -> 0..received]
    /\ \A l \in Listeners : \A e \in Range(queue) : last[l] < e.n

Limited == \A meta \in BOOLEAN : Cardinality(OfKind(Range(queue), meta)) <= Limit(meta)

QueueInv == Numbered /\ Limited /\ KindsIndependent

\* Three things can happen to the queue.
LEMMA QueueMoves ==
    ASSUME Control, Found, [UpdatesNext]_updateVars
    PROVE  \/ UNCHANGED <<queue, received, arrived, last>>
           \/ \E meta \in BOOLEAN, path \in Paths : NewEntry(meta, path) /\ last' = last
           \/ Dispatch
<1> USE DEF transportFrame, loopFrame, queueFrame
<1>1. ASSUME NEW m \in Messages, ReceiveMessage(m) PROVE UNCHANGED <<queue, received, arrived, last>>
  BY <1>1 DEF ReceiveMessage
<1>2. CASE ScanListeners \/ UpdatesTake \/ UpdatesRelease
  BY <1>2 DEF ScanListeners, UpdatesTake, UpdatesRelease
<1>3. CASE EnqueueUpdate
  <2> DEFINE update == handling.message.updates[handling.at]
  <2>1. handling.message.updates \in Seq([meta : BOOLEAN, path : Paths])
    BY MessageParts DEF Control
  <2>2. handling.at \in 1..Len(handling.message.updates)
    BY <1>3, <2>1 DEF EnqueueUpdate, Control
  <2>3. update \in [meta : BOOLEAN, path : Paths]
    BY <2>1, <2>2, ElementOfSeq
  <2>4. queueFrame \/ NewEntry(update.meta, update.path)
    BY <1>3 DEF EnqueueUpdate
  <2>5. last' = last
    BY <1>3 DEF EnqueueUpdate
  <2> HIDE DEF update
  <2> QED BY <2>3, <2>4, <2>5
<1>4. CASE PutTakes \/ PutReleases \/ MessageDone
  BY <1>4 DEF PutTakes, PutReleases, MessageDone
<1>5. CASE PutEnqueues
  <2>1. handling.message.put \in Seq(Paths)
    BY MessageParts DEF Control
  <2>2. NewEntry(FALSE, handling.message.put[handling.at]) /\ last' = last /\ handling.pc = "copy"
    BY <1>5 DEF PutEnqueues
  <2>3. handling.at \in 1..Len(handling.message.put)
    BY <2>1, <2>2 DEF Control, Found
  <2>4. handling.message.put[handling.at] \in Paths
    BY <2>1, <2>3, ElementOfSeq
  <2> QED BY <2>2, <2>4
<1>6. CASE ProcessTakes \/ ProcessReleases
  BY <1>6 DEF ProcessTakes, ProcessReleases
<1>7. CASE UNCHANGED updateVars
  BY <1>7 DEF updateVars
<1> QED BY <1>1, <1>2, <1>3, <1>4, <1>5, <1>6, <1>7 DEF UpdatesNext, HandleMessage, Process

\* A new entry: it is the latest, and what it pushes out is the oldest of its
\* kind, so that the entries of either kind that wait stay the latest ones.
LEMMA NewEntryKeeps ==
    ASSUME QueueInv, NEW meta \in BOOLEAN, NEW path \in Paths,
           NewEntry(meta, path), last' = last
    PROVE  QueueInv'
<1> DEFINE entry == [n |-> received + 1, meta |-> meta, path |-> path]
<1>0. Numbered /\ Limited /\ KindsIndependent
  BY DEF QueueInv
<1>1. /\ queue' = Enqueue(queue, entry)
      /\ arrived' = arrived \cup {entry}
      /\ received' = received + 1
  BY DEF NewEntry
<1>2. /\ entry \in AllEntries /\ entry.n = received + 1 /\ entry.meta = meta
      /\ entry \notin arrived
  BY <1>0 DEF Numbered, AllEntries
<1> HIDE DEF entry
<1>3. \A e \in arrived : e.n < entry.n
  BY <1>0, <1>2 DEF Numbered, AllEntries
<1>4. /\ Enqueue(queue, entry) \in Seq(AllEntries)
      /\ Increasing(Enqueue(queue, entry))
      /\ ~Full(queue, entry.meta) => Range(Enqueue(queue, entry)) = Range(queue) \cup {entry}
      /\ Full(queue, entry.meta) =>
            \E old \in OfKind(Range(queue), entry.meta) :
               /\ \A e \in OfKind(Range(queue), entry.meta) \ {old} : old.n < e.n
               /\ Range(Enqueue(queue, entry)) = (Range(queue) \ {old}) \cup {entry}
  <2>1. /\ queue \in Seq(AllEntries) /\ Increasing(queue)
        /\ \A e \in Range(queue) : e.n < entry.n
    BY <1>0, <1>3 DEF Numbered
  <2> QED BY <1>2, <2>1, Enqueued
<1>5. Range(queue') \subseteq Range(queue) \cup {entry}
  BY <1>1, <1>4
<1>6. Numbered'
  <2>1. received' \in Nat /\ queue' \in Seq(AllEntries) /\ Increasing(queue)'
    BY <1>0, <1>1, <1>4 DEF Numbered, Increasing
  <2>2. arrived' \subseteq AllEntries /\ Range(queue') \subseteq arrived'
    BY <1>0, <1>1, <1>2, <1>5 DEF Numbered
  <2>3. \A e \in arrived' : e.n <= received'
    BY <1>0, <1>1, <1>2 DEF Numbered, AllEntries
  <2>4. last' \in [Listeners -> 0..received']
    BY <1>0, <1>1 DEF Numbered
  <2>5. \A l \in Listeners : \A e \in Range(queue') : last'[l] < e.n
    BY <1>0, <1>2, <1>5 DEF Numbered
  <2> QED BY <2>1, <2>2, <2>3, <2>4, <2>5 DEF Numbered
<1>7. \A k \in BOOLEAN : IsFiniteSet(OfKind(Range(queue), k))
  BY <1>0, RangeFinite, FS_Subset DEF OfKind, Numbered
<1>8. ASSUME NEW k \in BOOLEAN
      PROVE  /\ Cardinality(OfKind(Range(queue'), k)) <= Limit(k)
             /\ \A e \in OfKind(Range(queue'), k),
                   f \in OfKind(arrived', k) \ OfKind(Range(queue'), k) : f.n < e.n
             /\ \/ OfKind(Range(queue'), k) = OfKind(arrived', k)
                \/ Cardinality(OfKind(Range(queue'), k)) = Limit(k)
  <2> DEFINE waiting == OfKind(Range(queue), k)
             since == OfKind(arrived, k)
  <2>0. /\ waiting \subseteq since
        /\ \A e \in waiting, f \in since \ waiting : f.n < e.n
        /\ waiting = since \/ Cardinality(waiting) = Limit(k)
        /\ Cardinality(waiting) <= Limit(k) /\ Cardinality(waiting) \in Nat
        /\ IsFiniteSet(waiting) /\ Limit(k) \in Nat \ {0}
    <3>1. Limit(k) \in Nat \ {0}
      BY LimitsAssumption DEF Limit
    <3> QED BY <1>0, <1>7, <3>1, FS_CardinalityType DEF KindsIndependent, Limited
  <2>1. CASE k # meta
    <3>1. OfKind(arrived', k) = since
      BY <1>1, <1>2, <2>1 DEF OfKind
    <3>2. OfKind(Range(queue'), k) = waiting
      BY <1>1, <1>2, <1>4, <2>1 DEF OfKind
    <3> QED BY <2>0, <3>1, <3>2
  <2>2. CASE k = meta /\ ~Full(queue, meta)
    <3>1. OfKind(arrived', k) = since \cup {entry}
      BY <1>1, <1>2, <2>2 DEF OfKind
    <3>2. OfKind(Range(queue'), k) = waiting \cup {entry}
      BY <1>1, <1>2, <1>4, <2>2 DEF OfKind
    <3>3. Cardinality(waiting) < Limit(k)
      BY <2>0, <2>2 DEF Full
    <3>4. entry \notin waiting
      BY <1>2, <2>0 DEF OfKind
    <3>5. Cardinality(waiting \cup {entry}) = Cardinality(waiting) + 1
      BY <2>0, <3>4, FS_AddElement
    <3>6. waiting = since
      BY <2>0, <3>3
    <3> HIDE DEF waiting, since
    <3> QED BY <2>0, <3>1, <3>2, <3>3, <3>5, <3>6
  <2>3. CASE k = meta /\ Full(queue, meta)
    <3>1. PICK old \in waiting :
             /\ \A e \in waiting \ {old} : old.n < e.n
             /\ Range(queue') = (Range(queue) \ {old}) \cup {entry}
      BY <1>1, <1>2, <1>4, <2>3
    <3>2. OfKind(arrived', k) = since \cup {entry}
      BY <1>1, <1>2, <2>3 DEF OfKind
    <3>3. OfKind(Range(queue'), k) = (waiting \ {old}) \cup {entry}
      BY <1>2, <2>3, <3>1 DEF OfKind
    <3>4. Cardinality(waiting) = Limit(k)
      BY <2>0, <2>3 DEF Full
    <3>5. entry \notin waiting \ {old}
      BY <1>2, <2>0 DEF OfKind
    <3>6. Cardinality((waiting \ {old}) \cup {entry}) = Limit(k)
      <4>1. IsFiniteSet(waiting \ {old}) /\ Cardinality(waiting \ {old}) = Cardinality(waiting) - 1
        BY <2>0, <3>1, FS_RemoveElement
      <4>2. Cardinality((waiting \ {old}) \cup {entry}) = Cardinality(waiting \ {old}) + 1
        BY <3>5, <4>1, FS_AddElement
      <4> QED BY <2>0, <3>4, <4>1, <4>2
    <3>7. \A f \in since : f.n < entry.n
      BY <1>3 DEF OfKind
    <3> HIDE DEF waiting, since
    <3>8. ASSUME NEW e \in (waiting \ {old}) \cup {entry},
                 NEW f \in (since \cup {entry}) \ ((waiting \ {old}) \cup {entry})
          PROVE  f.n < e.n
      <4>1. f \in since \ waiting \/ f = old
        BY <3>1
      <4>2. CASE e = entry
        BY <2>0, <3>1, <3>7, <4>1, <4>2
      <4>3. CASE e \in waiting \ {old}
        BY <2>0, <3>1, <4>1, <4>3
      <4> QED BY <4>2, <4>3
    <3>9. Limit(k) <= Limit(k)
      BY <2>0
    <3> QED BY <3>2, <3>3, <3>6, <3>8, <3>9
  <2> QED BY <2>1, <2>2, <2>3
<1>9. \A k \in BOOLEAN : OfKind(Range(queue'), k) \subseteq OfKind(arrived', k)
  BY <1>6 DEF Numbered, OfKind
<1> QED BY <1>6, <1>8, <1>9 DEF QueueInv, Limited, KindsIndependent, Limit

\* Dispatching the oldest entry of all leaves the latest of either kind.
LEMMA DispatchKeeps == ASSUME QueueInv, Dispatch PROVE QueueInv'
<1> DEFINE head == Head(queue)
<1>0. Numbered /\ Limited /\ KindsIndependent
  BY DEF QueueInv
<1>1. /\ queue # <<>> /\ queue' = Tail(queue)
      /\ last' = [l \in Listeners |-> IF l \in Receivers(head) THEN head.n ELSE last[l]]
      /\ arrived' = {e \in arrived : e.n > head.n}
      /\ received' = received
  BY DEF Dispatch, loopFrame
<1>2. /\ head \in Range(queue)
      /\ Tail(queue) \in Seq(AllEntries)
      /\ Increasing(Tail(queue))
      /\ Range(Tail(queue)) = Range(queue) \ {head}
      /\ \A e \in Range(Tail(queue)) : head.n < e.n
  BY <1>0, <1>1, Dequeued DEF Numbered
<1> HIDE DEF head
<1>3. head \in arrived /\ head.n \in Nat \ {0} /\ head.n <= received
  BY <1>0, <1>2 DEF Numbered, AllEntries
<1>4. Numbered'
  <2>1. received' \in Nat /\ queue' \in Seq(AllEntries) /\ Increasing(queue)'
    BY <1>0, <1>1, <1>2 DEF Numbered, Increasing
  <2>2. arrived' \subseteq AllEntries /\ \A e \in arrived' : e.n <= received'
    BY <1>0, <1>1 DEF Numbered
  <2>3. Range(queue') \subseteq arrived'
    BY <1>0, <1>1, <1>2 DEF Numbered, AllEntries
  <2>4. last' \in [Listeners -> 0..received']
    BY <1>0, <1>1, <1>3 DEF Numbered
  <2>5. \A l \in Listeners : \A e \in Range(queue') : last'[l] < e.n
    BY <1>0, <1>1, <1>2 DEF Numbered
  <2> QED BY <2>1, <2>2, <2>3, <2>4, <2>5 DEF Numbered
<1>5. ASSUME NEW k \in BOOLEAN
      PROVE  /\ Cardinality(OfKind(Range(queue'), k)) <= Limit(k)
             /\ OfKind(Range(queue'), k) \subseteq OfKind(arrived', k)
             /\ \A e \in OfKind(Range(queue'), k),
                   f \in OfKind(arrived', k) \ OfKind(Range(queue'), k) : f.n < e.n
             /\ \/ OfKind(Range(queue'), k) = OfKind(arrived', k)
                \/ Cardinality(OfKind(Range(queue'), k)) = Limit(k)
  <2> DEFINE waiting == OfKind(Range(queue), k)
             since == OfKind(arrived, k)
  <2>0. /\ waiting \subseteq since
        /\ \A e \in waiting, f \in since \ waiting : f.n < e.n
        /\ waiting = since \/ Cardinality(waiting) = Limit(k)
        /\ Cardinality(waiting) <= Limit(k) /\ Cardinality(waiting) \in Nat
        /\ IsFiniteSet(waiting) /\ Limit(k) \in Nat \ {0}
    <3>1. Limit(k) \in Nat \ {0}
      BY LimitsAssumption DEF Limit
    <3>2. IsFiniteSet(waiting)
      BY <1>0, RangeFinite, FS_Subset DEF OfKind, Numbered
    <3> QED BY <1>0, <3>1, <3>2, FS_CardinalityType DEF KindsIndependent, Limited
  <2>1. OfKind(Range(queue'), k) = waiting \ {head}
    BY <1>1, <1>2 DEF OfKind
  <2>2. OfKind(arrived', k) = {e \in since : e.n > head.n}
    BY <1>1 DEF OfKind
  <2>3. \A e \in since : e.n \in Nat
    BY <1>0 DEF OfKind, Numbered, AllEntries
  <2>4. \A e \in waiting \ {head} : e.n > head.n
    BY <1>1, <1>2 DEF OfKind
  <2>5. head \in waiting \/ head.meta # k
    BY <1>2 DEF OfKind
  <2> HIDE DEF waiting, since
  <2>6. waiting \ {head} \subseteq {e \in since : e.n > head.n}
    BY <2>0, <2>4
  <2>7. ASSUME NEW e \in waiting \ {head}, NEW f \in {x \in since : x.n > head.n} \ (waiting \ {head})
        PROVE  f.n < e.n
    <3>1. f # head
      BY <1>3
    <3> QED BY <2>0, <3>1
  <2>8. CASE head \in waiting
    <3>1. Cardinality(waiting \ {head}) = Cardinality(waiting) - 1
      BY <2>0, <2>8, FS_RemoveElement
    <3>2. {x \in since : x.n > head.n} \subseteq waiting \ {head}
      <4> SUFFICES ASSUME NEW f \in since, f.n > head.n PROVE f \in waiting /\ f # head
        OBVIOUS
      <4>1. f \notin waiting => f.n < head.n
        BY <2>0, <2>8
      <4> QED BY <1>3, <2>3, <4>1
    <3>3. Cardinality(waiting \ {head}) <= Limit(k)
      BY <2>0, <3>1
    <3> QED BY <2>1, <2>2, <2>6, <2>7, <3>2, <3>3
  <2>9. CASE head \notin waiting
    <3>1. waiting \ {head} = waiting
      BY <2>9
    <3>2. waiting = since => waiting = {e \in since : e.n > head.n}
      BY <2>6, <3>1
    <3> QED BY <2>0, <2>1, <2>2, <2>6, <2>7, <3>1, <3>2
  <2> QED BY <2>8, <2>9
<1> QED BY <1>4, <1>5 DEF QueueInv, Limited, KindsIndependent, Limit

-----------------------------------------------------------------------------
(* Theorems. *)

\* The inductive invariant holds in every state of every run.
THEOREM InvAlways == UpdatesSpec => []IInv
<1>1. UpdatesInit => IInv
  <2> SUFFICES ASSUME UpdatesInit PROVE IInv
    OBVIOUS
  <2>1. Control /\ LockPlaces
    BY DEF UpdatesInit, Control, LockPlaces, Places
  <2>2. Found /\ PutAnswered
    BY DEF UpdatesInit, Found, PutAnswered, NoMessage
  <2> QED BY <2>1, <2>2 DEF IInv
<1>2. IInv /\ [UpdatesNext]_updateVars => IInv'
  BY ControlStep, LockStep, FoundStep, AnsweredStep DEF IInv
<1> QED BY <1>1, <1>2, PTL DEF UpdatesSpec

\* The queue starts empty and keeps its invariant.
LEMMA QueueInit == UpdatesInit => QueueInv
<1> SUFFICES ASSUME UpdatesInit PROVE QueueInv
  OBVIOUS
<1>1. queue = <<>> /\ arrived = {} /\ received = 0 /\ last = [l \in Listeners |-> 0]
  BY DEF UpdatesInit
<1>2. Range(queue) = {} /\ queue \in Seq(AllEntries)
  BY <1>1, EmptySeq DEF Range
<1>3. Numbered
  BY <1>1, <1>2 DEF Numbered, Increasing
<1>4. \A k \in BOOLEAN : OfKind(Range(queue), k) = {} /\ OfKind(arrived, k) = {}
  BY <1>1, <1>2 DEF OfKind
<1>5. \A k \in BOOLEAN : Cardinality({}) <= Limit(k)
  BY FS_EmptySet, LimitsAssumption DEF Limit
<1> QED BY <1>3, <1>4, <1>5 DEF QueueInv, Limited, KindsIndependent

LEMMA QueueStep == IInv /\ QueueInv /\ [UpdatesNext]_updateVars => QueueInv'
<1> SUFFICES ASSUME IInv, QueueInv, [UpdatesNext]_updateVars PROVE QueueInv'
  OBVIOUS
<1>1. CASE UNCHANGED <<queue, received, arrived, last>>
  BY <1>1 DEF QueueInv, Numbered, Limited, KindsIndependent, Increasing
<1>2. CASE Dispatch
  BY <1>2, DispatchKeeps
<1>3. ASSUME NEW meta \in BOOLEAN, NEW path \in Paths, NewEntry(meta, path), last' = last
      PROVE  QueueInv'
  BY <1>3, NewEntryKeeps
<1> QED BY <1>1, <1>2, <1>3, QueueMoves DEF IInv

\* The queue holds the latest entries of each kind, numbered in the order they
\* came and within the limits (enqueue_received_update).
THEOREM QueueAlways == UpdatesSpec => []QueueInv
<1> QED BY QueueInit, QueueStep, InvAlways, PTL DEF UpdatesSpec

\* Every variable has its type and the queue its limits.
THEOREM TypeCorrect == UpdatesSpec => []UpdatesTypeOK
<1>1. ASSUME Numbered PROVE queue \in Seq(Entries) /\ arrived \subseteq Entries
  <2>1. \A e \in arrived : e \in AllEntries /\ e.n <= received /\ received \in Nat
    BY <1>1 DEF Numbered
  <2>2. arrived \subseteq Entries
    BY <2>1 DEF AllEntries, Entries
  <2>3. queue \in Seq(Range(queue)) /\ Range(queue) \subseteq Entries
    BY <1>1, <2>2, SeqOfRange DEF Numbered
  <2> QED BY <2>2, <2>3, SeqMonotonic
<1>2. IInv /\ QueueInv => UpdatesTypeOK
  BY <1>1 DEF IInv, Control, Places, QueueInv, Numbered, Limited, UpdatesTypeOK
<1> QED BY <1>2, InvAlways, QueueAlways, PTL

\* Values and metadata do not evict each other: what waits of each kind are
\* the latest entries of that kind, up to its limit (enqueue_received_update).
THEOREM KindsKept == UpdatesSpec => []KindsIndependent
<1>1. QueueInv => KindsIndependent
  BY DEF QueueInv
<1> QED BY <1>1, QueueAlways, PTL

\* No listener goes back in time (process_received_updates).
THEOREM ListenersGoForward == UpdatesSpec => NeverOlder
<1>1. ASSUME IInv, QueueInv, [UpdatesNext]_updateVars
      PROVE  [\A l \in Listeners : last'[l] >= last[l]]_updateVars
  <2>0. /\ last \in [Listeners -> 0..received] /\ received \in Nat
        /\ queue \in Seq(AllEntries) /\ Increasing(queue)
        /\ \A l \in Listeners : \A e \in Range(queue) : last[l] < e.n
    BY <1>1 DEF QueueInv, Numbered
  <2>1. CASE last' = last
    BY <2>0, <2>1
  <2>2. CASE Dispatch
    <3>1. last' = [l \in Listeners |->
                     IF l \in Receivers(Head(queue)) THEN Head(queue).n ELSE last[l]]
      BY <2>2 DEF Dispatch
    <3>2. Head(queue) \in Range(queue)
      BY <2>0, <2>2, Dequeued DEF Dispatch
    <3>3. Head(queue).n \in Nat
      <4>1. Head(queue) \in AllEntries
        BY <2>0, <3>2, RangeOfSeq
      <4> QED BY <4>1 DEF AllEntries
    <3> QED BY <2>0, <3>1, <3>2, <3>3
  <2> QED BY <1>1, <2>1, <2>2, QueueMoves DEF IInv
<1> QED BY <1>1, InvAlways, QueueAlways, PTL DEF UpdatesSpec, NeverOlder

\* The two tasks never hold one semaphore each and wait for the other's
\* (process_received_updates, on_receive_put).
THEOREM NoCircularWait == UpdatesSpec => []~CircularWait
<1>1. IInv => ~CircularWait
  BY DEF IInv, Control, LockPlaces, CircularWait
<1> QED BY <1>1, InvAlways, PTL

\* A PUT is COMPLETED if and only if each of its paths has a listener
\* (on_receive_put).
THEOREM PutsAnswered == UpdatesSpec => []PutAnswered
<1>1. IInv => PutAnswered
  BY DEF IInv
<1> QED BY <1>1, InvAlways, PTL
=============================================================================
