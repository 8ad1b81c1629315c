-------------------------- MODULE StoreAndLog_proofs --------------------------
(***************************************************************************)
(* Proofs about what a device keeps: about ConfigStore for every set of    *)
(* savers and of configurations, and about LogBuffer for every size of the *)
(* buffer and of its queue, every age and any number of lines and of       *)
(* restarts.                                                               *)
(***************************************************************************)
EXTENDS ConfigStore, LogBuffer, FiniteSetTheorems, TLAPS

-----------------------------------------------------------------------------
(* What a restart would load. *)

\* find_config_file only finds files that are there.
LEMMA FoundIsThere ==
    Found \subseteq Names /\ \A n \in Found : disk[n] # Missing
BY DEF Found, Names

Disks == [Names -> Configs \cup {Missing, Broken}]

\* load() leaves a configuration in the object, whatever is on the disk.
LEMMA LoadedType == disk \in Disks => Loaded \in Configs
<1>1. CASE \E n \in Found : disk[n] # Broken
  <2>1. SUFFICES ASSUME disk \in Disks PROVE Loaded \in Configs
    OBVIOUS
  <2>2. PICK n \in Found : disk[n] # Broken
    BY <1>1
  <2>3. n \in Names /\ disk[n] # Missing
    BY FoundIsThere
  <2>4. disk[n] \in Configs
    BY <2>1, <2>2, <2>3 DEF Disks
  <2>5. \E v \in Configs : \E m \in Found : disk[m] = v
    BY <2>4
  <2> QED BY <1>1, <2>5 DEF Loaded
<1>2. CASE ~\E n \in Found : disk[n] # Broken
  BY <1>2, ConfigAssumption DEF Loaded
<1> QED BY <1>1, <1>2

\* The file with the present name hides the ones of earlier versions.
LEMMA HashLoaded ==
    ASSUME NEW v \in Configs, disk'["hash"] = v
    PROVE  Loaded' = v
<1>1. v # Missing /\ v # Broken
  BY ContentAssumption
<1>2. Found' = {"hash"}
  BY <1>1 DEF Found
<1>3. \A w \in Configs : (\E n \in Found' : disk'[n] = w) <=> w = v
  BY <1>2
<1>4. \E n \in Found' : disk'[n] # Broken
  BY <1>1, <1>2
<1> QED BY <1>3, <1>4 DEF Loaded

\* A formatted file system gives the constructor's values.
LEMMA FormattedLoaded ==
    ASSUME disk' = [n \in Names |-> Missing]
    PROVE  Loaded' = Default
<1>1. Found' = {}
  BY DEF Found, Names
<1> QED BY <1>1 DEF Loaded

\* Without a change on the disk a restart loads what it did.
LEMMA SameLoaded == disk' = disk => Loaded' = Loaded
BY DEF Loaded, Found

-----------------------------------------------------------------------------
(* The type invariant. *)

LEMMA StoreInitType == StoreInit => StoreTypeOK
<1> SUFFICES ASSUME StoreInit PROVE StoreTypeOK
  OBVIOUS
<1>1. disk \in Disks
  BY DEF StoreInit, Disks
<1>2. {config, lastSaved} \subseteq Configs
  BY <1>1, LoadedType DEF StoreInit
<1>3. saving \in [Savers -> {"idle", "find", "encode", "open", "write"}]
  BY DEF StoreInit
<1>4. doc \in [Savers -> Configs]
  BY ConfigAssumption DEF StoreInit
<1>5. changes \in 0..MaxChanges
  <2>1. changes = 0
    BY DEF StoreInit
  <2> QED BY <2>1, ConfigAssumption
<1>6. crowded \in BOOLEAN /\ atRisk \in BOOLEAN
  BY DEF StoreInit
<1> QED BY <1>1, <1>2, <1>3, <1>4, <1>5, <1>6 DEF StoreTypeOK, Disks

\* One step per operation of save(), and per way a device starts anew.
LEMMA StoreNextType == StoreTypeOK /\ [StoreNext]_storeVars => StoreTypeOK'
<1> SUFFICES ASSUME StoreTypeOK, [StoreNext]_storeVars PROVE StoreTypeOK'
  OBVIOUS
<1> USE DEF StoreTypeOK
<1>1. ASSUME NEW s \in Savers, Change(s) PROVE StoreTypeOK'
  BY <1>1, ConfigAssumption DEF Change
<1>2. ASSUME NEW s \in Savers, RemoveOld(s) PROVE StoreTypeOK'
  <2>1. disk' \in Disks
    BY <1>2 DEF RemoveOld, Disks
  <2>2. crowded' \in BOOLEAN
    BY <1>2, Zenon DEF RemoveOld, Others, InSave
  <2> QED BY <1>2, <2>1, <2>2 DEF RemoveOld, Disks
<1>3. ASSUME NEW s \in Savers, Encode(s) PROVE StoreTypeOK'
  BY <1>3 DEF Encode
<1>4. ASSUME NEW s \in Savers, EncodeFails(s) PROVE StoreTypeOK'
  <2>1. crowded' \in BOOLEAN
    BY <1>4, Zenon DEF EncodeFails, Leaves, Others, InSave
  <2> QED BY <1>4, <2>1 DEF EncodeFails
<1>5. ASSUME NEW s \in Savers, Open(s) PROVE StoreTypeOK'
  BY <1>5 DEF Open, Names
<1>6. ASSUME NEW s \in Savers, OpenFails(s) PROVE StoreTypeOK'
  <2>1. crowded' \in BOOLEAN
    BY <1>6, Zenon DEF OpenFails, Leaves, Others, InSave
  <2> QED BY <1>6, <2>1 DEF OpenFails
<1>7. ASSUME NEW s \in Savers, Write(s) PROVE StoreTypeOK'
  <2>1. crowded' \in BOOLEAN
    BY <1>7, Zenon DEF Write, Leaves, Others, InSave
  <2>2. disk' \in Disks /\ lastSaved' \in Configs /\ atRisk' \in BOOLEAN
    <3>1. CASE disk' = Written(s) /\ lastSaved' = doc[s] /\ atRisk' = FALSE
      BY <3>1 DEF Written, Disks, Names
    <3>2. CASE /\ \E content \in {Broken, doc[s], disk["hash"]} :
                    disk' = [disk EXCEPT !["hash"] = content]
               /\ UNCHANGED <<lastSaved, atRisk>>
      BY <3>2 DEF Disks, Names
    <3>3. (\E content \in {Broken} \cup (IF crowded THEN {doc[s], disk["hash"]} ELSE {}) :
             disk' = [disk EXCEPT !["hash"] = content])
          => \E content \in {Broken, doc[s], disk["hash"]} :
               disk' = [disk EXCEPT !["hash"] = content]
      OBVIOUS
    <3> QED BY <1>7, <3>1, <3>2, <3>3 DEF Write
  <2> QED BY <1>7, <2>1, <2>2 DEF Write, Disks
<1>8. CASE Restart
  <2>1. Loaded \in Configs
    BY LoadedType DEF Disks
  <2>2. disk' \in Disks
    BY <1>8 DEF Restart, Disks
  <2> QED BY <1>8, <2>1, <2>2, ConfigAssumption DEF Restart, Disks
<1>9. CASE Reset
  <2>1. InSave(Savers) \in BOOLEAN
    BY DEF InSave
  <2>2. crowded' \in BOOLEAN /\ atRisk' \in BOOLEAN
    BY <1>9, <2>1, Zenon DEF Reset
  <2> QED BY <1>9, <2>2, ConfigAssumption DEF Reset
<1>10. CASE UNCHANGED storeVars
  BY <1>10 DEF storeVars
<1> QED
  BY <1>1, <1>2, <1>3, <1>4, <1>5, <1>6, <1>7, <1>8, <1>9, <1>10
  DEF StoreNext, SaveStep

\* Whatever is interrupted, fails or overlaps, the object holds a configuration
\* and every file one, or something that does not parse.
THEOREM StoreTypeSafety == StoreSpec => []StoreTypeOK
BY StoreInitType, StoreNextType, PTL DEF StoreSpec

-----------------------------------------------------------------------------
(* What was saved is what a restart loads.                                  *)

\* While no save is at risk nobody is in save(), so that nobody can touch the
\* disk without putting it at risk first.
Quiet == ~atRisk => ~InSave(Savers)

StoreInv == Quiet /\ ConfigSurvives

LEMMA StoreInitInv == StoreInit => StoreInv
BY DEF StoreInit, StoreInv, Quiet, ConfigSurvives, InSave

LEMMA StoreNextInv ==
    StoreTypeOK /\ StoreInv /\ [StoreNext]_storeVars => StoreInv'
<1> SUFFICES ASSUME StoreTypeOK, StoreInv, [StoreNext]_storeVars PROVE StoreInv'
  OBVIOUS
<1> USE DEF StoreInv, Quiet, ConfigSurvives
<1>1. ASSUME NEW s \in Savers, Change(s) PROVE StoreInv'
  <2>1. Loaded' = Loaded
    BY <1>1, SameLoaded DEF Change
  <2>2. InSave(Savers)' => InSave(Savers)
    BY <1>1 DEF Change, InSave, StoreTypeOK
  <2> QED BY <1>1, <2>1, <2>2 DEF Change
<1>2. ASSUME NEW s \in Savers, RemoveOld(s) PROVE StoreInv'
  BY <1>2 DEF RemoveOld
<1>3. ASSUME NEW s \in Savers, Encode(s) \/ EncodeFails(s) \/ Open(s) \/ OpenFails(s)
      PROVE  StoreInv'
  <2>1. atRisk
    BY <1>3 DEF Encode, EncodeFails, Open, OpenFails, InSave
  <2> QED BY <1>3, <2>1 DEF Encode, EncodeFails, Open, OpenFails
<1>4. ASSUME NEW s \in Savers, Write(s) PROVE StoreInv'
  <2>1. atRisk
    BY <1>4 DEF Write, InSave
  <2>2. CASE ~Others(s) /\ disk' = Written(s) /\ lastSaved' = doc[s]
    <3>1. Loaded' = doc[s]
      <4>1. doc[s] \in Configs /\ disk'["hash"] = doc[s]
        BY <2>2 DEF Written, StoreTypeOK, Names
      <4> QED BY <4>1, HashLoaded
    <3>2. ~InSave(Savers)'
      BY <1>4, <2>2 DEF Write, InSave, Others, StoreTypeOK
    <3> QED BY <2>2, <3>1, <3>2
  <2>3. CASE UNCHANGED <<lastSaved, atRisk>>
    BY <2>1, <2>3
  <2> QED BY <1>4, <2>2, <2>3 DEF Write
<1>5. CASE Restart
  <2>1. ~InSave(Savers)'
    BY <1>5 DEF Restart, InSave
  <2>2. Loaded' = config'
    BY <1>5, SameLoaded, FormattedLoaded DEF Restart
  <2> QED BY <1>5, <2>1, <2>2 DEF Restart
<1>6. CASE Reset
  <2>1. Loaded' = Default
    BY <1>6, FormattedLoaded DEF Reset
  <2>2. InSave(Savers)' <=> InSave(Savers)
    BY <1>6 DEF Reset, InSave
  <2> QED BY <1>6, <2>1, <2>2 DEF Reset
<1>7. CASE UNCHANGED storeVars
  BY <1>7, SameLoaded DEF storeVars, InSave
<1> QED
  BY <1>1, <1>2, <1>3, <1>4, <1>5, <1>6, <1>7 DEF StoreNext, SaveStep

\* Unless a save was interrupted, failed or was disturbed by another since, a
\* restart loads what the last save wrote, whatever files an earlier version left
\* and however many tasks save.
THEOREM SavedIsLoaded == StoreSpec => []ConfigSurvives
<1>1. StoreInit => StoreTypeOK /\ StoreInv
  BY StoreInitType, StoreInitInv
<1>2. StoreTypeOK /\ StoreInv /\ [StoreNext]_storeVars => (StoreTypeOK /\ StoreInv)'
  BY StoreNextType, StoreNextInv
<1>3. StoreInv => ConfigSurvives
  BY DEF StoreInv
<1> QED BY <1>1, <1>2, <1>3, PTL DEF StoreSpec

Records == [seq : 0..MaxSeq, at : 0..MaxTime]

-----------------------------------------------------------------------------
(* Lemmas about the operators on the records.                              *)

LEMMA BoundsType ==
    /\ MaxLines \in Nat \ {0} /\ Depth \in Nat \ {0}
    /\ MaxLineAge \in Nat /\ MaxSeq \in Nat /\ MaxTime \in Nat /\ MaxSession \in Nat
BY LogAssumption

\* No more lines are dropped than there are.
LEMMA DroppedType ==
    ASSUME records \in Seq(Records), NEW t \in Int
    PROVE  Cardinality(Dropped(t)) \in 0..Len(records)
<1>1. Len(records) \in Nat /\ DOMAIN records = 1..Len(records)
  OBVIOUS
<1>2. IsFiniteSet(1..Len(records)) /\ Cardinality(1..Len(records)) = Len(records)
  BY <1>1, FS_Interval
<1>3. Dropped(t) \subseteq 1..Len(records)
  BY <1>1 DEF Dropped
<1>4. /\ IsFiniteSet(Dropped(t))
      /\ Cardinality(Dropped(t)) <= Cardinality(1..Len(records))
  BY <1>2, <1>3, FS_Subset
<1>5. Cardinality(Dropped(t)) \in Nat
  BY <1>4, FS_CardinalityType
<1> QED BY <1>1, <1>2, <1>4, <1>5

\* What is kept are the last records, in their order.
LEMMA PrunedKeeps ==
    ASSUME records \in Seq(Records), NEW t \in Int
    PROVE  /\ Pruned(t) \in Seq(Records)
           /\ Len(Pruned(t)) <= Len(records)
           /\ \A i \in 1..Len(Pruned(t)) :
                Pruned(t)[i] = records[i + Len(records) - Len(Pruned(t))]
<1> DEFINE n == Len(records)
           k == Cardinality(Dropped(t))
           p == SubSeq(records, k + 1, n)
<1>1. n \in Nat /\ k \in 0..n
  BY DroppedType
<1> HIDE DEF k
<1>2. p \in Seq(Records) /\ Len(p) = n - k
  BY <1>1
<1>3. \A i \in 1..n - k : p[i] = records[i + k]
  BY <1>1
<1>4. Pruned(t) = p
  BY DEF Pruned, k
<1> QED BY <1>1, <1>2, <1>3, <1>4

\* The records are numbered without a hole, and the last is the last numbered.
Numbered(s, last) ==
    Len(s) <= last /\ \A i \in 1..Len(s) : s[i].seq = last - Len(s) + i - 1

LEMMA PrunedNumbered ==
    ASSUME records \in Seq(Records), nextSeq \in Nat, Numbered(records, nextSeq),
           NEW t \in Int
    PROVE  Numbered(Pruned(t), nextSeq)
<1> DEFINE p == Pruned(t)
<1>1. /\ p \in Seq(Records) /\ Len(p) <= Len(records)
      /\ \A i \in 1..Len(p) : p[i] = records[i + Len(records) - Len(p)]
  BY PrunedKeeps
<1> HIDE DEF p
<1>2. Len(p) \in Nat /\ Len(records) \in Nat /\ Len(records) <= nextSeq
  BY <1>1 DEF Numbered
<1>3. ASSUME NEW i \in 1..Len(p)
      PROVE  p[i].seq = nextSeq - Len(p) + i - 1
  <2>1. i + Len(records) - Len(p) \in 1..Len(records)
    BY <1>1, <1>2, <1>3
  <2>2. records[i + Len(records) - Len(p)].seq
            = nextSeq - Len(records) + (i + Len(records) - Len(p)) - 1
    BY <2>1 DEF Numbered
  <2> QED BY <1>1, <1>2, <1>3, <2>2
<1>4. Numbered(p, nextSeq)
  BY <1>1, <1>2, <1>3 DEF Numbered
<1> QED BY <1>4 DEF p

\* A new line is numbered after the others, and the oldest of a full buffer goes.
LEMMA TrimmedNumbered ==
    ASSUME NEW p \in Seq(Records), Len(p) <= MaxLines, nextSeq \in Nat,
           nextSeq < MaxSeq, Numbered(p, nextSeq), NEW r \in Records,
           r.seq = nextSeq
    PROVE  /\ Trimmed(Append(p, r)) \in Seq(Records)
           /\ Len(Trimmed(Append(p, r))) <= MaxLines
           /\ Numbered(Trimmed(Append(p, r)), nextSeq + 1)
<1> DEFINE q == Append(p, r)
<1>1. q \in Seq(Records) /\ Len(q) = Len(p) + 1 /\ Len(p) \in Nat
  OBVIOUS
<1>2. \A i \in 1..Len(p) : q[i] = p[i]
  OBVIOUS
<1>3. q[Len(p) + 1] = r
  OBVIOUS
<1> HIDE DEF q
<1>4. Numbered(q, nextSeq + 1)
  <2>1. ASSUME NEW i \in 1..Len(q)
        PROVE  q[i].seq = (nextSeq + 1) - Len(q) + i - 1
    <3>1. CASE i = Len(p) + 1
      BY <1>1, <1>3, <3>1
    <3>2. CASE i # Len(p) + 1
      <4>1. i \in 1..Len(p)
        BY <1>1, <2>1, <3>2
      <4>2. p[i].seq = nextSeq - Len(p) + i - 1
        BY <4>1 DEF Numbered
      <4> QED BY <1>1, <1>2, <4>1, <4>2
    <3> QED BY <3>1, <3>2
  <2>2. Len(q) <= nextSeq + 1
    BY <1>1 DEF Numbered
  <2> QED BY <2>1, <2>2 DEF Numbered
<1>5. CASE Len(q) > MaxLines
  <2> DEFINE t == Tail(q)
  <2>1. t \in Seq(Records) /\ Len(t) = Len(q) - 1
    BY <1>1
  <2>2. \A i \in 1..Len(t) : t[i] = q[i + 1]
    BY <1>1
  <2>3. Trimmed(q) = t
    BY <1>5 DEF Trimmed
  <2> HIDE DEF t
  <2>4. ASSUME NEW i \in 1..Len(t)
        PROVE  t[i].seq = (nextSeq + 1) - Len(t) + i - 1
    <3>1. i + 1 \in 1..Len(q)
      BY <1>1, <2>1
    <3>2. q[i + 1].seq = (nextSeq + 1) - Len(q) + (i + 1) - 1
      BY <1>4, <3>1 DEF Numbered
    <3> QED BY <1>1, <2>1, <2>2, <3>2
  <2>5. Numbered(t, nextSeq + 1)
    BY <1>1, <1>4, <2>1, <2>4 DEF Numbered
  <2> QED BY <1>1, <2>1, <2>3, <2>5, BoundsType DEF q
<1>6. CASE ~(Len(q) > MaxLines)
  BY <1>1, <1>4, <1>6, BoundsType DEF Trimmed, q
<1> QED BY <1>5, <1>6

-----------------------------------------------------------------------------
(* The type invariant. *)

Answers ==
    [session : 0..MaxSession, next : 0..MaxSeq, gap : BOOLEAN,
     lines : SUBSET (0..MaxSeq)]

LEMMA LogInitType == LogInit => LogTypeOK
<1> SUFFICES ASSUME LogInit PROVE LogTypeOK
  OBVIOUS
<1> USE BoundsType
<1>1. /\ session \in 0..MaxSession
      /\ captured \in Seq(0..MaxTime) /\ Len(captured) <= Depth
      /\ records \in Seq(Records) /\ Len(records) <= MaxLines
      /\ nextSeq \in 0..MaxSeq /\ time \in 0..MaxTime
  BY DEF LogInit
<1>2. /\ cursor \in Cursors /\ known \in 0..MaxSession \cup {NoCursor}
      /\ request = "none" /\ gapNotice \in BOOLEAN
      /\ {read, missed} \subseteq SUBSET (0..MaxSeq)
  BY DEF LogInit, Cursors
<1> QED BY <1>1, <1>2 DEF LogTypeOK, Records

\* The device's own steps.
LEMMA DeviceType ==
    ASSUME LogTypeOK, Numbered(records, nextSeq),
           LogLine \/ Capture \/ Discard \/ Passes \/ Reboot
    PROVE  LogTypeOK' /\ Numbered(records, nextSeq)'
<1> USE BoundsType DEF LogTypeOK, Records
<1>1. CASE LogLine
  <2>1. PICK at \in {time, time - 1} \cap Nat : captured' = Append(captured, at)
    BY <1>1 DEF LogLine
  <2>2. at \in 0..MaxTime
    OBVIOUS
  <2>3. captured' \in Seq(0..MaxTime) /\ Len(captured') <= Depth
    BY <1>1, <2>1, <2>2 DEF LogLine
  <2> QED BY <1>1, <2>3 DEF LogLine, pageVars
<1>2. CASE Capture
  <2> DEFINE now == Head(captured)
             r == [seq |-> nextSeq, at |-> now]
             kept == Pruned(now)
  <2>1. /\ now \in 0..MaxTime /\ captured' \in Seq(0..MaxTime)
        /\ Len(captured') <= Depth
    BY <1>2 DEF Capture
  <2>2. r \in Records /\ r.seq = nextSeq /\ nextSeq \in Nat /\ nextSeq < MaxSeq
    BY <1>2, <2>1 DEF Capture
  <2>3. /\ kept \in Seq(Records) /\ Len(kept) <= MaxLines
        /\ Numbered(kept, nextSeq)
    <3>1. now \in Int /\ records \in Seq(Records) /\ nextSeq \in Nat
      BY <2>1
    <3> HIDE DEF now
    <3>2. kept \in Seq(Records) /\ Len(kept) <= Len(records)
      BY <3>1, PrunedKeeps
    <3>3. Numbered(kept, nextSeq)
      BY <3>1, PrunedNumbered
    <3>4. Len(kept) \in Nat /\ Len(records) \in Nat
      BY <3>1, <3>2
    <3> QED BY <3>2, <3>3, <3>4
  <2>4. records' = Trimmed(Append(kept, r)) /\ nextSeq' = nextSeq + 1
    BY <1>2 DEF Capture
  <2> HIDE DEF kept, r
  <2>5. /\ records' \in Seq(Records) /\ Len(records') <= MaxLines
        /\ Numbered(records', nextSeq')
    BY <2>2, <2>3, <2>4, TrimmedNumbered
  <2>6. nextSeq' \in 0..MaxSeq
    BY <2>2, <2>4
  <2> QED BY <1>2, <2>1, <2>5, <2>6 DEF Capture, pageVars
<1>3. CASE Discard
  <2>1. captured' \in Seq(0..MaxTime) /\ Len(captured') <= Depth
    BY <1>3 DEF Discard
  <2> QED BY <1>3, <2>1 DEF Discard, pageVars
<1>4. CASE Passes
  BY <1>4 DEF Passes, pageVars
<1>5. CASE Reboot
  BY <1>5 DEF Reboot, pageVars, Numbered
<1> QED BY <1>1, <1>2, <1>3, <1>4, <1>5

\* The answer the device gives to a request.
LEMMA ServeType ==
    ASSUME LogTypeOK, Numbered(records, nextSeq), Serve
    PROVE  LogTypeOK' /\ Numbered(records, nextSeq)'
<1> USE BoundsType
<1>1. /\ records' \in Seq(Records) /\ Len(records') <= MaxLines
      /\ Numbered(records', nextSeq)
  <2>1. records \in Seq(Records) /\ time \in Int /\ nextSeq \in Nat
    BY DEF LogTypeOK, Records
  <2>2. Pruned(time) \in Seq(Records) /\ Len(Pruned(time)) <= Len(records)
    BY <2>1, PrunedKeeps
  <2>3. Numbered(Pruned(time), nextSeq)
    BY <2>1, PrunedNumbered
  <2>4. Len(records) \in Nat /\ Len(Pruned(time)) \in Nat
    BY <2>1, <2>2
  <2> QED BY <2>2, <2>3, <2>4 DEF Serve, LogTypeOK
<1>2. \A r \in ToSet(records') : r \in Records
  BY <1>1 DEF ToSet
<1>3. answer'.lines \subseteq 0..MaxSeq
  BY <1>2 DEF Serve, Records
<1>4. (cursor # NoCursor /\ Evicted(records')) \in BOOLEAN
  BY DEF Evicted
<1>5. answer' \in Answers
  BY <1>3, <1>4 DEF Serve, Answers, LogTypeOK
<1> QED BY <1>1, <1>5 DEF Serve, LogTypeOK, Answers, Records

\* The steps of the page.
LEMMA PageType ==
    ASSUME LogTypeOK, Numbered(records, nextSeq),
           Poll \/ PollFails \/ SeeRestart \/ ShowLines \/ DismissGap
    PROVE  LogTypeOK' /\ Numbered(records, nextSeq)'
<1> USE BoundsType DEF LogTypeOK
<1>1. CASE Poll
  BY <1>1 DEF Poll, deviceVars
<1>2. CASE PollFails
  BY <1>2 DEF PollFails, deviceVars
<1>3. CASE SeeRestart
  <2>1. answer.session \in 0..MaxSession
    BY <1>3 DEF SeeRestart
  <2> QED BY <1>3, <2>1 DEF SeeRestart, ReadOf, Cursors, deviceVars
<1>4. CASE ShowLines
  <2>1. answer \in Answers
    BY <1>4 DEF ShowLines, Answers
  <2>2. /\ answer.session \in 0..MaxSession /\ answer.next \in 0..MaxSeq
        /\ answer.gap \in BOOLEAN /\ answer.lines \subseteq 0..MaxSeq
        /\ 0..answer.next - 1 \subseteq 0..MaxSeq
    BY <2>1 DEF Answers
  <2>3. read' \subseteq 0..MaxSeq /\ missed' \subseteq 0..MaxSeq
    BY <1>4, <2>2 DEF ShowLines, ReadOf
  <2>4. gapNotice' \in BOOLEAN
    BY <1>4, <2>2, Zenon DEF ShowLines
  <2> QED BY <1>4, <2>2, <2>3, <2>4 DEF ShowLines, Cursors, deviceVars
<1>5. CASE DismissGap
  BY <1>5 DEF DismissGap, deviceVars
<1> QED BY <1>1, <1>2, <1>3, <1>4, <1>5

LogTyped == LogTypeOK /\ Numbered(records, nextSeq)

LEMMA LogInitTyped == LogInit => LogTyped
BY LogInitType, BoundsType DEF LogInit, LogTyped, Numbered

LEMMA LogNextTyped == LogTyped /\ [LogNext]_logVars => LogTyped'
<1> SUFFICES ASSUME LogTyped, [LogNext]_logVars PROVE LogTyped'
  OBVIOUS
<1>1. CASE UNCHANGED logVars
  BY <1>1 DEF LogTyped, LogTypeOK, Numbered, logVars, deviceVars, pageVars
<1> QED BY <1>1, DeviceType, ServeType, PageType DEF LogTyped, LogNext

\* Nothing in the device or the page leaves its range, and the buffer never
\* holds more than it may.
THEOREM LogTypeSafety == LogSpec => []LogTypeOK
<1>1. LogTyped => LogTypeOK
  BY DEF LogTyped
<1> QED BY LogInitTyped, LogNextTyped, <1>1, PTL DEF LogSpec

-----------------------------------------------------------------------------
(* No line is passed over without a notice.                                 *)

\* An answer without a gap has every line from the cursor on.
AnswerWhole ==
    request = "answered" /\ cursor # NoCursor /\ ~answer.gap
        => cursor..answer.next - 1 \subseteq answer.lines

\* Every line before the cursor is read.
ReadWhole ==
    cursor # NoCursor => known # NoCursor /\ 0..cursor - 1 \subseteq read

LogInv == AnswerWhole /\ ReadWhole /\ NoSilentGap

LEMMA LogInitInv == LogInit => LogInv
BY DEF LogInit, LogInv, AnswerWhole, ReadWhole, NoSilentGap

\* What a snapshot leaves out of what was asked for was evicted, and it says so.
LEMMA ServeWhole ==
    ASSUME LogTyped, Serve
    PROVE  AnswerWhole'
<1> USE BoundsType
<1> SUFFICES ASSUME cursor # NoCursor, ~answer'.gap, NEW q \in cursor..nextSeq - 1
             PROVE  q \in answer'.lines
  BY DEF AnswerWhole, Serve
<1>1. /\ records' \in Seq(Records) /\ Numbered(records', nextSeq)
      /\ nextSeq \in Nat
  BY ServeType DEF LogTyped, LogTypeOK, Serve, Records
<1>2. cursor \in Nat
  BY DEF LogTyped, LogTypeOK, Cursors
<1>3. ~Evicted(records')
  BY DEF Serve
<1>4. Len(records') \in Nat
  BY <1>1
<1>5. Len(records') > 0 /\ records'[1].seq <= cursor
  <2>1. records' # <<>>
    BY <1>2, <1>1, <1>3 DEF Evicted
  <2>2. 1 \in 1..Len(records')
    BY <1>1, <1>4, <2>1
  <2>3. records'[1].seq = nextSeq - Len(records') + 1 - 1
    BY <1>1, <2>2 DEF Numbered
  <2> QED BY <1>1, <1>2, <1>3, <1>4, <2>1, <2>2, <2>3 DEF Evicted
<1> DEFINE i == q - (nextSeq - Len(records')) + 1
<1>6. records'[1].seq = nextSeq - Len(records')
  <2>1. 1 \in 1..Len(records')
    BY <1>4, <1>5
  <2>2. records'[1].seq = nextSeq - Len(records') + 1 - 1
    BY <1>1, <2>1 DEF Numbered
  <2> QED BY <1>1, <1>4, <2>2
<1>7. i \in 1..Len(records')
  BY <1>1, <1>2, <1>4, <1>5, <1>6
<1>8. records'[i].seq = q
  <2>1. records'[i].seq = nextSeq - Len(records') + i - 1
    BY <1>1, <1>7 DEF Numbered
  <2> QED BY <1>1, <1>2, <1>4, <2>1
<1>9. records'[i] \in ToSet(records')
  BY <1>1, <1>4, <1>7 DEF ToSet
<1>10. records'[i].seq >= cursor
  BY <1>2, <1>8
<1> QED BY <1>8, <1>9, <1>10 DEF Serve

LEMMA LogNextInv ==
    LogTyped /\ LogInv /\ [LogNext]_logVars => LogInv'
<1> SUFFICES ASSUME LogTyped, LogInv, [LogNext]_logVars PROVE LogInv'
  OBVIOUS
<1> USE DEF LogInv, NoSilentGap
<1>1. CASE LogLine \/ Capture \/ Discard \/ Passes \/ Reboot
  BY <1>1 DEF LogLine, Capture, Discard, Passes, Reboot, pageVars, AnswerWhole, ReadWhole
<1>2. CASE Serve
  BY <1>2, ServeWhole DEF Serve, ReadWhole
<1>3. CASE Poll \/ PollFails \/ DismissGap
  BY <1>3 DEF Poll, PollFails, DismissGap, AnswerWhole, ReadWhole
<1>4. CASE SeeRestart
  BY <1>4 DEF SeeRestart, AnswerWhole, ReadWhole
<1>5. CASE ShowLines
  <2>1. /\ request = "answered" /\ ~Restarted /\ request' = "none"
        /\ cursor' = answer.next /\ known' = answer.session
    BY <1>5 DEF ShowLines
  <2>2. answer \in Answers
    BY <2>1 DEF LogTyped, LogTypeOK, Answers
  <2>3. answer.next \in Nat /\ answer.session \in Nat
    BY <2>2, BoundsType DEF Answers
  <2> DEFINE all == 0..answer.next - 1
  <2>4. all \subseteq read'
    <3>1. CASE cursor = NoCursor \/ answer.gap
      BY <1>5, <3>1 DEF ShowLines
    <3>2. CASE cursor # NoCursor /\ ~answer.gap
      <4>1. known # NoCursor /\ 0..cursor - 1 \subseteq read
        BY <3>2 DEF ReadWhole
      <4>2. answer.session = known
        BY <2>1, <4>1 DEF Restarted
      <4>3. cursor..answer.next - 1 \subseteq answer.lines
        BY <2>1, <3>2 DEF AnswerWhole
      <4>4. read \cup answer.lines \subseteq read'
        BY <1>5, <4>2 DEF ShowLines, ReadOf
      <4>5. cursor \in Nat
        BY <3>2, BoundsType DEF LogTyped, LogTypeOK, Cursors
      <4>6. all \subseteq (0..cursor - 1) \cup (cursor..answer.next - 1)
        BY <2>3, <4>5
      <4> QED BY <4>1, <4>3, <4>4, <4>6
    <3> QED BY <3>1, <3>2
  <2>5. missed' = {}
    BY <1>5, <2>4 DEF ShowLines
  <2>6. known' # NoCursor
    BY <2>1, <2>3, LogAssumption
  <2> QED BY <2>1, <2>4, <2>5, <2>6 DEF AnswerWhole, ReadWhole
<1>6. CASE UNCHANGED logVars
  BY <1>6 DEF logVars, deviceVars, pageVars, AnswerWhole, ReadWhole
<1> QED BY <1>1, <1>2, <1>3, <1>4, <1>5, <1>6 DEF LogNext

\* Every line of the session that the page follows, up to its cursor, was shown
\* or announced by a notice, for any size of the buffer, any age of its lines,
\* any number of lost answers and of restarts.
THEOREM NothingPassedOver == LogSpec => []NoSilentGap
<1>1. LogInit => LogTyped /\ LogInv
  BY LogInitTyped, LogInitInv
<1>2. LogTyped /\ LogInv /\ [LogNext]_logVars => (LogTyped /\ LogInv)'
  BY LogNextTyped, LogNextInv
<1>3. LogInv => NoSilentGap
  BY DEF LogInv
<1> QED BY <1>1, <1>2, <1>3, PTL DEF LogSpec
=============================================================================
