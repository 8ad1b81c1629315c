---------------------------- MODULE MCUnits_proofs ----------------------------
(***************************************************************************)
(* Proofs about the status LED and the nonces, for every set of patterns   *)
(* and every delay of the event loop, for all ages, limits and tolerances; *)
(* and about the parts of MCUnits together.                                *)
(***************************************************************************)
EXTENDS MCUnits, Units_proofs, StoreAndLog_proofs

-----------------------------------------------------------------------------
(* The status LED. *)

\* Its fragments divide a pattern.
LEMMA FragmentsDivide ==
    ASSUME NEW p \in Patterns \cup {Blip}
    PROVE  /\ Len(p) \in Nat \ {0} /\ DOMAIN p = 1..Len(p)
           /\ Length(p) \in Nat /\ Length(p) + MaxGap < Wrap /\ Wrap \in Nat
           /\ MaxGap \in Nat \ {0}
           /\ Before(p, 1) = 0
           /\ \A i \in 1..Len(p) :
                /\ p[i] \in Nat \ {0} /\ Before(p, i) \in Nat
                /\ Before(p, i) + p[i] <= Length(p)
                /\ i # Len(p) => Before(p, i + 1) = Before(p, i) + p[i]
                /\ i = Len(p) => Length(p) = Before(p, i) + p[i]
<1>1. p \in Seq(Nat \ {0}) /\ p # <<>>
  BY LedAssumption
<1>2. /\ Len(p) \in Nat /\ Len(p) # 0 /\ DOMAIN p = 1..Len(p)
      /\ \A i \in 1..Len(p) : p[i] \in Nat \ {0}
  BY <1>1, EmptySeq, LenProperties, ElementOfSeq
<1>3. Length(p) = SumOn(p, 1..Len(p)) /\ \A i : Before(p, i) = SumOn(p, 1..i - 1)
  BY <1>2 DEF Length, Before, SumOn, FoldFunction
<1>4. \A i \in Nat : IsFiniteSet(1..i)
  BY FS_Interval
<1>5. \A i \in 0..Len(p) : SumOn(p, 1..i) \in Nat /\ SumOn(p, 1..i) <= Length(p)
  <2> TAKE i \in 0..Len(p)
  <2>1. IsFiniteSet(1..i) /\ 1..i \in SUBSET (1..Len(p))
    BY <1>2, <1>4
  <2>2. SumOn(p, 1..i) \in Nat
    BY <1>2, <2>1, SumNat
  <2>3. SumOn(p, 1..i) <= SumOn(p, 1..Len(p))
    BY <1>2, <1>4, <2>1, SumMore
  <2> QED BY <1>3, <2>2, <2>3
<1>6. ASSUME NEW i \in 1..Len(p) PROVE SumOn(p, 1..i) = p[i] + SumOn(p, 1..i - 1)
  <2>1. IsFiniteSet(1..i) /\ \A x \in 1..i : p[x] \in Int
    BY <1>2, <1>4
  <2>2. (1..i) \ {i} = 1..i - 1 /\ i \in 1..i
    OBVIOUS
  <2> QED BY <2>1, <2>2, SumRemoves
<1>7. Before(p, 1) = 0
  <2>1. 1..1 - 1 = {} /\ IsFiniteSet({})
    BY FS_EmptySet
  <2>2. SumOn(p, {}) = 0
    BY <2>1, SumUnfolds
  <2> QED BY <1>3, <2>1, <2>2
<1>8. Length(p) \in Nat
  BY <1>2, <1>3, <1>5
<1>9. ASSUME NEW i \in 1..Len(p)
      PROVE  /\ Before(p, i) \in Nat /\ Before(p, i) + p[i] <= Length(p)
             /\ i # Len(p) => Before(p, i + 1) = Before(p, i) + p[i]
             /\ i = Len(p) => Length(p) = Before(p, i) + p[i]
  <2>1. /\ i \in 0..Len(p) /\ i - 1 \in 0..Len(p) /\ (i + 1) - 1 = i
        /\ p[i] \in Nat
    BY <1>2
  <2>2. SumOn(p, 1..i - 1) \in Nat
    BY <1>5, <2>1
  <2>3. SumOn(p, 1..i) <= Length(p) /\ SumOn(p, 1..i) = p[i] + SumOn(p, 1..i - 1)
    BY <1>5, <1>6, <2>1
  <2>4. Before(p, i) = SumOn(p, 1..i - 1) /\ Before(p, i + 1) = SumOn(p, 1..i)
    BY <1>3, <2>1
  <2>5. i = Len(p) => Length(p) = SumOn(p, 1..i)
    BY <1>3
  <2> QED BY <1>8, <2>1, <2>2, <2>3, <2>4, <2>5
<1>10. Length(p) + MaxGap < Wrap /\ Wrap \in Nat /\ MaxGap \in Nat \ {0}
  BY LedAssumption
<1> QED BY <1>2, <1>7, <1>8, <1>9, <1>10

\* Time modulo Wrap.
LEMMA Wraps ==
    ASSUME NEW W \in Nat \ {0}
    PROVE  /\ \A x \in Int : x % W \in 0..W - 1
           /\ \A x \in 0..W - 1 : x % W = x
           /\ \A x \in -W..-1 : x % W = x + W
           /\ \A x \in W..W + W - 1 : x % W = x - W
OBVIOUS

\* Time may be added, and a duration taken, while both are shorter than a wrap.
LEMMA TimeWraps ==
    ASSUME NEW W \in Nat \ {0}, NEW m \in 0..W - 1, NEW b \in 0..W - 1, NEW g \in 0..W - 1
    PROVE  /\ (m - b) % W \in 0..W - 1 /\ (m + g) % W \in 0..W - 1
           /\ (m - m) % W = 0
           /\ ((m - b) % W) + g < W => (((m + g) % W) - b) % W = ((m - b) % W) + g
           /\ (m - b) % W >= g => (m - ((b + g) % W)) % W = ((m - b) % W) - g
<1>1. (m - b) % W = (IF m >= b THEN m - b ELSE m - b + W)
  <2>1. CASE m >= b
    <3>1. m - b \in 0..W - 1
      BY <2>1
    <3> QED BY <2>1, <3>1, Wraps
  <2>2. CASE m < b
    <3>1. m - b \in -W..-1
      BY <2>2
    <3>2. (m - b) % W = (m - b) + W
      BY <3>1, Wraps
    <3> QED BY <2>2, <3>2
  <2> QED BY <2>1, <2>2
<1>2. (m + g) % W = (IF m + g < W THEN m + g ELSE m + g - W)
  <2>1. CASE m + g < W
    <3>1. m + g \in 0..W - 1
      BY <2>1
    <3> QED BY <2>1, <3>1, Wraps
  <2>2. CASE m + g >= W
    <3>1. m + g \in W..W + W - 1
      BY <2>2
    <3>2. (m + g) % W = (m + g) - W
      BY <3>1, Wraps
    <3> QED BY <2>2, <3>2
  <2> QED BY <2>1, <2>2
<1>3. (b + g) % W = (IF b + g < W THEN b + g ELSE b + g - W)
  <2>1. CASE b + g < W
    <3>1. b + g \in 0..W - 1
      BY <2>1
    <3> QED BY <2>1, <3>1, Wraps
  <2>2. CASE b + g >= W
    <3>1. b + g \in W..W + W - 1
      BY <2>2
    <3>2. (b + g) % W = (b + g) - W
      BY <3>1, Wraps
    <3> QED BY <2>2, <3>2
  <2> QED BY <2>1, <2>2
<1>4. (m - m) % W = 0
  BY Wraps
<1>5. ASSUME ((m - b) % W) + g < W PROVE (((m + g) % W) - b) % W = ((m - b) % W) + g
  <2>1. CASE m >= b /\ m + g < W
    <3>1. (m + g) - b \in 0..W - 1
      BY <1>1, <1>5, <2>1
    <3>2. ((m + g) - b) % W = (m + g) - b
      BY <3>1, Wraps
    <3> QED BY <1>1, <1>2, <2>1, <3>2
  <2>2. CASE m >= b /\ m + g >= W
    <3>1. (m + g - W) - b \in -W..-1
      BY <1>1, <1>5, <2>2
    <3>2. ((m + g - W) - b) % W = ((m + g - W) - b) + W
      BY <3>1, Wraps
    <3> QED BY <1>1, <1>2, <2>2, <3>2
  <2>3. CASE m < b
    <3>1. m + g < W /\ (m + g) - b \in -W..-1
      BY <1>1, <1>5, <2>3
    <3>2. ((m + g) - b) % W = ((m + g) - b) + W
      BY <3>1, Wraps
    <3> QED BY <1>1, <1>2, <2>3, <3>1, <3>2
  <2> QED BY <2>1, <2>2, <2>3
<1>6. ASSUME (m - b) % W >= g PROVE (m - ((b + g) % W)) % W = ((m - b) % W) - g
  <2>1. CASE m >= b
    <3>1. b + g < W /\ m - (b + g) \in 0..W - 1
      BY <1>1, <1>6, <2>1
    <3>2. (m - (b + g)) % W = m - (b + g)
      BY <3>1, Wraps
    <3> QED BY <1>1, <1>3, <2>1, <3>1, <3>2
  <2>2. CASE m < b /\ b + g < W
    <3>1. m - (b + g) \in -W..-1
      BY <1>1, <1>6, <2>2
    <3>2. (m - (b + g)) % W = m - (b + g) + W
      BY <3>1, Wraps
    <3> QED BY <1>1, <1>3, <2>2, <3>2
  <2>3. CASE m < b /\ b + g >= W
    <3>1. m - (b + g - W) \in 0..W - 1
      BY <1>1, <1>6, <2>3
    <3>2. (m - (b + g - W)) % W = m - (b + g - W)
      BY <3>1, Wraps
    <3> QED BY <1>1, <1>3, <2>3, <3>1, <3>2
  <2> QED BY <2>1, <2>2, <2>3
<1>7. (m - b) % W \in 0..W - 1 /\ (m + g) % W \in 0..W - 1
  BY <1>1, <1>2
<1> QED BY <1>4, <1>5, <1>6, <1>7

\* How far an animation is at a time, in a tick by at most behind behind.
At(p, a, now, behind) ==
    /\ a.age = Before(p, a.idx) + Elapsed(a, now)
    /\ a.age < Length(p) + behind

\* A tick finds a pattern at its time, at most MaxGap behind.
LEMMA AnimationBegins ==
    ASSUME NEW p \in Patterns \cup {Blip}, NEW a \in Progress(p),
           NEW m \in 0..Wrap - 1, NEW gap \in 1..MaxGap,
           a.begin # 0 => At(p, a, m, 0)
    PROVE  LET now == (m + gap) % Wrap
               b == WithBegin(p, a, now, gap)
           IN /\ now \in 0..Wrap - 1 /\ b \in Progress(p) /\ At(p, b, now, MaxGap)
<1> DEFINE now == (m + gap) % Wrap
           b == WithBegin(p, a, now, gap)
<1>1. /\ Len(p) \in Nat \ {0} /\ DOMAIN p = 1..Len(p)
      /\ Length(p) \in Nat /\ Length(p) + MaxGap < Wrap /\ Wrap \in Nat
      /\ MaxGap \in Nat \ {0}
      /\ \A i \in 1..Len(p) : /\ p[i] \in Nat \ {0} /\ Before(p, i) \in Nat
                              /\ Before(p, i) + p[i] <= Length(p)
  BY FragmentsDivide
<1>2. /\ a.idx \in 1..Len(p) /\ a.begin \in 0..Wrap - 1 /\ a.age \in 0..Wrap - 1
      /\ a = [idx |-> a.idx, begin |-> a.begin, age |-> a.age]
  BY <1>1 DEF Progress
<1>3. Wrap \in Nat \ {0} /\ gap \in 0..Wrap - 1 /\ gap <= MaxGap
  BY <1>1
<1>4. now \in 0..Wrap - 1 /\ (now - now) % Wrap = 0
  BY <1>3, TimeWraps
<1> HIDE DEF now
<1>5. /\ Before(p, a.idx) \in Nat /\ Before(p, a.idx) < Length(p)
  <2>1. /\ p[a.idx] \in Nat \ {0} /\ Before(p, a.idx) \in Nat
        /\ Before(p, a.idx) + p[a.idx] <= Length(p)
    BY <1>1, <1>2
  <2> QED BY <1>1, <2>1
<1>6. CASE a.begin = 0
  <2>1. b = [idx |-> a.idx, begin |-> now, age |-> Before(p, a.idx)]
    BY <1>2, <1>6 DEF WithBegin
  <2>2. b.idx = a.idx /\ b.begin = now /\ b.age = Before(p, a.idx)
    BY <2>1
  <2>3. Before(p, a.idx) \in 0..Wrap - 1
    BY <1>1, <1>5
  <2>4. b \in Progress(p)
    BY <1>1, <1>2, <1>4, <2>1, <2>3 DEF Progress
  <2>5. Elapsed(b, now) = 0
    BY <1>4, <2>2 DEF Elapsed
  <2>6. At(p, b, now, MaxGap)
    <3>1. Before(p, a.idx) = Before(p, a.idx) + 0 /\ Before(p, a.idx) < Length(p) + MaxGap
      BY <1>1, <1>5
    <3> HIDE DEF b
    <3> QED BY <2>2, <2>5, <3>1 DEF At
  <2> HIDE DEF b
  <2> QED BY <1>4, <2>4, <2>6 DEF b, now
<1>7. CASE a.begin # 0
  <2>1. b = [idx |-> a.idx, begin |-> a.begin, age |-> a.age + gap]
    BY <1>2, <1>7 DEF WithBegin
  <2>2. b.idx = a.idx /\ b.begin = a.begin /\ b.age = a.age + gap
    BY <2>1
  <2> DEFINE e == (m - a.begin) % Wrap
  <2>3. a.age = Before(p, a.idx) + e /\ a.age < Length(p) + 0
    BY <1>7 DEF At, Elapsed
  <2>4. e \in 0..Wrap - 1
    BY <1>2, <1>3, TimeWraps
  <2>5. e + gap < Wrap
    <3> HIDE DEF e
    <3> QED BY <1>1, <1>2, <1>3, <1>5, <2>3, <2>4
  <2>6. (now - a.begin) % Wrap = e + gap
    BY <1>2, <1>3, <2>5, TimeWraps DEF now
  <2>7. Elapsed(b, now) = e + gap
    BY <2>2, <2>6 DEF Elapsed
  <2> HIDE DEF e, b
  <2>8. a.age + gap \in 0..Wrap - 1 /\ a.age + gap < Length(p) + MaxGap
    BY <1>1, <1>2, <1>3, <2>3
  <2>9. b \in Progress(p)
    BY <1>1, <1>2, <2>1, <2>8 DEF Progress
  <2>10. At(p, b, now, MaxGap)
    <3>1. a.age + gap = Before(p, a.idx) + (e + gap)
      BY <1>2, <1>3, <1>5, <2>3, <2>4
    <3> QED BY <2>2, <2>7, <2>8, <3>1 DEF At
  <2> QED BY <1>4, <2>9, <2>10 DEF b, now
<1> QED BY <1>6, <1>7

\* A round of the loop of apply leaves it at its time, in the next fragment.
LEMMA AnimationGoesOn ==
    ASSUME NEW p \in Patterns \cup {Blip}, NEW a \in Progress(p),
           NEW m \in 0..Wrap - 1, At(p, a, m, MaxGap), Elapsed(a, m) >= p[a.idx]
    PROVE  LET b == [idx |-> NextIndex(p, a), begin |-> (a.begin + p[a.idx]) % Wrap,
                     age |-> IF AtLast(p, a) THEN a.age - Length(p) ELSE a.age]
           IN b \in Progress(p) /\ At(p, b, m, MaxGap)
<1> DEFINE b == [idx |-> NextIndex(p, a), begin |-> (a.begin + p[a.idx]) % Wrap,
                 age |-> IF AtLast(p, a) THEN a.age - Length(p) ELSE a.age]
           e == (m - a.begin) % Wrap
           d == p[a.idx]
<1>1. /\ Len(p) \in Nat \ {0} /\ DOMAIN p = 1..Len(p)
      /\ Length(p) \in Nat /\ Length(p) + MaxGap < Wrap /\ Wrap \in Nat
      /\ MaxGap \in Nat \ {0} /\ Before(p, 1) = 0
  BY FragmentsDivide
<1>2. /\ a.idx \in 1..Len(p) /\ a.begin \in 0..Wrap - 1 /\ a.age \in 0..Wrap - 1
  BY <1>1 DEF Progress
<1>3. /\ d \in Nat \ {0} /\ Before(p, a.idx) \in Nat
      /\ Before(p, a.idx) + d <= Length(p)
      /\ a.idx # Len(p) => Before(p, a.idx + 1) = Before(p, a.idx) + d
      /\ a.idx = Len(p) => Length(p) = Before(p, a.idx) + d
  BY <1>2, FragmentsDivide
<1>4. Wrap \in Nat \ {0} /\ d \in 0..Wrap - 1
  BY <1>1, <1>3
<1>5. /\ a.age = Before(p, a.idx) + e /\ a.age < Length(p) + MaxGap /\ e >= d
      /\ e \in 0..Wrap - 1
  <2>1. e \in 0..Wrap - 1
    BY <1>2, <1>4, TimeWraps
  <2> QED BY <2>1 DEF At, Elapsed
<1>6. (m - ((a.begin + d) % Wrap)) % Wrap = e - d /\ (a.begin + d) % Wrap \in 0..Wrap - 1
  <2>1. (a.begin + d) % Wrap \in 0..Wrap - 1
    BY <1>2, <1>4, TimeWraps
  <2>2. (m - a.begin) % Wrap >= d
    BY <1>5
  <2>3. (m - ((a.begin + d) % Wrap)) % Wrap = ((m - a.begin) % Wrap) - d
    <3>1. ASSUME NEW s \in 0..Wrap - 1, NEW g \in 0..Wrap - 1, (m - s) % Wrap >= g
          PROVE  (m - ((s + g) % Wrap)) % Wrap = ((m - s) % Wrap) - g
      BY <1>4, <3>1, TimeWraps
    <3> HIDE DEF d
    <3> QED BY <1>2, <1>4, <2>2, <3>1, Zenon
  <2> QED BY <2>1, <2>3
<1>7. /\ b.idx = NextIndex(p, a) /\ b.begin = (a.begin + d) % Wrap
      /\ b.age = IF AtLast(p, a) THEN a.age - Length(p) ELSE a.age
  OBVIOUS
<1>8. Elapsed(b, m) = e - d
  <2> HIDE DEF b, d, e
  <2> QED BY <1>6, <1>7 DEF Elapsed
<1>9. b.idx \in 1..Len(p) /\ b.age \in 0..Wrap - 1
      /\ b.age = Before(p, b.idx) + (e - d) /\ b.age < Length(p) + MaxGap
  <2> HIDE DEF b, e, d
  <2>1. CASE a.idx = Len(p)
    <3>1. b.idx = 1 /\ b.age = a.age - Length(p)
      BY <1>7, <2>1 DEF NextIndex, AtLast
    <3>2. Length(p) = Before(p, a.idx) + d /\ Before(p, b.idx) = 0 /\ 1 \in 1..Len(p)
      BY <1>1, <1>3, <2>1, <3>1
    <3>3. a.age - Length(p) = e - d /\ e - d \in 0..Wrap - 1
      BY <1>3, <1>5, <1>4, <3>2
    <3>4. e - d = Before(p, b.idx) + (e - d) /\ e - d < Length(p) + MaxGap
      BY <1>1, <1>2, <1>3, <1>4, <1>5, <3>2, <3>3
    <3> QED BY <3>1, <3>2, <3>3, <3>4
  <2>2. CASE a.idx # Len(p)
    <3>1. b.idx = a.idx + 1 /\ b.age = a.age
      BY <1>7, <2>2 DEF NextIndex, AtLast
    <3>2. a.idx + 1 \in 1..Len(p)
      BY <1>1, <1>2, <2>2
    <3> QED BY <1>1, <1>2, <1>3, <1>4, <1>5, <2>2, <3>1, <3>2
  <2> QED BY <2>1, <2>2
<1>10. b \in Progress(p)
  <2>1. b = [idx |-> b.idx, begin |-> b.begin, age |-> b.age]
    OBVIOUS
  <2>2. b.begin \in 0..Wrap - 1
    BY <1>6, <1>7
  <2> HIDE DEF b
  <2> QED BY <1>1, <1>9, <2>1, <2>2 DEF Progress
<1>11. At(p, b, m, MaxGap)
  <2> HIDE DEF b, e
  <2> QED BY <1>8, <1>9 DEF At
<1> QED BY <1>10, <1>11

\* Where the loop ends, nothing is behind any more.
LEMMA AnimationShown ==
    ASSUME NEW p \in Patterns \cup {Blip}, NEW a \in Progress(p),
           NEW m \in 0..Wrap - 1, At(p, a, m, MaxGap), ~(Elapsed(a, m) >= p[a.idx])
    PROVE  At(p, a, m, 0)
<1> DEFINE e == (m - a.begin) % Wrap
<1>1. /\ Len(p) \in Nat \ {0} /\ DOMAIN p = 1..Len(p) /\ Length(p) \in Nat /\ Wrap \in Nat
      /\ Length(p) + MaxGap < Wrap /\ MaxGap \in Nat \ {0}
  BY FragmentsDivide
<1>2. /\ a.idx \in 1..Len(p) /\ a.begin \in 0..Wrap - 1 /\ a.age \in 0..Wrap - 1
  BY <1>1 DEF Progress
<1>3. /\ p[a.idx] \in Nat \ {0} /\ Before(p, a.idx) \in Nat
      /\ Before(p, a.idx) + p[a.idx] <= Length(p)
  BY <1>2, FragmentsDivide
<1>4. e \in 0..Wrap - 1
  <2>1. Wrap \in Nat \ {0} /\ 0 \in 0..Wrap - 1
    BY <1>1
  <2> QED BY <1>2, <2>1, TimeWraps
<1>5. a.age = Before(p, a.idx) + e /\ ~(e >= p[a.idx])
  BY DEF At, Elapsed
<1>6. a.age < Length(p) + 0
  <2> HIDE DEF e
  <2> QED BY <1>1, <1>2, <1>3, <1>4, <1>5
<1> QED BY <1>6 DEF At

\* In step between two ticks, and in a tick what it has applied; the rest is
\* behind by at most the time since the one before.
LedMoves ==
    LET gone(n) == IF applying = 0 \/ n < applying THEN 0 ELSE MaxGap
    IN /\ (applying = 0 /\ main.begin = 0) \/ At(pattern, main, millis, gone(1))
       /\ \A i \in DOMAIN blips :
            \/ (applying = 0 /\ blips[i].begin = 0)
            \/ At(Blip, blips[i], millis, gone(i + 1))

LedInv == LedTypeOK /\ LedMoves

\* The invariant of the LED: it holds at first, and every step keeps it.
LEMMA LedInitInv == LedInit => LedInv
<1> SUFFICES ASSUME LedInit PROVE LedInv
  OBVIOUS
<1>1. pattern \in Patterns /\ Fresh \in Progress(pattern)
  <2>1. pattern \in Patterns /\ 1 \in DOMAIN pattern /\ 0 \in 0..Wrap - 1
    BY FragmentsDivide DEF LedInit
  <2> QED BY <2>1 DEF Fresh, Progress
<1>2. LedTypeOK
  BY <1>1, LedAssumption DEF LedInit, LedTypeOK
<1>3. LedMoves
  BY DEF LedInit, LedMoves, Fresh
<1> QED BY <1>2, <1>3 DEF LedInv

LEMMA FreshIs ==
    ASSUME NEW p \in Patterns \cup {Blip}
    PROVE  Fresh \in Progress(p) /\ Fresh.begin = 0
<1>1. 1 \in DOMAIN p /\ 0 \in 0..Wrap - 1
  BY FragmentsDivide
<1> QED BY <1>1 DEF Fresh, Progress

\* tick() before it applies anything.
LEMMA TickKeeps ==
    ASSUME LedInv, NEW gap \in 1..MaxGap, LedTick(gap) PROVE LedInv'
<1> DEFINE now == (millis + gap) % Wrap
<1>1. /\ millis \in 0..Wrap - 1 /\ pattern \in Patterns \cup {Blip} /\ pattern \in Patterns
      /\ Blip \in Patterns \cup {Blip}
      /\ main \in Progress(pattern) /\ blips \in Seq(Progress(Blip))
      /\ Len(blips) <= MaxBlips /\ applying = 0
  BY DEF LedInv, LedTypeOK, LedTick
<1>2. /\ applying' = 1 /\ millis' = now /\ pattern' = pattern
      /\ main' = WithBegin(pattern, main, now, gap)
      /\ blips' = [i \in DOMAIN blips |-> WithBegin(Blip, blips[i], now, gap)]
  BY DEF LedTick
<1>3. /\ main.begin # 0 => At(pattern, main, millis, 0)
      /\ \A i \in DOMAIN blips : blips[i].begin # 0 => At(Blip, blips[i], millis, 0)
  BY <1>1 DEF LedInv, LedMoves
<1>4. /\ now \in 0..Wrap - 1 /\ main' \in Progress(pattern)
      /\ At(pattern, main', now, MaxGap)
  BY <1>1, <1>2, <1>3, AnimationBegins
<1>5. DOMAIN blips = 1..Len(blips) /\ \A i \in 1..Len(blips) : blips[i] \in Progress(Blip)
  BY <1>1
<1>6. ASSUME NEW i \in 1..Len(blips)
      PROVE  LET b == WithBegin(Blip, blips[i], now, gap)
             IN b \in Progress(Blip) /\ At(Blip, b, now, MaxGap)
  BY <1>1, <1>3, <1>5, AnimationBegins
<1> HIDE DEF now
<1>7. /\ blips' \in Seq(Progress(Blip)) /\ Len(blips') = Len(blips)
      /\ \A i \in DOMAIN blips' : At(Blip, blips'[i], now, MaxGap)
  <2>1. Len(blips) \in Nat
    BY <1>1
  <2>2. \A i \in 1..Len(blips) : WithBegin(Blip, blips[i], now, gap) \in Progress(Blip)
    BY <1>6
  <2>3. blips' = [i \in 1..Len(blips) |-> WithBegin(Blip, blips[i], now, gap)]
    BY <1>2, <1>5
  <2> QED BY <1>6, <2>1, <2>2, <2>3
<1>8. LedTypeOK'
  <2>1. 1 \in 0..Len(blips) + 1
    BY <1>1
  <2> QED BY <1>1, <1>2, <1>4, <1>7, <2>1 DEF LedTypeOK
<1>9. LedMoves'
  BY <1>2, <1>4, <1>7 DEF LedMoves
<1> QED BY <1>8, <1>9 DEF LedInv

\* apply of the pattern.
LEMMA PatternKeeps ==
    ASSUME LedInv, PatternGoesOn \/ PatternShown PROVE LedInv'
<1>1. /\ millis \in 0..Wrap - 1 /\ pattern \in Patterns \cup {Blip} /\ pattern \in Patterns
      /\ main \in Progress(pattern) /\ blips \in Seq(Progress(Blip))
      /\ Len(blips) <= MaxBlips /\ applying = 1
      /\ millis' = millis /\ pattern' = pattern /\ blips' = blips
  BY DEF LedInv, LedTypeOK, PatternGoesOn, PatternShown
<1>2. /\ At(pattern, main, millis, MaxGap)
      /\ \A i \in DOMAIN blips : At(Blip, blips[i], millis, MaxGap)
  <2>1. \A i \in DOMAIN blips : ~(i + 1 < 1)
    BY <1>1
  <2> QED BY <1>1, <2>1 DEF LedInv, LedMoves
<1>3. CASE PatternGoesOn
  <2>1. /\ main' \in Progress(pattern) /\ At(pattern, main', millis, MaxGap)
    <3>1. /\ Elapsed(main, millis) >= pattern[main.idx]
          /\ main' = NextFragment(pattern, main)
      BY <1>3 DEF PatternGoesOn, Over
    <3> QED BY <1>1, <1>2, <3>1, AnimationGoesOn, Zenon DEF NextFragment
  <2>2. applying' = applying
    BY <1>3 DEF PatternGoesOn
  <2>3. \A i \in DOMAIN blips : ~(i + 1 < 1)
    BY <1>1
  <2> QED BY <1>1, <1>2, <2>1, <2>2, <2>3 DEF LedInv, LedTypeOK, LedMoves
<1>4. CASE PatternShown
  <2>1. At(pattern, main, millis, 0)
    <3>1. ~(Elapsed(main, millis) >= pattern[main.idx])
      BY <1>4 DEF PatternShown, Over
    <3> QED BY <1>1, <1>2, <3>1, AnimationShown, Zenon
  <2>2. main' = main /\ applying' = IF blips = <<>> THEN 0 ELSE 2
    BY <1>4 DEF PatternShown
  <2>3. LedTypeOK'
    <3>1. applying' \in 0..Len(blips) + 1
      BY <1>1, <2>2
    <3> QED BY <1>1, <2>2, <3>1 DEF LedTypeOK
  <2>4. LedMoves'
    <3>1. CASE blips = <<>>
      BY <1>1, <2>1, <2>2, <3>1 DEF LedMoves
    <3>2. CASE blips # <<>>
      <4>1. \A i \in DOMAIN blips : ~(i + 1 < 2)
        BY <1>1
      <4> QED BY <1>1, <1>2, <2>1, <2>2, <3>2, <4>1 DEF LedMoves
    <3> QED BY <3>1, <3>2
  <2> QED BY <2>3, <2>4 DEF LedInv
<1> QED BY <1>3, <1>4

\* In a tick, at blip i.
LEMMA AtBlip ==
    ASSUME LedInv, NEW i \in DOMAIN blips, applying = i + 1
    PROVE  /\ i \in 1..Len(blips) /\ DOMAIN blips = 1..Len(blips) /\ Len(blips) \in Nat
           /\ millis \in 0..Wrap - 1 /\ pattern \in Patterns
           /\ main \in Progress(pattern) /\ blips \in Seq(Progress(Blip))
           /\ Len(blips) <= MaxBlips
           /\ At(pattern, main, millis, 0)
           /\ \A j \in 1..Len(blips) :
                /\ blips[j] \in Progress(Blip)
                /\ j < i => At(Blip, blips[j], millis, 0)
                /\ j >= i => At(Blip, blips[j], millis, MaxGap)
<1>1. /\ millis \in 0..Wrap - 1 /\ pattern \in Patterns
      /\ main \in Progress(pattern) /\ blips \in Seq(Progress(Blip))
      /\ Len(blips) <= MaxBlips
  BY DEF LedInv, LedTypeOK
<1>2. i \in 1..Len(blips) /\ DOMAIN blips = 1..Len(blips) /\ Len(blips) \in Nat
  BY <1>1
<1>3. At(pattern, main, millis, 0)
  <2>1. applying # 0 /\ 1 < applying
    BY <1>2
  <2> QED BY <2>1 DEF LedInv, LedMoves
<1>4. ASSUME NEW j \in 1..Len(blips)
      PROVE  /\ blips[j] \in Progress(Blip)
             /\ j < i => At(Blip, blips[j], millis, 0)
             /\ j >= i => At(Blip, blips[j], millis, MaxGap)
  <2>1. applying # 0 /\ (j < i <=> j + 1 < applying) /\ (j >= i <=> ~(j < i))
    BY <1>2
  <2>2. At(Blip, blips[j], millis, IF j + 1 < applying THEN 0 ELSE MaxGap)
    BY <1>2, <2>1 DEF LedInv, LedMoves
  <2> QED BY <1>1, <2>1, <2>2
<1> QED BY <1>1, <1>2, <1>3, <1>4

\* apply of a blip: a round of its loop, ...
LEMMA BlipGoesOnKeeps ==
    ASSUME LedInv, NEW i \in DOMAIN blips, BlipGoesOn(i) PROVE LedInv'
<1> DEFINE b == NextFragment(Blip, blips[i])
<1>1. /\ applying = i + 1 /\ applying' = applying /\ millis' = millis
      /\ pattern' = pattern /\ main' = main /\ blips' = [blips EXCEPT ![i] = b]
      /\ Elapsed(blips[i], millis) >= Blip[blips[i].idx]
  BY DEF BlipGoesOn, Over
<1>2. /\ i \in 1..Len(blips) /\ DOMAIN blips = 1..Len(blips) /\ Len(blips) \in Nat
      /\ millis \in 0..Wrap - 1 /\ pattern \in Patterns
      /\ main \in Progress(pattern) /\ blips \in Seq(Progress(Blip))
      /\ Len(blips) <= MaxBlips
      /\ At(pattern, main, millis, 0)
      /\ \A j \in 1..Len(blips) :
           /\ blips[j] \in Progress(Blip)
           /\ j < i => At(Blip, blips[j], millis, 0)
           /\ j >= i => At(Blip, blips[j], millis, MaxGap)
  BY <1>1, AtBlip
<1>3. b \in Progress(Blip) /\ At(Blip, b, millis, MaxGap)
  <2>1. blips[i] \in Progress(Blip) /\ At(Blip, blips[i], millis, MaxGap)
    BY <1>2
  <2> QED BY <1>1, <1>2, <2>1, AnimationGoesOn DEF NextFragment
<1> HIDE DEF b
<1>4. /\ blips' \in Seq(Progress(Blip)) /\ Len(blips') = Len(blips)
      /\ DOMAIN blips' = DOMAIN blips
      /\ \A j \in DOMAIN blips : blips'[j] = IF j = i THEN b ELSE blips[j]
  BY <1>1, <1>2, <1>3
<1>5. LedTypeOK'
  BY <1>1, <1>2, <1>4 DEF LedInv, LedTypeOK
<1>6. LedMoves'
  <2>1. applying # 0 /\ 1 < applying
    BY <1>1, <1>2
  <2>2. ASSUME NEW j \in DOMAIN blips
        PROVE  At(Blip, blips'[j], millis, IF j + 1 < applying THEN 0 ELSE MaxGap)
    <3>1. j + 1 < applying <=> j < i
      BY <1>1, <1>2
    <3> QED BY <1>2, <1>3, <1>4, <3>1
  <2> QED BY <1>1, <1>2, <1>4, <2>1, <2>2 DEF LedMoves
<1> QED BY <1>5, <1>6 DEF LedInv

\* ... its end, ...
LEMMA BlipShownKeeps ==
    ASSUME LedInv, NEW i \in DOMAIN blips, BlipShown(i) PROVE LedInv'
<1>1. /\ applying = i + 1 /\ millis' = millis
      /\ pattern' = pattern /\ main' = main /\ blips' = blips
      /\ applying' = IF i = Len(blips) THEN 0 ELSE applying + 1
      /\ ~(Elapsed(blips[i], millis) >= Blip[blips[i].idx])
  BY DEF BlipShown, Over
<1>2. /\ i \in 1..Len(blips) /\ DOMAIN blips = 1..Len(blips) /\ Len(blips) \in Nat
      /\ millis \in 0..Wrap - 1 /\ pattern \in Patterns
      /\ main \in Progress(pattern) /\ blips \in Seq(Progress(Blip))
      /\ Len(blips) <= MaxBlips
      /\ At(pattern, main, millis, 0)
      /\ \A j \in 1..Len(blips) :
           /\ blips[j] \in Progress(Blip)
           /\ j < i => At(Blip, blips[j], millis, 0)
           /\ j >= i => At(Blip, blips[j], millis, MaxGap)
  BY <1>1, AtBlip
<1>3. At(Blip, blips[i], millis, 0)
  <2>1. blips[i] \in Progress(Blip) /\ At(Blip, blips[i], millis, MaxGap)
    BY <1>2
  <2> QED BY <1>1, <1>2, <2>1, AnimationShown
<1>4. LedTypeOK'
  <2>1. applying' \in 0..Len(blips) + 1
    BY <1>1, <1>2
  <2> QED BY <1>1, <1>2, <2>1 DEF LedTypeOK
<1>5. LedMoves'
  <2>1. CASE i = Len(blips)
    <3>1. applying' = 0
      BY <1>1, <2>1
    <3>2. \A j \in 1..Len(blips) : At(Blip, blips[j], millis, 0)
      BY <1>2, <1>3, <2>1
    <3> QED BY <1>1, <1>2, <3>1, <3>2 DEF LedMoves
  <2>2. CASE i # Len(blips)
    <3>1. applying' = i + 2 /\ applying' # 0 /\ 1 < applying'
      BY <1>1, <1>2, <2>2
    <3>2. ASSUME NEW j \in 1..Len(blips)
          PROVE  At(Blip, blips[j], millis, IF j + 1 < applying' THEN 0 ELSE MaxGap)
      <4>1. j + 1 < applying' <=> j < i \/ j = i
        BY <1>2, <3>1
      <4> QED BY <1>2, <1>3, <4>1
    <3> QED BY <1>1, <1>2, <3>1, <3>2 DEF LedMoves
  <2> QED BY <2>1, <2>2
<1> QED BY <1>4, <1>5 DEF LedInv

\* ... and that of a blip that is over, which goes: those behind it move up.
LEMMA BlipEndsKeeps ==
    ASSUME LedInv, NEW i \in DOMAIN blips, BlipEnds(i) PROVE LedInv'
<1> DEFINE from(k) == IF k < i THEN k ELSE k + 1
<1>1. /\ applying = i + 1 /\ millis' = millis
      /\ pattern' = pattern /\ main' = main /\ blips' = RemoveAt(blips, i)
      /\ applying' = IF i = Len(blips) THEN 0 ELSE applying
  BY DEF BlipEnds
<1>2. /\ i \in 1..Len(blips) /\ DOMAIN blips = 1..Len(blips) /\ Len(blips) \in Nat
      /\ millis \in 0..Wrap - 1 /\ pattern \in Patterns
      /\ main \in Progress(pattern) /\ blips \in Seq(Progress(Blip))
      /\ Len(blips) <= MaxBlips
      /\ At(pattern, main, millis, 0)
      /\ \A j \in 1..Len(blips) :
           /\ blips[j] \in Progress(Blip)
           /\ j < i => At(Blip, blips[j], millis, 0)
           /\ j >= i => At(Blip, blips[j], millis, MaxGap)
  BY <1>1, AtBlip
<1>3. /\ blips' \in Seq(Progress(Blip)) /\ Len(blips') = Len(blips) - 1
      /\ DOMAIN blips' = 1..Len(blips) - 1
      /\ \A j \in 1..Len(blips) - 1 : blips'[j] = blips[from(j)]
  <2>1. /\ blips' \in Seq(Progress(Blip)) /\ Len(blips') = Len(blips) - 1
        /\ \A j \in 1..Len(blips) - 1 : blips'[j] = blips[from(j)]
    BY <1>1, <1>2, Removed, Zenon
  <2>2. DOMAIN blips' = 1..Len(blips')
    BY <2>1
  <2> QED BY <2>1, <2>2, Zenon
<1>4. LedTypeOK'
  <2>1. applying' \in 0..Len(blips') + 1
    BY <1>1, <1>2, <1>3
  <2>2. Len(blips') <= MaxBlips
    BY <1>2, <1>3, LedAssumption
  <2> QED BY <1>1, <1>2, <1>3, <2>1, <2>2 DEF LedTypeOK
<1>5. LedMoves'
  <2>1. CASE i = Len(blips)
    <3>1. applying' = 0
      BY <1>1, <2>1
    <3>2. ASSUME NEW j \in 1..Len(blips) - 1 PROVE At(Blip, blips'[j], millis, 0)
      <4>1. from(j) = j /\ j \in 1..Len(blips) /\ j < i
        BY <1>2, <2>1
      <4> QED BY <1>2, <1>3, <4>1
    <3> QED BY <1>1, <1>2, <1>3, <3>1, <3>2 DEF LedMoves
  <2>2. CASE i # Len(blips)
    <3>1. applying' = i + 1 /\ applying' # 0 /\ 1 < applying'
      BY <1>1, <1>2, <2>2
    <3>2. ASSUME NEW j \in 1..Len(blips) - 1
          PROVE  At(Blip, blips'[j], millis, IF j + 1 < applying' THEN 0 ELSE MaxGap)
      <4>1. (j + 1 < applying' <=> j < i) /\ from(j) \in 1..Len(blips)
            /\ (j < i => from(j) < i) /\ (~(j < i) => from(j) >= i)
        BY <1>2, <3>1
      <4> QED BY <1>2, <1>3, <4>1
    <3> QED BY <1>1, <1>2, <1>3, <3>1, <3>2 DEF LedMoves
  <2> QED BY <2>1, <2>2
<1> QED BY <1>4, <1>5 DEF LedInv

LEMMA LedNextInv == LedInv /\ [LedNext]_ledVars => LedInv'
<1> SUFFICES ASSUME LedInv, [LedNext]_ledVars PROVE LedInv'
  OBVIOUS
<1>1. CASE \E gap \in 1..MaxGap : LedTick(gap)
  BY <1>1, TickKeeps
<1>2. CASE PatternGoesOn \/ PatternShown
  BY <1>2, PatternKeeps
<1>3. CASE \E i \in DOMAIN blips : BlipGoesOn(i) \/ BlipEnds(i) \/ BlipShown(i)
  BY <1>3, BlipGoesOnKeeps, BlipEndsKeeps, BlipShownKeeps
<1>4. CASE \E p \in Patterns : SetPattern(p)
  <2>1. PICK p \in Patterns : SetPattern(p)
    BY <1>4
  <2>2. Fresh \in Progress(p) /\ Fresh.begin = 0
    BY FreshIs
  <2>3. LedTypeOK'
    BY <2>1, <2>2 DEF SetPattern, LedInv, LedTypeOK
  <2>4. LedMoves'
    BY <2>1, <2>2 DEF SetPattern, LedInv, LedMoves
  <2> QED BY <2>3, <2>4 DEF LedInv
<1>5. CASE AddModifier
  <2>1. Fresh \in Progress(Blip) /\ Fresh.begin = 0
    BY FreshIs
  <2>2. /\ blips \in Seq(Progress(Blip)) /\ Len(blips) < MaxBlips /\ applying = 0
        /\ applying' = 0 /\ blips' = Append(blips, Fresh)
        /\ UNCHANGED <<millis, pattern, main>>
    BY <1>5 DEF AddModifier, LedInv, LedTypeOK
  <2>3. /\ blips' \in Seq(Progress(Blip)) /\ Len(blips') = Len(blips) + 1
        /\ DOMAIN blips = 1..Len(blips) /\ DOMAIN blips' = 1..Len(blips) + 1
        /\ \A j \in 1..Len(blips) : blips'[j] = blips[j]
        /\ blips'[Len(blips) + 1] = Fresh /\ Len(blips) \in Nat
    BY <2>1, <2>2
  <2>4. LedTypeOK'
    <3>1. 0 \in 0..Len(blips') + 1 /\ Len(blips') <= MaxBlips
      BY <2>2, <2>3, LedAssumption
    <3> QED BY <2>2, <2>3, <3>1 DEF LedInv, LedTypeOK
  <2>5. LedMoves'
    <3>1. \A j \in 1..Len(blips) : blips[j].begin = 0 \/ At(Blip, blips[j], millis, 0)
      BY <2>2, <2>3 DEF LedInv, LedMoves
    <3>2. main.begin = 0 \/ At(pattern, main, millis, 0)
      BY <2>2 DEF LedInv, LedMoves
    <3>3. \A j \in DOMAIN blips' : j \in 1..Len(blips) \/ j = Len(blips) + 1
      BY <2>3
    <3> QED BY <2>1, <2>2, <2>3, <3>1, <3>2, <3>3 DEF LedMoves
  <2> QED BY <2>4, <2>5 DEF LedInv
<1>6. CASE UNCHANGED ledVars
  BY <1>6 DEF ledVars, LedInv, LedTypeOK, LedMoves
<1> QED BY <1>1, <1>2, <1>3, <1>4, <1>5, <1>6 DEF LedNext

\* What the invariant says between two ticks is the property.
LEMMA LedInvSound == LedInv => LedSound
<1> SUFFICES ASSUME LedInv PROVE LedSound
  OBVIOUS
<1>1. main.idx \in DOMAIN pattern
  BY DEF LedInv, LedTypeOK, Progress
<1>2. ASSUME NEW p \in Patterns \cup {Blip}, NEW a, At(p, a, millis, 0)
      PROVE  InStep(p, a)
  <2>1. Length(p) + 0 = Length(p)
    BY FragmentsDivide
  <2> QED BY <1>2, <2>1, Zenon DEF At, InStep
<1>3. ASSUME applying = 0
      PROVE  /\ main.begin # 0 => InStep(pattern, main)
             /\ \A i \in DOMAIN blips : blips[i].begin # 0 => InStep(Blip, blips[i])
  <2>1. /\ main.begin # 0 => At(pattern, main, millis, 0)
        /\ \A i \in DOMAIN blips : blips[i].begin # 0 => At(Blip, blips[i], millis, 0)
    BY <1>3 DEF LedInv, LedMoves
  <2>2. pattern \in Patterns
    BY DEF LedInv, LedTypeOK
  <2> QED BY <1>2, <2>1, <2>2
<1> QED BY <1>1, <1>3 DEF LedSound

\* Whatever patterns are set and blips added, and however late the blinker is
\* ticked, LEDPattern::apply stays in a fragment of its pattern and at the time
\* since the pattern began, across the wrap of millis().
THEOREM LedKeepsTime == LedSpec => [](LedTypeOK /\ LedSound)
<1>1. LedInv => LedTypeOK /\ LedSound
  BY LedInvSound DEF LedInv
<1> QED BY LedInitInv, LedNextInv, <1>1, PTL DEF LedSpec

-----------------------------------------------------------------------------
(* The nonces. *)

Entry == [age : 0..Oldest, count : 0..MaxCount, foreign : BOOLEAN]

\* The list is sorted: the newest nonces come first.
ListInOrder(list) ==
    /\ list \in Seq(Entry) /\ Len(list) <= MaxNonces
    /\ \A i, j \in 1..Len(list) : i < j => list[i].age <= list[j].age

\* A nonce of some age is given at a time that is too large for a long.
MadeLate(now, a) == Minus(now, a) > LongMax

\* A nonce that the server must still have, if it was given once only.
Serves(now, n) ==
    n.newer < MaxNonces /\ n.age <= 4 * NonceAge /\ ~MadeLate(now, n.age) /\ ~n.told

\* What the server knows of a nonce the browser has: it is on the list once, not
\* behind more nonces than were given since.
KnownIn(now, list, n) ==
    /\ n.told => n.age > NonceAge \/ MadeLate(now, n.age)
    /\ ~n.shared =>
         /\ \A i, j \in 1..Len(list) : list[i].age = n.age /\ list[j].age = n.age =>
              i = j /\ ~list[i].foreign
         /\ Serves(now, n) =>
              \E i \in 1..Len(list) : i <= n.newer + 1 /\ list[i].age = n.age

\* A count that is ahead of a request by no more than the requests made since.
Near(c, r) == c <= r.nc + r.after \/ r.after = Tolerance

\* The requests on their way, by what the list has of their nonces.
RequestsIn(now, list, requests) ==
    \A r \in requests :
      /\ r \in Request /\ KnownIn(now, list, r.nonce)
      /\ ~r.nonce.shared =>
           /\ \A i \in 1..Len(list) :
                list[i].age = r.nonce.age => Near(list[i].count, r)
           /\ \A q \in requests : q.nonce.age = r.nonce.age => Near(q.nc, r)

\* The nonce the browser uses, with the c requests it made with it.
HeldIn(now, list, requests, n, c) ==
    /\ KnownIn(now, list, n)
    /\ ~n.shared => \A i \in 1..Len(list) : list[i].age = n.age => list[i].count <= c
    /\ \A r \in requests :
         r.nonce.age = n.age /\ ~(n.shared /\ r.nonce.shared) => r.nc <= c /\ Near(c, r)

OldOrLate(a) == a > 4 * NonceAge \/ MadeLate(uptime, a)

\* The request being answered is the browser's as those on their way are.
OwnRequests == flying \cup {l.request : l \in {m \in lookups : m.own}}

\* find_nonce never passes the nonce it looks for, and erases old ones only, or
\* such as it takes for old.
LookupsGoOn ==
    \A l \in lookups :
      /\ Erases(l) => Seen(nonces[l.at].age) > 4 * NonceAge
      /\ \A i \in 1..Len(nonces) :
           i < l.at /\ nonces[i].age = Sought(l) => OldOrLate(nonces[i].age)
      /\ ~l.own => /\ \A n \in held : ~n.shared => n.age # Sought(l)
                   /\ \A r \in flying : ~r.nonce.shared => r.nonce.age # Sought(l)

\* The inductive invariant.
NonceInv ==
    /\ NonceTypeOK /\ ListInOrder(nonces)
    /\ RequestsIn(uptime, nonces, OwnRequests)
    /\ \A n \in held : HeldIn(uptime, nonces, OwnRequests, n, nc)
    /\ LookupsGoOn

LEMMA NonceNumbers ==
    /\ NonceAge \in Nat \ {0} /\ MaxNonces \in Nat \ {0} /\ Tolerance \in Nat \ {0}
    /\ MaxCount \in Nat \ {0} /\ Oldest \in Nat /\ 4 * NonceAge < Oldest
BY NoncesAssumption

LEMMA ClockNumbers ==
    ClockWrap \in Nat /\ Oldest < ClockWrap /\ LongMax \in 0..ClockWrap - 1
BY NoncesAssumption DEF LongMax

\* find_nonce sees the age of a nonce, if the time in it is one a long has, and
\* never a greater one than that of such a nonce that is older still.
LEMMA SeenIs ==
    ASSUME uptime \in 0..ClockWrap - 1, NEW a \in 0..Oldest
    PROVE  /\ Seen(a) \in Nat /\ (~MadeLate(uptime, a) => Seen(a) = a)
           /\ \A b \in 0..Oldest :
                a <= b /\ ~MadeLate(uptime, b) => Seen(a) <= b
BY NonceNumbers, ClockNumbers DEF Seen, Timestamp, Made, MadeLate, Minus

\* What it takes for old is old or late, and so is all that is older.
LEMMA SeenOld ==
    ASSUME uptime \in 0..ClockWrap - 1, NEW a \in 0..Oldest, Seen(a) > 4 * NonceAge,
           NEW b \in 0..Oldest, a <= b
    PROVE  OldOrLate(b)
<1>1. Seen(a) \in Nat /\ 4 * NonceAge \in Nat /\ b \in Nat
  BY SeenIs, NonceNumbers
<1> QED BY <1>1, SeenIs DEF OldOrLate

\* When a nonce was made does not change with time.
LEMMA MadeStays ==
    ASSUME NEW now \in 0..ClockWrap - 1, NEW a \in 0..Oldest, a < Oldest
    PROVE  LET next == IF now + 1 = ClockWrap THEN 0 ELSE now + 1
           IN next \in 0..ClockWrap - 1 /\ (MadeLate(next, a + 1) <=> MadeLate(now, a))
BY NonceNumbers, ClockNumbers DEF MadeLate, Minus

LEMMA LeastIs ==
    ASSUME NEW S \in SUBSET Nat, S # {}
    PROVE  Min(S) \in S /\ \A x \in S : Min(S) <= x
BY LeastNat DEF Min

LEMMA LesserIs ==
    ASSUME NEW a \in Nat, NEW b \in Nat
    PROVE  Min({a, b}) = IF a <= b THEN a ELSE b
<1>1. Min({a, b}) \in {a, b} /\ Min({a, b}) <= a /\ Min({a, b}) <= b
  BY LeastIs
<1> QED BY <1>1

\* Fields of the nonces and requests after a step of time or a new nonce.
LEMMA NewestFields ==
    ASSUME NEW n \in Nonce
    PROVE  /\ NotNewest(n) \in Nonce
           /\ NotNewest(n).age = n.age /\ NotNewest(n).told = n.told
           /\ NotNewest(n).shared <=> n.shared \/ n.age = 0
           /\ NotNewest(n).newer =
                IF n.newer + 1 <= MaxNonces THEN n.newer + 1 ELSE MaxNonces
<1>1. /\ n.age \in 0..Oldest /\ n.newer \in 0..MaxNonces
      /\ n.shared \in BOOLEAN /\ n.told \in BOOLEAN
      /\ n = [age |-> n.age, newer |-> n.newer, shared |-> n.shared, told |-> n.told]
  BY DEF Nonce
<1> DEFINE more == Min({n.newer + 1, MaxNonces})
           given == n.shared \/ n.age = 0
<1>2. more = IF n.newer + 1 <= MaxNonces THEN n.newer + 1 ELSE MaxNonces
  BY <1>1, NonceNumbers, LesserIs
<1>3. more \in 0..MaxNonces /\ given \in BOOLEAN
  BY <1>1, <1>2, NonceNumbers
<1> HIDE DEF more, given
<1>4. NotNewest(n) = [age |-> n.age, newer |-> more, shared |-> given, told |-> n.told]
  <2>1. NotNewest(n) = [n EXCEPT !.newer = more, !.shared = given]
    BY Zenon DEF NotNewest, more, given
  <2> QED BY <1>1, <2>1
<1>5. NotNewest(n) \in Nonce
  BY <1>1, <1>3, <1>4 DEF Nonce
<1>6. /\ NotNewest(n).age = n.age /\ NotNewest(n).told = n.told
      /\ NotNewest(n).shared = given /\ NotNewest(n).newer = more
  BY <1>4
<1> QED BY <1>2, <1>5, <1>6, Zenon DEF given

LEMMA OlderFields ==
    ASSUME NEW n \in Nonce, n.age < Oldest
    PROVE  /\ OneOlder(n) \in Nonce
           /\ OneOlder(n).age = n.age + 1 /\ OneOlder(n).told = n.told
           /\ OneOlder(n).shared = n.shared /\ OneOlder(n).newer = n.newer
<1>1. /\ n.age \in 0..Oldest /\ n.newer \in 0..MaxNonces
      /\ n.shared \in BOOLEAN /\ n.told \in BOOLEAN
      /\ n = [age |-> n.age, newer |-> n.newer, shared |-> n.shared, told |-> n.told]
  BY DEF Nonce
<1>2. n.age + 1 \in 0..Oldest
  BY <1>1, NonceNumbers
<1>3. OneOlder(n) = [age |-> n.age + 1, newer |-> n.newer, shared |-> n.shared,
                     told |-> n.told]
  BY <1>1 DEF OneOlder
<1> QED BY <1>1, <1>2, <1>3 DEF Nonce

LEMMA OtherNonce ==
    ASSUME NEW r \in Request, NEW n \in Nonce
    PROVE  LET q == [r EXCEPT !.nonce = n]
           IN q \in Request /\ q.nonce = n /\ q.nc = r.nc /\ q.after = r.after
BY DEF Request

\* The list without one of its nonces.
LEMMA RemovalKeeps ==
    ASSUME NEW list, ListInOrder(list), NEW i \in 1..Len(list)
    PROVE  LET rest == RemoveAt(list, i)
           IN /\ ListInOrder(rest) /\ Len(rest) = Len(list) - 1
              /\ \A k \in 1..Len(rest) : rest[k] = list[IF k < i THEN k ELSE k + 1]
              /\ \A k \in 1..Len(rest) : \E j \in 1..Len(list) : rest[k] = list[j]
              /\ \A now : \A n \in Nonce :
                   KnownIn(now, list, n) /\ (~n.shared /\ list[i].age = n.age => ~Serves(now, n))
                     => KnownIn(now, rest, n)
<1> DEFINE rest == RemoveAt(list, i)
           from(k) == IF k < i THEN k ELSE k + 1
<1>1. list \in Seq(Entry) /\ Len(list) <= MaxNonces /\ Len(list) \in Nat
  BY DEF ListInOrder
<1>2. /\ rest \in Seq(Entry) /\ Len(rest) = Len(list) - 1
      /\ \A k \in 1..Len(list) - 1 : rest[k] = list[from(k)]
  BY <1>1, Removed, Zenon
<1> HIDE DEF rest
<1>3. \A k \in 1..Len(rest) : from(k) \in 1..Len(list) /\ from(k) # i /\ from(k) >= k
  BY <1>1, <1>2
<1>4. \A j, k \in 1..Len(rest) :
         (j < k => from(j) < from(k)) /\ (from(j) = from(k) => j = k)
  BY <1>1, <1>2
<1>5. \A k \in 1..Len(list) : k # i =>
         \E j \in 1..Len(rest) : j <= k /\ from(j) = k
  <2> TAKE k \in 1..Len(list)
  <2> HAVE k # i
  <2>1. CASE k < i
    <3>1. k \in 1..Len(rest) /\ k <= k /\ from(k) = k
      BY <1>1, <1>2, <2>1
    <3> QED BY <3>1
  <2>2. CASE k > i
    <3>1. k - 1 \in 1..Len(rest) /\ k - 1 <= k /\ from(k - 1) = k
      BY <1>1, <1>2, <2>2
    <3> QED BY <3>1
  <2> QED BY <1>1, <2>1, <2>2
<1>6. \A k \in 1..Len(rest) : rest[k] = list[from(k)]
  BY <1>2
<1> HIDE DEF from
<1>7. ListInOrder(rest)
  <2>1. Len(rest) <= MaxNonces
    BY <1>1, <1>2, NonceNumbers
  <2>2. \A j, k \in 1..Len(rest) : j < k => rest[j].age <= rest[k].age
    BY <1>3, <1>4, <1>6 DEF ListInOrder
  <2> QED BY <1>2, <2>1, <2>2 DEF ListInOrder
<1>8. ASSUME NEW now, NEW n \in Nonce, KnownIn(now, list, n),
             ~n.shared /\ list[i].age = n.age => ~Serves(now, n)
      PROVE  KnownIn(now, rest, n)
  <2>1. ASSUME ~n.shared, NEW j \in 1..Len(rest), NEW k \in 1..Len(rest),
               rest[j].age = n.age, rest[k].age = n.age
        PROVE  j = k /\ ~rest[j].foreign
    BY <1>3, <1>4, <1>6, <1>8, <2>1 DEF KnownIn
  <2>2. ASSUME ~n.shared, Serves(now, n)
        PROVE  \E j \in 1..Len(rest) : j <= n.newer + 1 /\ rest[j].age = n.age
    <3>1. PICK k \in 1..Len(list) : k <= n.newer + 1 /\ list[k].age = n.age
      BY <1>8, <2>2 DEF KnownIn
    <3>2. k # i
      BY <1>8, <2>2, <3>1
    <3>3. PICK j \in 1..Len(rest) : j <= k /\ from(j) = k
      BY <1>5, <3>2
    <3>4. j <= n.newer + 1
      <4>1. n.newer \in Nat /\ j \in Int /\ k \in Int
        BY DEF Nonce
      <4> QED BY <3>1, <3>3, <4>1
    <3> QED BY <1>6, <3>1, <3>3, <3>4
  <2> QED BY <1>8, <2>1, <2>2 DEF KnownIn
<1>9. \A k \in 1..Len(rest) : \E j \in 1..Len(list) : rest[k] = list[j]
  BY <1>3, <1>6
<1> QED BY <1>2, <1>6, <1>7, <1>8, <1>9, Zenon DEF rest, from

\* A new nonce before the others.
Pushed(list, foreign) ==
    LET longer == <<[age |-> 0, count |-> 0, foreign |-> foreign]>> \o list
    IN SubSeq(longer, 1, Min({Len(longer), MaxNonces}))

\* The list after create_nonce: the new one in front of the others, the last of a
\* full one gone.
LEMMA PushedIs ==
    ASSUME NEW list, ListInOrder(list), NEW foreign \in BOOLEAN
    PROVE  LET longer == Pushed(list, foreign)
           IN /\ ListInOrder(longer) /\ Len(longer) \in 1..MaxNonces
              /\ Len(longer) = IF Len(list) + 1 <= MaxNonces THEN Len(list) + 1 ELSE MaxNonces
              /\ longer[1] = [age |-> 0, count |-> 0, foreign |-> foreign]
              /\ \A k \in 2..Len(longer) : k - 1 \in 1..Len(list) /\ longer[k] = list[k - 1]
<1> DEFINE first == [age |-> 0, count |-> 0, foreign |-> foreign]
           all == <<first>> \o list
           m == Min({Len(all), MaxNonces})
           longer == SubSeq(all, 1, m)
<1>1. list \in Seq(Entry) /\ Len(list) \in Nat /\ first \in Entry
  <2>1. 0 \in 0..Oldest /\ 0 \in 0..MaxCount
    BY NonceNumbers
  <2> QED BY <2>1 DEF ListInOrder, Entry
<1> HIDE DEF first
<1>2. /\ all \in Seq(Entry) /\ Len(all) = Len(list) + 1 /\ all[1] = first
      /\ \A k \in 2..Len(list) + 1 : all[k] = list[k - 1]
  BY <1>1
<1> HIDE DEF all
<1>0. MaxNonces \in Nat \ {0} /\ Len(all) \in Nat /\ MaxNonces \in Nat
  BY <1>1, <1>2, NonceNumbers
<1>3. m = (IF Len(list) + 1 <= MaxNonces THEN Len(list) + 1 ELSE MaxNonces)
  BY <1>0, <1>2, LesserIs
<1> HIDE DEF m
<1>4. m \in 1..Len(all) /\ m <= MaxNonces /\ m \in 1..MaxNonces
  BY <1>0, <1>1, <1>2, <1>3
<1>5. /\ longer \in Seq(Entry) /\ Len(longer) = m
      /\ \A k \in 1..m : longer[k] = all[k]
  BY <1>2, <1>4
<1> HIDE DEF longer
<1>6. longer[1] = first /\ \A k \in 2..m : k - 1 \in 1..Len(list) /\ longer[k] = list[k - 1]
  <2>1. longer[1] = first
    BY <1>2, <1>4, <1>5
  <2>2. ASSUME NEW k \in 2..m PROVE k - 1 \in 1..Len(list) /\ longer[k] = list[k - 1]
    BY <1>1, <1>2, <1>4, <1>5
  <2> QED BY <2>1, <2>2
<1>7. \A j, k \in 1..m : j < k => longer[j].age <= longer[k].age
  <2> SUFFICES ASSUME NEW j \in 1..m, NEW k \in 1..m, j < k
               PROVE  longer[j].age <= longer[k].age
    OBVIOUS
  <2>1. k \in 2..m /\ k - 1 \in 1..Len(list) /\ longer[k] = list[k - 1]
    BY <1>4, <1>6
  <2>2. CASE j = 1
    <3>1. list[k - 1].age \in Nat /\ longer[1].age = 0
      <4>1. list[k - 1] \in Entry
        BY <1>1, <2>1
      <4>2. first.age = 0
        BY DEF first
      <4> QED BY <1>6, <4>1, <4>2 DEF Entry
    <3> QED BY <2>1, <2>2, <3>1
  <2>3. CASE j # 1
    <3>1. j \in 2..m /\ j - 1 < k - 1
      BY <1>4, <2>3
    <3> QED BY <1>6, <2>1, <3>1 DEF ListInOrder
  <2> QED BY <2>2, <2>3
<1>8. longer = Pushed(list, foreign)
  BY DEF Pushed, longer, m, all, first
<1> QED BY <1>3, <1>4, <1>5, <1>6, <1>7, <1>8, Zenon DEF ListInOrder, first

\* A nonce that was good stays so while fewer than MaxNonces newer ones were given.
LEMMA PushedKeeps ==
    ASSUME NEW list, ListInOrder(list), NEW foreign \in BOOLEAN,
           NEW now, NEW n \in Nonce, KnownIn(now, list, n)
    PROVE  KnownIn(now, Pushed(list, foreign), NotNewest(n))
<1> DEFINE longer == Pushed(list, foreign)
           m == NotNewest(n)
<1>1. /\ Len(longer) = (IF Len(list) + 1 <= MaxNonces THEN Len(list) + 1 ELSE MaxNonces)
      /\ longer[1] = [age |-> 0, count |-> 0, foreign |-> foreign]
      /\ \A k \in 2..Len(longer) : k - 1 \in 1..Len(list) /\ longer[k] = list[k - 1]
  BY PushedIs
<1>2. Len(list) \in Nat /\ n.age \in Nat /\ n.newer \in Nat /\ Len(longer) \in Nat
  BY <1>1, NonceNumbers DEF ListInOrder, Nonce
<1>3. /\ m.age = n.age /\ m.told = n.told /\ (m.shared <=> n.shared \/ n.age = 0)
      /\ m.newer = IF n.newer + 1 <= MaxNonces THEN n.newer + 1 ELSE MaxNonces
  BY NewestFields
<1> HIDE DEF longer, m
<1>4. m.told => m.age > NonceAge \/ MadeLate(now, m.age)
  BY <1>3 DEF KnownIn
<1>5. ASSUME ~m.shared, NEW j \in 1..Len(longer), NEW k \in 1..Len(longer),
             longer[j].age = m.age, longer[k].age = m.age
      PROVE  j = k /\ ~longer[j].foreign
  <2>1. ~n.shared /\ n.age # 0
    BY <1>3, <1>5
  <2>2. j # 1 /\ k # 1
    <3>1. longer[1].age = 0
      BY <1>1
    <3> QED BY <1>3, <1>5, <2>1, <3>1
  <2>3. j \in 2..Len(longer) /\ k \in 2..Len(longer)
    BY <1>2, <2>2
  <2>4. /\ j - 1 \in 1..Len(list) /\ longer[j] = list[j - 1]
        /\ k - 1 \in 1..Len(list) /\ longer[k] = list[k - 1]
    BY <1>1, <2>3
  <2>5. j - 1 = k - 1 /\ ~list[j - 1].foreign
    BY <1>3, <1>5, <2>1, <2>4 DEF KnownIn
  <2> QED BY <2>3, <2>4, <2>5
<1>6. ASSUME ~m.shared, Serves(now, m)
      PROVE  \E k \in 1..Len(longer) : k <= m.newer + 1 /\ longer[k].age = m.age
  <2>1. ~n.shared /\ Serves(now, n) /\ m.newer = n.newer + 1 /\ n.newer + 1 < MaxNonces
    BY <1>2, <1>3, <1>6, NonceNumbers DEF Serves
  <2>2. PICK i \in 1..Len(list) : i <= n.newer + 1 /\ list[i].age = n.age
    BY <2>1 DEF KnownIn
  <2>3. i + 1 \in 2..Len(longer) /\ i + 1 <= m.newer + 1 /\ (i + 1) - 1 = i
    BY <1>1, <1>2, <2>1, <2>2, NonceNumbers
  <2>4. longer[i + 1] = list[i] /\ i + 1 \in 1..Len(longer)
    BY <1>1, <2>3
  <2> QED BY <1>3, <2>2, <2>3, <2>4
<1> QED BY <1>4, <1>5, <1>6 DEF KnownIn, longer, m

\* What the browser gets.
Given(shared) == [age |-> 0, newer |-> 0, told |-> FALSE, shared |-> shared]

\* The new nonce is known to the server, as nobody else's unless of the same
\* millisecond.
LEMMA GivenKnown ==
    ASSUME NEW list, ListInOrder(list), NEW shared \in BOOLEAN,
           ~shared => \A i \in 1..Len(list) : list[i].age # 0
    PROVE  /\ Given(shared) \in Nonce
           /\ \A now : KnownIn(now, Pushed(list, FALSE), Given(shared))
           /\ ~shared => \A i \in 1..Len(Pushed(list, FALSE)) :
                           Pushed(list, FALSE)[i].age = 0 => Pushed(list, FALSE)[i].count = 0
<1> DEFINE longer == Pushed(list, FALSE)
           n == Given(shared)
<1>1. /\ Len(longer) \in 1..MaxNonces
      /\ longer[1] = [age |-> 0, count |-> 0, foreign |-> FALSE]
      /\ \A k \in 2..Len(longer) : k - 1 \in 1..Len(list) /\ longer[k] = list[k - 1]
  BY PushedIs
<1>2. n.age = 0 /\ n.newer = 0 /\ n.told = FALSE /\ n.shared = shared
  BY DEF Given
<1>3. n \in Nonce
  <2>1. 0 \in 0..Oldest /\ 0 \in 0..MaxNonces
    BY NonceNumbers
  <2> QED BY <2>1 DEF Given, Nonce
<1> HIDE DEF longer, n
<1>4. ASSUME ~shared, NEW i \in 1..Len(longer), longer[i].age = 0
      PROVE  i = 1
  <2>1. i # 1 => i \in 2..Len(longer)
    BY <1>1
  <2> QED BY <1>1, <1>4, <2>1
<1>5. 1 \in 1..Len(longer) /\ 1 <= n.newer + 1 /\ longer[1].age = 0 /\ longer[1].foreign = FALSE
      /\ longer[1].count = 0
  BY <1>1, <1>2
<1>6. \A now : KnownIn(now, longer, n)
  BY <1>2, <1>4, <1>5 DEF KnownIn
<1> QED BY <1>3, <1>4, <1>5, <1>6 DEF longer, n

Renewed(r) == [r EXCEPT !.nonce = NotNewest(@)]

LEMMA RenewedFields ==
    ASSUME NEW r \in Request
    PROVE  /\ r.nonce \in Nonce /\ Renewed(r) \in Request
           /\ Renewed(r).nonce = NotNewest(r.nonce)
           /\ Renewed(r).nc = r.nc /\ Renewed(r).after = r.after
<1>1. r.nonce \in Nonce
  BY DEF Request
<1>2. NotNewest(r.nonce) \in Nonce
  BY <1>1, NewestFields
<1>3. Renewed(r) = [r EXCEPT !.nonce = NotNewest(r.nonce)]
  BY DEF Renewed
<1> QED BY <1>1, <1>2, <1>3, OtherNonce

\* The same of the nonces of all requests, and of the browser's.
LEMMA PushedRequests ==
    ASSUME NEW list, ListInOrder(list), NEW foreign \in BOOLEAN,
           NEW now, NEW requests, RequestsIn(now, list, requests)
    PROVE  RequestsIn(now, Pushed(list, foreign), {Renewed(r) : r \in requests})
<1> DEFINE longer == Pushed(list, foreign)
<1>1. /\ longer[1] = [age |-> 0, count |-> 0, foreign |-> foreign]
      /\ \A k \in 2..Len(longer) : k - 1 \in 1..Len(list) /\ longer[k] = list[k - 1]
      /\ Len(longer) \in Nat
  BY PushedIs
<1> SUFFICES ASSUME NEW r \in requests
             PROVE  LET p == Renewed(r)
                    IN /\ p \in Request /\ KnownIn(now, longer, p.nonce)
                       /\ ~p.nonce.shared =>
                            /\ \A i \in 1..Len(longer) :
                                 longer[i].age = p.nonce.age => Near(longer[i].count, p)
                            /\ \A q \in {Renewed(s) : s \in requests} :
                                 q.nonce.age = p.nonce.age => Near(q.nc, p)
  BY Zenon DEF RequestsIn
<1> DEFINE p == Renewed(r)
<1>2. r \in Request /\ KnownIn(now, list, r.nonce)
  BY DEF RequestsIn
<1>3. /\ r.nonce \in Nonce /\ p \in Request /\ p.nonce = NotNewest(r.nonce)
      /\ p.nc = r.nc /\ p.after = r.after
  BY <1>2, RenewedFields
<1>4. /\ p.nonce.age = r.nonce.age
      /\ p.nonce.shared <=> r.nonce.shared \/ r.nonce.age = 0
  BY <1>3, NewestFields
<1>5. KnownIn(now, longer, p.nonce)
  BY <1>2, <1>3, PushedKeeps
<1> HIDE DEF longer, p
<1>6. \A c : Near(c, r) => Near(c, p)
  BY <1>3 DEF Near
<1>7. ASSUME ~p.nonce.shared, NEW i \in 1..Len(longer), longer[i].age = p.nonce.age
      PROVE  Near(longer[i].count, p)
  <2>1. ~r.nonce.shared /\ r.nonce.age # 0
    BY <1>4, <1>7
  <2>2. i # 1
    <3>1. longer[1].age = 0
      BY <1>1
    <3> QED BY <1>4, <1>7, <2>1, <3>1
  <2>3. i - 1 \in 1..Len(list) /\ longer[i] = list[i - 1]
    <3>1. i \in 2..Len(longer)
      BY <1>1, <2>2
    <3> QED BY <1>1, <3>1
  <2>4. Near(list[i - 1].count, r)
    BY <1>4, <1>7, <2>1, <2>3 DEF RequestsIn
  <2> QED BY <1>6, <2>3, <2>4
<1>8. ASSUME ~p.nonce.shared, NEW s \in requests, Renewed(s).nonce.age = p.nonce.age
      PROVE  Near(Renewed(s).nc, p)
  <2>1. s \in Request
    BY DEF RequestsIn
  <2>2. s.nonce \in Nonce /\ Renewed(s).nonce = NotNewest(s.nonce) /\ Renewed(s).nc = s.nc
    BY <2>1, RenewedFields
  <2>3. s.nonce.age = r.nonce.age /\ ~r.nonce.shared
    BY <1>4, <1>8, <2>2, NewestFields
  <2>4. Near(s.nc, r)
    BY <2>3 DEF RequestsIn
  <2> QED BY <1>6, <2>2, <2>4
<1>9. \A q \in {Renewed(s) : s \in requests} :
         ~p.nonce.shared /\ q.nonce.age = p.nonce.age => Near(q.nc, p)
  BY <1>8
<1> QED BY <1>3, <1>5, <1>7, <1>9, Zenon DEF p

LEMMA PushedHeld ==
    ASSUME NEW list, ListInOrder(list), NEW foreign \in BOOLEAN,
           NEW now, NEW requests, RequestsIn(now, list, requests),
           NEW n \in Nonce, NEW c \in Nat, HeldIn(now, list, requests, n, c)
    PROVE  HeldIn(now, Pushed(list, foreign), {Renewed(r) : r \in requests}, NotNewest(n), c)
<1> DEFINE longer == Pushed(list, foreign)
           m == NotNewest(n)
<1>1. /\ longer[1] = [age |-> 0, count |-> 0, foreign |-> foreign]
      /\ \A k \in 2..Len(longer) : k - 1 \in 1..Len(list) /\ longer[k] = list[k - 1]
      /\ Len(longer) \in Nat
  BY PushedIs
<1>2. m.age = n.age /\ (m.shared <=> n.shared \/ n.age = 0)
  BY NewestFields
<1>3. KnownIn(now, longer, m)
  <2>1. KnownIn(now, list, n)
    BY DEF HeldIn
  <2> QED BY <2>1, PushedKeeps
<1> HIDE DEF longer, m
<1>4. ASSUME ~m.shared, NEW i \in 1..Len(longer), longer[i].age = m.age
      PROVE  longer[i].count <= c
  <2>1. i # 1
    <3>1. longer[1].age = 0
      BY <1>1
    <3> QED BY <1>2, <1>4, <3>1
  <2>2. i - 1 \in 1..Len(list) /\ longer[i] = list[i - 1]
    <3>1. i \in 2..Len(longer)
      BY <1>1, <2>1
    <3> QED BY <1>1, <3>1
  <2> QED BY <1>2, <1>4, <2>2 DEF HeldIn
<1>5. ASSUME NEW r \in requests, Renewed(r).nonce.age = m.age,
             ~(m.shared /\ Renewed(r).nonce.shared)
      PROVE  Renewed(r).nc <= c /\ Near(c, Renewed(r))
  <2>1. r \in Request
    BY DEF RequestsIn
  <2>2. /\ r.nonce \in Nonce /\ Renewed(r).nonce = NotNewest(r.nonce)
        /\ Renewed(r).nc = r.nc /\ Renewed(r).after = r.after
    BY <2>1, RenewedFields
  <2>3. r.nonce.age = n.age /\ ~(n.shared /\ r.nonce.shared)
    BY <1>2, <1>5, <2>2, NewestFields
  <2>4. r.nc <= c /\ Near(c, r)
    BY <2>3 DEF HeldIn
  <2> QED BY <2>2, <2>4 DEF Near
<1>6. \A q \in {Renewed(r) : r \in requests} :
         q.nonce.age = m.age /\ ~(m.shared /\ q.nonce.shared) => q.nc <= c /\ Near(c, q)
  BY <1>5
<1> QED BY <1>3, <1>4, <1>6, Zenon DEF HeldIn, longer, m

\* A nonce leaves the list: no request that it would serve has it.
LEMMA RemovedRequests ==
    ASSUME NEW list, ListInOrder(list), NEW i \in 1..Len(list),
           NEW now, NEW requests, RequestsIn(now, list, requests),
           \A r \in requests : ~r.nonce.shared /\ list[i].age = r.nonce.age
                                 => ~Serves(now, r.nonce)
    PROVE  RequestsIn(now, RemoveAt(list, i), requests)
<1> DEFINE rest == RemoveAt(list, i)
<1>1. \A k \in 1..Len(rest) : \E j \in 1..Len(list) : rest[k] = list[j]
  BY RemovalKeeps
<1>2. ASSUME NEW r \in requests PROVE r \in Request /\ KnownIn(now, rest, r.nonce)
  <2>1. r \in Request /\ KnownIn(now, list, r.nonce)
    BY DEF RequestsIn
  <2>2. r.nonce \in Nonce
    BY <2>1 DEF Request
  <2> QED BY <2>1, <2>2, RemovalKeeps
<1> HIDE DEF rest
<1>3. RequestsIn(now, rest, requests)
  BY <1>1, <1>2 DEF RequestsIn
<1> QED BY <1>3 DEF rest

LEMMA RemovedHeld ==
    ASSUME NEW list, ListInOrder(list), NEW i \in 1..Len(list), NEW requests,
           NEW now, NEW n \in Nonce, NEW c, HeldIn(now, list, requests, n, c),
           ~n.shared /\ list[i].age = n.age => ~Serves(now, n)
    PROVE  HeldIn(now, RemoveAt(list, i), requests, n, c)
<1> DEFINE rest == RemoveAt(list, i)
<1>1. \A k \in 1..Len(rest) : \E j \in 1..Len(list) : rest[k] = list[j]
  BY RemovalKeeps
<1>2. KnownIn(now, rest, n)
  BY RemovalKeeps DEF HeldIn
<1> HIDE DEF rest
<1>3. HeldIn(now, rest, requests, n, c)
  BY <1>1, <1>2 DEF HeldIn
<1> QED BY <1>3 DEF rest

\* A count goes up.
LEMMA CountGrows ==
    ASSUME NEW list, ListInOrder(list), NEW i \in 1..Len(list), NEW c \in 1..MaxCount
    PROVE  LET new == [list EXCEPT ![i].count = IF c > @ THEN c ELSE @]
           IN /\ ListInOrder(new) /\ Len(new) = Len(list)
              /\ \A k \in 1..Len(list) :
                   /\ new[k].age = list[k].age /\ new[k].foreign = list[k].foreign
                   /\ new[k].count = list[k].count \/ (k = i /\ new[k].count = c)
              /\ \A now, n : KnownIn(now, list, n) => KnownIn(now, new, n)
<1> DEFINE new == [list EXCEPT ![i].count = IF c > @ THEN c ELSE @]
           d == IF c > list[i].count THEN c ELSE list[i].count
           e == [age |-> list[i].age, count |-> d, foreign |-> list[i].foreign]
<1>1. list \in Seq(Entry) /\ Len(list) \in Nat /\ DOMAIN list = 1..Len(list)
      /\ \A k \in 1..Len(list) : list[k] \in Entry
  BY DEF ListInOrder
<1>2. d = list[i].count \/ d = c
  OBVIOUS
<1>3. d \in 0..MaxCount
  <2>1. list[i].count \in 0..MaxCount /\ c \in 0..MaxCount
    BY <1>1, NonceNumbers DEF Entry
  <2> QED BY <1>2, <2>1
<1>4. new = [list EXCEPT ![i] = e]
  <2>1. new = [list EXCEPT ![i] = [list[i] EXCEPT !.count = d]]
    OBVIOUS
  <2> HIDE DEF d
  <2>2. [list[i] EXCEPT !.count = d] = e
    BY <1>1 DEF Entry
  <2> QED BY <2>1, <2>2
<1>5. e \in Entry /\ e.age = list[i].age /\ e.foreign = list[i].foreign /\ e.count = d
  <2> HIDE DEF d
  <2> QED BY <1>1, <1>3 DEF Entry
<1> HIDE DEF new, d, e
<1>6. /\ new \in Seq(Entry) /\ Len(new) = Len(list)
      /\ \A k \in 1..Len(list) : new[k] = IF k = i THEN e ELSE list[k]
  BY <1>1, <1>4, <1>5
<1>7. \A k \in 1..Len(list) :
        /\ new[k].age = list[k].age /\ new[k].foreign = list[k].foreign
        /\ new[k].count = list[k].count \/ (k = i /\ new[k].count = c)
  <2> TAKE k \in 1..Len(list)
  <2>1. CASE k = i
    <3>1. new[k] = e
      BY <1>6, <2>1
    <3>2. e.count = list[k].count \/ e.count = c
      BY <1>2, <1>5, <2>1
    <3> QED BY <1>5, <2>1, <3>1, <3>2
  <2>2. CASE k # i
    BY <1>6, <2>2
  <2> QED BY <2>1, <2>2
<1>8. ListInOrder(new)
  BY <1>6, <1>7 DEF ListInOrder
<1>9. \A now, n : KnownIn(now, list, n) => KnownIn(now, new, n)
  BY <1>6, <1>7 DEF KnownIn
<1> QED BY <1>6, <1>7, <1>8, <1>9, Zenon DEF new

\* Where the loop of find_nonce stops, and what it has passed.
LEMMA StopsWhere ==
    ASSUME NEW list, ListInOrder(list), NEW sought, NEW from \in 1..Len(list) + 1
    PROVE  LET s == StopsAt(list, sought, from)
           IN /\ s \in 1..Len(list) + 1 /\ s >= from
              /\ s \in 1..Len(list) => list[s].age = sought \/ Seen(list[s].age) > 4 * NonceAge
              /\ \A i \in 1..Len(list) : from <= i /\ i < s =>
                   list[i].age # sought
<1> DEFINE T == {i \in from..Len(list) : list[i].age = sought \/ Seen(list[i].age) > 4 * NonceAge}
           s == StopsAt(list, sought, from)
<1>1. /\ Len(list) \in Nat /\ from \in Nat
  BY DEF ListInOrder
<1>2. T \cup {Len(list) + 1} \in SUBSET Nat /\ T \cup {Len(list) + 1} # {}
  BY <1>1
<1>3. s = Min(T \cup {Len(list) + 1})
  BY DEF StopsAt
<1>4. s \in T \cup {Len(list) + 1} /\ \A x \in T \cup {Len(list) + 1} : s <= x
  <2> HIDE DEF T, s
  <2> QED BY <1>2, <1>3, LeastIs
<1> HIDE DEF s
<1>5. s \in 1..Len(list) + 1 /\ s >= from
  BY <1>1, <1>4
<1>6. s \in 1..Len(list) => list[s].age = sought \/ Seen(list[s].age) > 4 * NonceAge
  BY <1>1, <1>4
<1>7. ASSUME NEW i \in 1..Len(list), from <= i, i < s
      PROVE  list[i].age # sought
  <2>1. i \notin T /\ i \in from..Len(list)
    BY <1>1, <1>4, <1>5, <1>7
  <2> QED BY <2>1
<1> QED BY <1>5, <1>6, <1>7 DEF s

\* The parts of the invariant, in the form the steps use.
LEMMA NonceTypes ==
    ASSUME NonceInv
    PROVE  /\ uptime \in 0..ClockWrap - 1
           /\ ListInOrder(nonces) /\ nc \in 0..MaxCount /\ held \subseteq Nonce
           /\ \A m, n \in held : m = n
           /\ flying \subseteq Request /\ lookups \subseteq Lookup
           /\ \A l, m \in lookups : l = m
           /\ OwnRequests \subseteq Request
           /\ RequestsIn(uptime, nonces, OwnRequests)
           /\ \A n \in held : HeldIn(uptime, nonces, OwnRequests, n, nc)
BY DEF NonceInv, NonceTypeOK, OwnRequests, Lookup

LEMMA WhoseRequests ==
    ASSUME NonceInv
    PROVE  /\ lookups = {} => OwnRequests = flying
           /\ \A l \in lookups :
                /\ l.own => OwnRequests = flying \cup {l.request}
                /\ ~l.own => OwnRequests = flying
<1>1. lookups = {} => OwnRequests = flying
  BY DEF OwnRequests
<1>2. ASSUME NEW l \in lookups
      PROVE  /\ l.own => OwnRequests = flying \cup {l.request}
             /\ ~l.own => OwnRequests = flying
  <2>1. \A m \in lookups : m = l
    BY NonceTypes
  <2> QED BY <2>1 DEF OwnRequests
<1> QED BY <1>1, <1>2

LEMMA Fewer ==
    ASSUME NEW now, NEW list, NEW all, RequestsIn(now, list, all), NEW some \in SUBSET all
    PROVE  /\ RequestsIn(now, list, some)
           /\ \A n, c : HeldIn(now, list, all, n, c) => HeldIn(now, list, some, n, c)
BY DEF RequestsIn, HeldIn

\* When nothing is looked up.
LEMMA IdleInv ==
    ASSUME uptime' \in 0..ClockWrap - 1, ListInOrder(nonces'), nc' \in 0..MaxCount,
           held' \subseteq Nonce, \A m, n \in held' : m = n,
           lookups' = {}, RequestsIn(uptime', nonces', flying'),
           \A n \in held' : HeldIn(uptime', nonces', flying', n, nc')
    PROVE  NonceInv'
<1>1. OwnRequests' = flying'
  BY DEF OwnRequests
<1>2. flying' \subseteq Request
  BY DEF RequestsIn
<1>3. NonceTypeOK'
  BY <1>2 DEF NonceTypeOK, ListInOrder, Entry
<1>4. LookupsGoOn'
  BY DEF LookupsGoOn
<1> QED BY <1>1, <1>3, <1>4, Zenon DEF NonceInv

\* The browser gets a new nonce.
LEMMA ChallengedKeeps ==
    ASSUME NEW list, ListInOrder(list), NEW requests, RequestsIn(uptime, list, requests),
           Challenged(list, requests), lookups' = {},
           uptime \in 0..ClockWrap - 1, uptime' = uptime
    PROVE  NonceInv'
<1> DEFINE shared == \/ \E i \in DOMAIN list : list[i].age = 0
                     \/ \E r \in requests : r.nonce.age = 0
           gift == Given(shared)
<1>1. /\ nonces' = Pushed(list, FALSE) /\ flying' = {Renewed(r) : r \in requests}
      /\ nc' = 0 /\ held' = {gift}
  BY DEF Challenged, Challenge, Pushed, Renewed, Given
<1>2. ListInOrder(nonces') /\ RequestsIn(uptime, nonces', flying')
  BY <1>1, PushedIs, PushedRequests, Zenon
<1>3. DOMAIN list = 1..Len(list)
  BY DEF ListInOrder
<1>4. shared \in BOOLEAN /\ (~shared => \A i \in 1..Len(list) : list[i].age # 0)
      /\ (~shared => \A r \in requests : r.nonce.age # 0)
  BY <1>3
<1> HIDE DEF shared
<1>5. /\ gift \in Nonce /\ KnownIn(uptime, nonces', gift)
      /\ ~shared => \A i \in 1..Len(nonces') : nonces'[i].age = 0 => nonces'[i].count = 0
  BY <1>1, <1>4, GivenKnown, Zenon
<1>6. gift.age = 0 /\ gift.shared = shared
  BY DEF Given
<1> HIDE DEF gift
<1>7. HeldIn(uptime, nonces', flying', gift, 0)
  <2>1. ~gift.shared => \A i \in 1..Len(nonces') :
                          nonces'[i].age = gift.age => nonces'[i].count <= 0
    BY <1>5, <1>6
  <2>2. ASSUME NEW q \in flying', q.nonce.age = gift.age
        PROVE  gift.shared /\ q.nonce.shared
    <3>1. PICK r \in requests : q = Renewed(r)
      BY <1>1
    <3>2. r \in Request
      BY DEF RequestsIn
    <3>3. r.nonce \in Nonce /\ q.nonce = NotNewest(r.nonce)
      BY <3>1, <3>2, RenewedFields
    <3>4. r.nonce.age = 0 /\ q.nonce.shared
      BY <1>6, <2>2, <3>3, NewestFields
    <3> QED BY <1>4, <1>6, <3>4
  <2> QED BY <1>5, <2>1, <2>2 DEF HeldIn
<1>8. 0 \in 0..MaxCount
  BY NonceNumbers
<1> QED BY <1>1, <1>2, <1>5, <1>7, <1>8, IdleInv

\* Another client gets one.
LEMMA OthersKeep ==
    ASSUME NonceInv, NEW list, ListInOrder(list), RequestsIn(uptime, list, flying),
           \A n \in held : HeldIn(uptime, list, flying, n, nc),
           OthersChallenge(list), nc' = nc, lookups' = {}, uptime' = uptime
    PROVE  NonceInv'
<1>1. /\ nonces' = Pushed(list, TRUE) /\ flying' = {Renewed(r) : r \in flying}
      /\ held' = {NotNewest(n) : n \in held}
  BY DEF OthersChallenge, Challenge, Pushed, Renewed
<1>2. uptime \in 0..ClockWrap - 1 /\ nc \in 0..MaxCount /\ nc \in Nat /\ held \subseteq Nonce /\ \A m, n \in held : m = n
  BY NonceTypes, NonceNumbers
<1>3. ListInOrder(nonces') /\ RequestsIn(uptime, nonces', flying')
  BY <1>1, PushedIs, PushedRequests, Zenon
<1>4. \A n \in held : NotNewest(n) \in Nonce
  BY <1>2, NewestFields
<1>5. \A n \in held : HeldIn(uptime, nonces', flying', NotNewest(n), nc)
  BY <1>1, <1>2, PushedHeld, Zenon
<1>6. held' \subseteq Nonce /\ \A m, n \in held' : m = n
  BY <1>1, <1>2, <1>4, Zenon
<1>7. \A n \in held' : HeldIn(uptime, nonces', flying', n, nc')
  BY <1>1, <1>5, Zenon
<1> QED BY <1>2, <1>3, <1>6, <1>7, IdleInv

\* Challenges without a lookup before them.
LEMMA FirstKeeps ==
    ASSUME NonceInv, FirstRequest \/ OtherChallenged PROVE NonceInv'
<1>1. /\ ListInOrder(nonces) /\ lookups = {} /\ lookups' = {}
      /\ uptime' = uptime /\ uptime \in 0..ClockWrap - 1
      /\ RequestsIn(uptime, nonces, flying) /\ \A n \in held : HeldIn(uptime, nonces, flying, n, nc)
  BY NonceTypes, WhoseRequests DEF FirstRequest, OtherChallenged
<1>2. CASE FirstRequest
  BY <1>1, <1>2, ChallengedKeeps DEF FirstRequest
<1>3. CASE OtherChallenged
  BY <1>1, <1>3, OthersKeep DEF OtherChallenged
<1> QED BY <1>2, <1>3

\* What find_nonce finds.
LEMMA Finds ==
    ASSUME NonceInv, NEW l \in lookups, ~Erases(l)
    PROVE  LET find == FindNonce(l)
               i == l.at
           IN \/ /\ find.is = "refused" /\ find.list = nonces
                 /\ i \in 1..Len(nonces) =>
                      nonces[i].age = Sought(l) /\ Replayed(nonces[i], l.request.nc)
              \/ /\ i \in 1..Len(nonces) /\ nonces[i].age = Sought(l)
                 /\ find.is = "stale" /\ find.list = RemoveAt(nonces, i)
                 /\ Seen(Sought(l)) > NonceAge
              \/ /\ i \in 1..Len(nonces) /\ nonces[i].age = Sought(l)
                 /\ find.is = "accepted" /\ ~(Seen(Sought(l)) > NonceAge)
                 /\ find.list = [nonces EXCEPT ![i].count =
                                   IF l.request.nc > @ THEN l.request.nc ELSE @]
<1>1. DOMAIN nonces = 1..Len(nonces)
  BY NonceTypes DEF ListInOrder
<1>2. CASE l.at \notin 1..Len(nonces)
  BY <1>1, <1>2 DEF FindNonce
<1>3. CASE l.at \in 1..Len(nonces)
  <2>1. nonces[l.at].age = Sought(l)
    BY <1>1, <1>3 DEF Erases
  <2>2. CASE Replayed(nonces[l.at], l.request.nc)
    <3>1. FindNonce(l) = [is |-> "refused", list |-> nonces]
      BY <2>2, Zenon DEF FindNonce
    <3> QED BY <2>1, <2>2, <3>1
  <2>3. CASE ~Replayed(nonces[l.at], l.request.nc) /\ Seen(Sought(l)) > NonceAge
    <3>1. FindNonce(l) = [is |-> "stale", list |-> RemoveAt(nonces, l.at)]
      BY <1>1, <1>3, <2>3, Zenon DEF FindNonce
    <3> QED BY <1>3, <2>1, <2>3, <3>1
  <2>4. CASE ~Replayed(nonces[l.at], l.request.nc) /\ ~(Seen(Sought(l)) > NonceAge)
    <3>1. FindNonce(l) = [is |-> "accepted",
                          list |-> [nonces EXCEPT ![l.at].count =
                                      IF l.request.nc > @ THEN l.request.nc ELSE @]]
      BY <1>1, <1>3, <2>4, Zenon DEF FindNonce
    <3> QED BY <1>3, <2>1, <2>4, <3>1
  <2> QED BY <2>2, <2>3, <2>4
<1> QED BY <1>2, <1>3

\* The nonce of a lookup is counted up.
LEMMA AcceptedKeeps ==
    ASSUME NonceInv, NEW l \in lookups, ~Erases(l), FindNonce(l).is = "accepted",
           nonces' = FindNonce(l).list, lookups' = {}, UNCHANGED <<uptime, held, nc, flying>>
    PROVE  NonceInv'
<1> DEFINE i == l.at
           c == l.request.nc
           list == [nonces EXCEPT ![i].count = IF c > @ THEN c ELSE @]
<1>1. i \in 1..Len(nonces) /\ nonces[i].age = Sought(l) /\ nonces' = list
  BY Finds
<1>2. /\ uptime \in 0..ClockWrap - 1
      /\ ListInOrder(nonces) /\ nc \in 0..MaxCount /\ held \subseteq Nonce
      /\ \A m, n \in held : m = n
      /\ RequestsIn(uptime, nonces, OwnRequests)
      /\ \A n \in held : HeldIn(uptime, nonces, OwnRequests, n, nc)
  BY NonceTypes
<1>3. c \in 1..MaxCount
  BY NonceTypes DEF Lookup, Request
<1>4. /\ ListInOrder(list) /\ Len(list) = Len(nonces)
      /\ \A k \in 1..Len(nonces) :
           /\ list[k].age = nonces[k].age /\ list[k].foreign = nonces[k].foreign
           /\ list[k].count = nonces[k].count \/ (k = i /\ list[k].count = c)
      /\ \A now, n : KnownIn(now, nonces, n) => KnownIn(now, list, n)
  <2> HIDE DEF i, c
  <2> QED BY <1>1, <1>2, <1>3, CountGrows, Zenon
<1>5. flying \subseteq OwnRequests
  BY DEF OwnRequests
<1>6. ASSUME NEW r \in flying, ~r.nonce.shared, r.nonce.age = Sought(l)
      PROVE  l.own /\ Near(c, r)
  <2>1. l.own
    BY <1>6 DEF NonceInv, LookupsGoOn
  <2>2. l.request \in OwnRequests
    BY <2>1 DEF OwnRequests
  <2> QED BY <1>2, <1>5, <1>6, <2>1, <2>2 DEF RequestsIn, Sought
<1>7. ASSUME NEW n \in held, ~n.shared, n.age = Sought(l)
      PROVE  l.own
  BY <1>7 DEF NonceInv, LookupsGoOn
<1> HIDE DEF list, i
<1>8. RequestsIn(uptime, list, flying)
  <2> SUFFICES ASSUME NEW r \in flying
               PROVE  /\ r \in Request /\ KnownIn(uptime, list, r.nonce)
                      /\ ~r.nonce.shared =>
                           /\ \A k \in 1..Len(list) :
                                list[k].age = r.nonce.age => Near(list[k].count, r)
                           /\ \A q \in flying : q.nonce.age = r.nonce.age => Near(q.nc, r)
    BY Zenon DEF RequestsIn
  <2>1. /\ r \in Request /\ KnownIn(uptime, nonces, r.nonce)
        /\ ~r.nonce.shared =>
             /\ \A k \in 1..Len(nonces) :
                  nonces[k].age = r.nonce.age => Near(nonces[k].count, r)
             /\ \A q \in flying : q.nonce.age = r.nonce.age => Near(q.nc, r)
    BY <1>2, <1>5 DEF RequestsIn
  <2>2. ASSUME ~r.nonce.shared, NEW k \in 1..Len(list), list[k].age = r.nonce.age
        PROVE  Near(list[k].count, r)
    <3>1. k \in 1..Len(nonces) /\ nonces[k].age = r.nonce.age
      BY <1>4, <2>2
    <3>2. CASE list[k].count = nonces[k].count
      BY <2>1, <2>2, <3>1, <3>2
    <3>3. CASE k = i /\ list[k].count = c
      BY <1>1, <1>6, <2>2, <3>1, <3>3
    <3> QED BY <1>4, <3>1, <3>2, <3>3
  <2> QED BY <1>4, <2>1, <2>2
<1>9. ASSUME NEW n \in held PROVE HeldIn(uptime, list, flying, n, nc)
  <2>1. HeldIn(uptime, nonces, OwnRequests, n, nc)
    BY <1>2
  <2>2. ASSUME ~n.shared, NEW k \in 1..Len(list), list[k].age = n.age
        PROVE  list[k].count <= nc
    <3>1. k \in 1..Len(nonces) /\ nonces[k].age = n.age
      BY <1>4, <2>2
    <3>2. CASE list[k].count = nonces[k].count
      BY <2>1, <2>2, <3>1, <3>2 DEF HeldIn
    <3>3. CASE k = i /\ list[k].count = c
      <4>1. n.age = Sought(l) /\ l.own
        BY <1>1, <1>7, <2>2, <3>1, <3>3
      <4>2. l.request \in OwnRequests
        BY <4>1 DEF OwnRequests
      <4>3. c <= nc
        BY <2>1, <2>2, <4>1, <4>2 DEF HeldIn, Sought
      <4> QED BY <3>3, <4>3
    <3> QED BY <1>4, <3>1, <3>2, <3>3
  <2> QED BY <1>4, <1>5, <2>1, <2>2 DEF HeldIn
<1>10. nonces' = list
  BY <1>1 DEF list, i
<1> QED BY <1>2, <1>4, <1>8, <1>9, <1>10, IdleInv

\* The nonce of a request is not good: the browser gets another one.
LEMMA RefusedKeeps ==
    ASSUME NonceInv, NEW l \in lookups, NotAccepted(l) PROVE NonceInv'
<1> DEFINE find == FindNonce(l)
           Told(r) == IF find.is = "stale" /\ r.nonce.age = Sought(l)
                      THEN [r EXCEPT !.nonce.told = TRUE] ELSE r
           requests == {Told(r) : r \in flying}
<1>1. /\ ~Erases(l) /\ find.is # "accepted" /\ lookups' = {}
      /\ Challenged(find.list, requests)
      /\ uptime' = uptime /\ uptime \in 0..ClockWrap - 1
  BY NonceTypes DEF NotAccepted
<1>2. ListInOrder(nonces) /\ flying \subseteq Request /\ RequestsIn(uptime, nonces, OwnRequests)
  BY NonceTypes
<1>3. RequestsIn(uptime, nonces, flying)
  BY <1>2, Fewer DEF OwnRequests
<1>4. CASE find.is = "refused" /\ find.list = nonces
  <2>1. requests = flying
    BY <1>4
  <2> QED BY <1>1, <1>2, <1>3, <1>4, <2>1, ChallengedKeeps
<1>5. CASE /\ l.at \in 1..Len(nonces) /\ nonces[l.at].age = Sought(l)
           /\ find.is = "stale" /\ find.list = RemoveAt(nonces, l.at)
           /\ Seen(Sought(l)) > NonceAge
  <2> DEFINE rest == RemoveAt(nonces, l.at)
  <2>1. ASSUME NEW r \in flying
        PROVE  /\ Told(r) \in Request
               /\ Told(r).nc = r.nc /\ Told(r).after = r.after
               /\ Told(r).nonce.age = r.nonce.age /\ Told(r).nonce.newer = r.nonce.newer
               /\ Told(r).nonce.shared = r.nonce.shared
               /\ r.nonce.age = Sought(l) => Told(r).nonce.told = TRUE
               /\ r.nonce.age # Sought(l) => Told(r) = r
    <3> DEFINE n == [r.nonce EXCEPT !.told = TRUE]
    <3>1. r \in Request /\ r.nonce \in Nonce
      BY <1>2 DEF Request
    <3>2. /\ n \in Nonce /\ n.age = r.nonce.age /\ n.newer = r.nonce.newer
          /\ n.shared = r.nonce.shared /\ n.told = TRUE
      BY <3>1 DEF Nonce
    <3>3. r.nonce.age = Sought(l) => Told(r) = [r EXCEPT !.nonce = n]
      BY <1>5
    <3> HIDE DEF n
    <3>4. [r EXCEPT !.nonce = n] \in Request /\ [r EXCEPT !.nonce = n].nonce = n
          /\ [r EXCEPT !.nonce = n].nc = r.nc /\ [r EXCEPT !.nonce = n].after = r.after
      BY <3>1, <3>2, OtherNonce
    <3>5. r.nonce.age # Sought(l) => Told(r) = r
      OBVIOUS
    <3> HIDE DEF Told
    <3>6. CASE r.nonce.age = Sought(l)
      BY <3>2, <3>3, <3>4, <3>6
    <3>7. CASE r.nonce.age # Sought(l)
      BY <3>1, <3>5, <3>7
    <3> QED BY <3>6, <3>7
  <2> HIDE DEF Told
  <2>2. RequestsIn(uptime, nonces, requests)
    <3> SUFFICES ASSUME NEW r \in flying
                 PROVE  /\ Told(r) \in Request /\ KnownIn(uptime, nonces, Told(r).nonce)
                        /\ ~Told(r).nonce.shared =>
                             /\ \A i \in 1..Len(nonces) :
                                  nonces[i].age = Told(r).nonce.age
                                    => Near(nonces[i].count, Told(r))
                             /\ \A q \in requests :
                                  q.nonce.age = Told(r).nonce.age => Near(q.nc, Told(r))
      BY Zenon DEF RequestsIn
    <3>1. /\ KnownIn(uptime, nonces, r.nonce)
          /\ ~r.nonce.shared =>
               /\ \A i \in 1..Len(nonces) :
                    nonces[i].age = r.nonce.age => Near(nonces[i].count, r)
               /\ \A q \in flying : q.nonce.age = r.nonce.age => Near(q.nc, r)
      BY <1>3 DEF RequestsIn
    <3>2. \A c : Near(c, r) => Near(c, Told(r))
      BY <2>1 DEF Near
    <3>3. KnownIn(uptime, nonces, Told(r).nonce)
      <4>1. CASE r.nonce.age = Sought(l)
        <5>0. r.nonce.age \in 0..Oldest /\ Seen(r.nonce.age) > NonceAge
          BY <1>2, <1>5, <4>1 DEF Request, Nonce
        <5>1. /\ Told(r).nonce.told = TRUE /\ Told(r).nonce.age = r.nonce.age
              /\ Told(r).nonce.age > NonceAge \/ MadeLate(uptime, Told(r).nonce.age)
              /\ Told(r).nonce.shared = r.nonce.shared
          BY <2>1, <4>1, <5>0, SeenIs, NonceTypes
        <5>2. ~Serves(uptime, Told(r).nonce)
          BY <5>1, Zenon DEF Serves
        <5> QED BY <3>1, <5>1, <5>2 DEF KnownIn
      <4>2. CASE r.nonce.age # Sought(l)
        BY <2>1, <3>1, <4>2
      <4> QED BY <4>1, <4>2
    <3>4. ASSUME ~Told(r).nonce.shared, NEW s \in flying,
                 Told(s).nonce.age = Told(r).nonce.age
          PROVE  Near(Told(s).nc, Told(r))
      <4>1. ~r.nonce.shared /\ s.nonce.age = r.nonce.age /\ Told(s).nc = s.nc
        BY <2>1, <3>4, Zenon
      <4>2. Near(s.nc, r)
        BY <3>1, <4>1
      <4> QED BY <3>2, <4>1, <4>2
    <3>5. ~Told(r).nonce.shared => \A i \in 1..Len(nonces) :
             nonces[i].age = Told(r).nonce.age => Near(nonces[i].count, Told(r))
      <4>1. Told(r).nonce.shared = r.nonce.shared /\ Told(r).nonce.age = r.nonce.age
        BY <2>1
      <4> QED BY <3>1, <3>2, <4>1
    <3>6. ~Told(r).nonce.shared => \A q \in requests :
             q.nonce.age = Told(r).nonce.age => Near(q.nc, Told(r))
      <4> HIDE DEF Told
      <4> QED BY <3>4
    <3> QED BY <2>1, <3>3, <3>5, <3>6, Zenon
  <2>3. \A r \in requests : nonces[l.at].age = r.nonce.age => ~Serves(uptime, r.nonce)
    <3> SUFFICES ASSUME NEW r \in flying, nonces[l.at].age = Told(r).nonce.age
                 PROVE  ~Serves(uptime, Told(r).nonce)
      OBVIOUS
    <3>1. r.nonce.age = Sought(l)
      BY <1>5, <2>1
    <3>2. Told(r).nonce.told = TRUE
      BY <2>1, <3>1, Zenon
    <3> QED BY <3>2, Zenon DEF Serves
  <2> HIDE DEF requests
  <2>4. ListInOrder(rest) /\ RequestsIn(uptime, rest, requests)
    BY <1>2, <1>5, <2>2, <2>3, RemovalKeeps, RemovedRequests
  <2> QED BY <1>1, <1>5, <2>4, ChallengedKeeps
<1> QED BY <1>1, <1>4, <1>5, Finds, Zenon

\* The answer to another client.
LEMMA OtherKeeps ==
    ASSUME NonceInv, NEW l \in lookups, OtherAnswered(l) PROVE NonceInv'
<1> DEFINE find == FindNonce(l)
<1>1. /\ ~Erases(l) /\ lookups' = {} /\ nc' = nc /\ ~l.own /\ uptime' = uptime
  BY DEF OtherAnswered
<1>2. /\ ListInOrder(nonces) /\ flying \subseteq Request /\ held \subseteq Nonce
      /\ RequestsIn(uptime, nonces, flying) /\ \A n \in held : HeldIn(uptime, nonces, flying, n, nc)
  BY <1>1, NonceTypes, WhoseRequests
<1>3. CASE find.is = "accepted"
  BY <1>1, <1>3, AcceptedKeeps DEF OtherAnswered
<1>4. ASSUME find.is # "accepted" PROVE OthersChallenge(find.list)
  BY <1>4 DEF OtherAnswered
<1>5. CASE find.is = "refused" /\ find.list = nonces
  BY <1>1, <1>2, <1>4, <1>5, OthersKeep
<1>6. CASE /\ l.at \in 1..Len(nonces) /\ nonces[l.at].age = Sought(l)
           /\ find.is = "stale" /\ find.list = RemoveAt(nonces, l.at)
  <2>1. \A r \in flying : ~r.nonce.shared => nonces[l.at].age # r.nonce.age
    BY <1>1, <1>6 DEF NonceInv, LookupsGoOn
  <2>2. \A n \in held : ~n.shared => nonces[l.at].age # n.age
    BY <1>1, <1>6 DEF NonceInv, LookupsGoOn
  <2>3. ListInOrder(find.list) /\ RequestsIn(uptime, find.list, flying)
    <3>1. \A r \in flying : ~r.nonce.shared /\ nonces[l.at].age = r.nonce.age
                               => ~Serves(uptime, r.nonce)
      BY <2>1
    <3>2. ListInOrder(RemoveAt(nonces, l.at))
      BY <1>2, <1>6, RemovalKeeps
    <3>3. RequestsIn(uptime, RemoveAt(nonces, l.at), flying)
      BY <1>2, <1>6, <3>1, RemovedRequests
    <3> QED BY <1>6, <3>2, <3>3, Zenon
  <2>4. \A n \in held : HeldIn(uptime, find.list, flying, n, nc)
    BY <1>2, <1>6, <2>2, RemovedHeld
  <2> QED BY <1>1, <1>4, <1>6, <2>3, <2>4, OthersKeep
<1> QED BY <1>1, <1>3, <1>5, <1>6, Finds, Zenon

\* A lookup begins.
LEMMA LookupBegins ==
    ASSUME NonceInv, NEW r \in Request, NEW own \in BOOLEAN, LookUp(r, own),
           UNCHANGED <<uptime, nonces, held, nc>>,
           RequestsIn(uptime, nonces, OwnRequests'),
           \A n \in held : HeldIn(uptime, nonces, OwnRequests', n, nc),
           flying' \subseteq Request,
           ~own => /\ \A n \in held : ~n.shared => n.age # r.nonce.age
                   /\ \A q \in flying' : ~q.nonce.shared => q.nonce.age # r.nonce.age
    PROVE  NonceInv'
<1> DEFINE place == StopsAt(nonces, r.nonce.age, 1)
           m == [request |-> r, own |-> own, at |-> place]
<1>1. ListInOrder(nonces) /\ Len(nonces) \in Nat /\ DOMAIN nonces = 1..Len(nonces)
  BY NonceTypes DEF ListInOrder
<1>2. /\ place \in 1..Len(nonces) + 1
      /\ place \in 1..Len(nonces) => nonces[place].age = r.nonce.age
                                         \/ Seen(nonces[place].age) > 4 * NonceAge
      /\ \A i \in 1..Len(nonces) : 1 <= i /\ i < place => nonces[i].age # r.nonce.age
  BY <1>1, StopsWhere
<1>3. lookups' = {m}
  BY DEF LookUp
<1> HIDE DEF place
<1>4. m \in Lookup /\ m.at = place /\ m.own = own /\ m.request = r
  BY <1>1, <1>2 DEF Lookup
<1> HIDE DEF m
<1>5. NonceTypeOK'
  BY <1>3, <1>4 DEF NonceInv, NonceTypeOK
<1>6. LookupsGoOn'
  <2>1. Sought(m) = r.nonce.age
    BY <1>4 DEF Sought
  <2>2. \A k \in lookups' : k = m
    BY <1>3
  <2>3. m.at \in DOMAIN nonces /\ nonces[m.at].age # Sought(m)
           => Seen(nonces[m.at].age) > 4 * NonceAge
    BY <1>1, <1>2, <1>4, <2>1
  <2>4. \A i \in 1..Len(nonces) : i < m.at => nonces[i].age # Sought(m)
    BY <1>1, <1>2, <1>4, <2>1
  <2>5. ~m.own => /\ \A n \in held : ~n.shared => n.age # Sought(m)
                  /\ \A q \in flying' : ~q.nonce.shared => q.nonce.age # Sought(m)
    BY <1>4, <2>1
  <2>6. nonces' = nonces /\ held' = held /\ uptime' = uptime
    OBVIOUS
  <2> SUFFICES ASSUME NEW k \in lookups'
               PROVE  /\ k.at \in DOMAIN nonces /\ nonces[k.at].age # Sought(k)
                           => Seen(nonces[k.at].age) > 4 * NonceAge
                      /\ \A i \in 1..Len(nonces) :
                           i < k.at /\ nonces[i].age = Sought(k)
                             => OldOrLate(nonces[i].age)
                      /\ ~k.own =>
                           /\ \A n \in held : ~n.shared => n.age # Sought(k)
                           /\ \A q \in flying' : ~q.nonce.shared => q.nonce.age # Sought(k)
    BY <2>6, Zenon DEF LookupsGoOn, Sought, Erases, Seen, Timestamp, Made,
       OldOrLate, MadeLate
  <2>7. k = m
    BY <2>2
  <2> QED BY <2>3, <2>4, <2>5, <2>7
<1>7. ListInOrder(nonces') /\ RequestsIn(uptime, nonces', OwnRequests')
      /\ \A n \in held' : HeldIn(uptime, nonces', OwnRequests', n, nc')
  <2>1. nonces' = nonces /\ held' = held /\ nc' = nc /\ uptime' = uptime
    OBVIOUS
  <2> QED BY <1>1, <2>1, Zenon
<1> QED BY <1>5, <1>6, <1>7, Zenon DEF NonceInv

\* A request of the browser comes to find_nonce.
LEMMA ArrivesKeeps ==
    ASSUME NonceInv, NEW r \in flying, RequestArrives(r) PROVE NonceInv'
<1> DEFINE m == [request |-> r, own |-> TRUE, at |-> StopsAt(nonces, r.nonce.age, 1)]
<1>1. /\ lookups = {} /\ LookUp(r, TRUE) /\ flying' = flying \ {r}
      /\ UNCHANGED <<uptime, nonces, held, nc>>
  BY DEF RequestArrives
<1>2. lookups' = {m} /\ m.own = TRUE /\ m.request = r
  BY <1>1 DEF LookUp
<1> HIDE DEF m
<1>3. OwnRequests' = flying' \cup {r}
  BY <1>2 DEF OwnRequests
<1>4. OwnRequests' = OwnRequests
  BY <1>1, <1>3, WhoseRequests
<1> QED BY <1>1, <1>4, NonceTypes, LookupBegins

\* One of another client, whose nonce the browser does not have.
LEMMA OtherArrives ==
    ASSUME NonceInv, NEW i \in DOMAIN nonces, OtherRequest(i) PROVE NonceInv'
<1> DEFINE r == [nonce |-> [age |-> nonces[i].age, newer |-> 0, shared |-> TRUE,
                            told |-> FALSE], nc |-> 1, after |-> 0]
           m == [request |-> r, own |-> FALSE, at |-> StopsAt(nonces, r.nonce.age, 1)]
<1>1. /\ lookups = {} /\ nonces[i].foreign /\ LookUp(r, FALSE)
      /\ UNCHANGED <<uptime, nonces, held, nc, flying>>
  BY DEF OtherRequest
<1>2. i \in 1..Len(nonces) /\ nonces[i] \in Entry
  BY NonceTypes DEF ListInOrder
<1>3. r \in Request /\ r.nonce.age = nonces[i].age
  <2>1. 0 \in 0..MaxNonces /\ 1 \in 1..MaxCount /\ 0 \in 0..Tolerance
    BY NonceNumbers
  <2> QED BY <1>2, <2>1 DEF Request, Nonce, Entry
<1>4. lookups' = {m} /\ m.own = FALSE
  BY <1>1 DEF LookUp
<1> HIDE DEF r, m
<1>5. OwnRequests' = flying /\ OwnRequests = flying
  <2>1. OwnRequests' = flying
    BY <1>1, <1>4 DEF OwnRequests
  <2> QED BY <1>1, <2>1, WhoseRequests
<1>6. \A n : KnownIn(uptime, nonces, n) /\ ~n.shared => n.age # r.nonce.age
  BY <1>1, <1>2, <1>3 DEF KnownIn
<1>7. /\ \A n \in held : ~n.shared => n.age # r.nonce.age
      /\ \A q \in flying : ~q.nonce.shared => q.nonce.age # r.nonce.age
  BY <1>5, <1>6, NonceTypes DEF HeldIn, RequestsIn
<1> QED BY <1>1, <1>3, <1>5, <1>7, NonceTypes, LookupBegins

\* A forgotten nonce is too old for anybody.
LEMMA ErasedKeeps ==
    ASSUME NonceInv, NEW l \in lookups, NonceErased(l) PROVE NonceInv'
<1> DEFINE i == l.at
           list == RemoveAt(nonces, i)
           next == IF i = Len(nonces) THEN 1 ELSE i + 1
           place == StopsAt(list, Sought(l), next)
           m == [l EXCEPT !.at = place]
<1>1. /\ Erases(l) /\ nonces' = list /\ lookups' = {m} /\ UNCHANGED <<uptime, held, nc, flying>>
  BY Zenon DEF NonceErased
<1>2. /\ ListInOrder(nonces) /\ Len(nonces) \in Nat /\ DOMAIN nonces = 1..Len(nonces)
      /\ flying \subseteq Request /\ held \subseteq Nonce /\ l \in Lookup
      /\ RequestsIn(uptime, nonces, OwnRequests)
      /\ \A n \in held : HeldIn(uptime, nonces, OwnRequests, n, nc)
  BY NonceTypes DEF ListInOrder
<1>3. i \in 1..Len(nonces) /\ Seen(nonces[i].age) > 4 * NonceAge
  BY <1>1, <1>2 DEF NonceInv, LookupsGoOn, Erases
<1>4. uptime \in 0..ClockWrap - 1 /\ \A j \in 1..Len(nonces) : nonces[j].age \in 0..Oldest
  <2>1. \A j \in 1..Len(nonces) : nonces[j] \in Entry
    BY <1>2 DEF ListInOrder
  <2> QED BY <2>1, NonceTypes DEF Entry
<1>5. ASSUME NEW n \in Nonce, nonces[i].age = n.age PROVE ~Serves(uptime, n)
  <2>1. n.age \in 0..Oldest /\ nonces[i].age \in 0..Oldest /\ n.age <= n.age
        /\ 4 * NonceAge \in Nat
    BY <1>3, <1>4, NonceNumbers DEF Nonce
  <2>2. OldOrLate(n.age)
    BY <1>3, <1>4, <1>5, <2>1, SeenOld
  <2> QED BY <2>1, <2>2 DEF Serves, OldOrLate
<1> HIDE DEF i
<1>6. /\ ListInOrder(list) /\ Len(list) = Len(nonces) - 1
      /\ \A k \in 1..Len(list) : list[k] = nonces[IF k < i THEN k ELSE k + 1]
  BY <1>2, <1>3, RemovalKeeps, Zenon
<1>7. RequestsIn(uptime, list, OwnRequests)
  <2>1. \A r \in OwnRequests : r.nonce \in Nonce
    BY <1>2 DEF RequestsIn, Request
  <2>2. \A r \in OwnRequests : ~r.nonce.shared /\ nonces[i].age = r.nonce.age
                                 => ~Serves(uptime, r.nonce)
    BY <1>5, <2>1, Zenon
  <2> QED BY <1>2, <1>3, <2>2, RemovedRequests, Zenon
<1>8. \A n \in held : HeldIn(uptime, list, OwnRequests, n, nc)
  <2> SUFFICES ASSUME NEW n \in held PROVE HeldIn(uptime, list, OwnRequests, n, nc)
    OBVIOUS
  <2>1. n \in Nonce /\ (~n.shared /\ nonces[i].age = n.age => ~Serves(uptime, n))
    BY <1>2, <1>5, Zenon
  <2> QED BY <1>2, <1>3, <2>1, RemovedHeld, Zenon
<1> HIDE DEF list
<1>9. next \in 1..Len(list) + 1 /\ next = IF i = Len(nonces) THEN 1 ELSE i + 1
  <2>1. Len(nonces) \in Nat /\ i \in 1..Len(nonces) /\ Len(list) = Len(nonces) - 1
    BY <1>2, <1>3, <1>6
  <2> QED BY <2>1
<1> HIDE DEF next
<1>10. /\ place \in 1..Len(list) + 1 /\ place >= next
       /\ place \in 1..Len(list) => list[place].age = Sought(l)
                                       \/ Seen(list[place].age) > 4 * NonceAge
       /\ \A k \in 1..Len(list) : next <= k /\ k < place => list[k].age # Sought(l)
  BY <1>6, <1>9, StopsWhere
<1> HIDE DEF place
<1>11. m \in Lookup /\ m.at = place /\ m.own = l.own /\ m.request = l.request
  BY <1>2, <1>6, <1>10 DEF Lookup
<1> HIDE DEF m
<1>12. Sought(m) = Sought(l)
  BY <1>11 DEF Sought
<1>13. ASSUME NEW k \in 1..Len(list), k < place, list[k].age = Sought(l)
       PROVE  OldOrLate(list[k].age)
  <2>1. k < next
    BY <1>9, <1>10, <1>13
  <2>2. i # Len(nonces) /\ k <= i
    <3>1. Len(nonces) \in Nat /\ i \in 1..Len(nonces) /\ k \in Nat /\ k >= 1
      BY <1>2, <1>3
    <3> QED BY <1>9, <2>1, <3>1
  <2>3. CASE k < i
    <3>1. list[k] = nonces[k] /\ k \in 1..Len(nonces)
      BY <1>2, <1>3, <1>6, <2>3
    <3>2. nonces[k].age = Sought(l) /\ k < l.at
      BY <1>13, <2>3, <3>1 DEF i
    <3>3. OldOrLate(nonces[k].age)
      BY <3>1, <3>2, Zenon DEF NonceInv, LookupsGoOn
    <3> QED BY <3>1, <3>3
  <2>4. CASE k = i
    <3>0. list[k] = nonces[k + 1]
      BY <1>3, <1>6, <2>4
    <3>1. list[k] = nonces[i + 1] /\ i + 1 \in 1..Len(nonces) /\ i < i + 1
      <4>1. Len(nonces) \in Nat /\ i \in 1..Len(nonces) /\ i # Len(nonces)
        BY <1>2, <1>3, <2>2
      <4>2. i + 1 \in 1..Len(nonces) /\ i < i + 1
        BY <4>1
      <4> QED BY <2>4, <3>0, <4>2
    <3>2. nonces[i].age <= nonces[i + 1].age
      BY <1>2, <1>3, <3>1 DEF ListInOrder
    <3>3. nonces[i].age \in 0..Oldest /\ nonces[i + 1].age \in 0..Oldest
      BY <1>3, <1>4, <3>1
    <3> QED BY <1>3, <1>4, <3>1, <3>2, <3>3, SeenOld
  <2> QED BY <1>3, <2>2, <2>3, <2>4
<1>14. OwnRequests' = OwnRequests
  <2>1. CASE l.own
    <3>1. OwnRequests' = flying \cup {l.request}
      BY <1>1, <1>11, <2>1 DEF OwnRequests
    <3> QED BY <2>1, <3>1, WhoseRequests
  <2>2. CASE ~l.own
    <3>1. OwnRequests' = flying
      BY <1>1, <1>11, <2>2 DEF OwnRequests
    <3> QED BY <2>2, <3>1, WhoseRequests
  <2> QED BY <2>1, <2>2
<1>15. NonceTypeOK'
  <2>1. /\ nonces' \in Seq([age : 0..Oldest, count : 0..MaxCount, foreign : BOOLEAN])
        /\ Len(nonces') <= MaxNonces
    BY <1>1, <1>6 DEF ListInOrder, Entry
  <2> QED BY <1>1, <1>11, <2>1 DEF NonceInv, NonceTypeOK
<1>16. LookupsGoOn'
  <2> SUFFICES ASSUME NEW k \in lookups'
               PROVE  /\ k.at \in DOMAIN list /\ list[k.at].age # Sought(k)
                           => Seen(list[k.at].age) > 4 * NonceAge
                      /\ \A j \in 1..Len(list) :
                           j < k.at /\ list[j].age = Sought(k)
                             => OldOrLate(list[j].age)
                      /\ ~k.own =>
                           /\ \A n \in held : ~n.shared => n.age # Sought(k)
                           /\ \A q \in flying : ~q.nonce.shared => q.nonce.age # Sought(k)
    BY <1>1, Zenon DEF LookupsGoOn, Sought, Erases, Seen, Timestamp, Made,
       OldOrLate, MadeLate
  <2>1. k.at = place /\ k.own = l.own /\ Sought(k) = Sought(l)
    BY <1>1, <1>11, <1>12
  <2>2. DOMAIN list = 1..Len(list)
    BY <1>6 DEF ListInOrder
  <2>3. ~l.own => /\ \A n \in held : ~n.shared => n.age # Sought(l)
                  /\ \A q \in flying : ~q.nonce.shared => q.nonce.age # Sought(l)
    BY DEF NonceInv, LookupsGoOn
  <2>4. k.at \in DOMAIN list /\ list[k.at].age # Sought(k)
          => Seen(list[k.at].age) > 4 * NonceAge
    BY <1>10, <2>1, <2>2
  <2>5. \A j \in 1..Len(list) :
           j < k.at /\ list[j].age = Sought(k) => OldOrLate(list[j].age)
    BY <1>13, <2>1
  <2> QED BY <2>1, <2>3, <2>4, <2>5
<1>17. ListInOrder(nonces') /\ RequestsIn(uptime', nonces', OwnRequests')
       /\ \A n \in held' : HeldIn(uptime', nonces', OwnRequests', n, nc')
  BY <1>1, <1>6, <1>7, <1>8, <1>14, Zenon
<1> QED BY <1>15, <1>16, <1>17, Zenon DEF NonceInv

\* The browser sends the next request.
LEMMA SendKeeps ==
    ASSUME NonceInv, SendRequest PROVE NonceInv'
<1>1. PICK n \in held :
         flying' = {Passed(r, n) : r \in flying}
                   \cup {[nonce |-> n, nc |-> nc + 1, after |-> 0]}
  BY DEF SendRequest
<1>2. /\ lookups = {} /\ lookups' = {} /\ nc < MaxCount /\ nc' = nc + 1
      /\ nonces' = nonces /\ held' = held /\ uptime' = uptime
  BY DEF SendRequest
<1>3. /\ uptime \in 0..ClockWrap - 1 /\ ListInOrder(nonces) /\ nc \in 0..MaxCount /\ held \subseteq Nonce
      /\ \A m, o \in held : m = o
      /\ flying \subseteq Request
      /\ RequestsIn(uptime, nonces, flying) /\ HeldIn(uptime, nonces, flying, n, nc)
  BY <1>2, NonceTypes, WhoseRequests
<1> DEFINE newest == [nonce |-> n, nc |-> nc + 1, after |-> 0]
<1>4. nc + 1 \in 1..MaxCount /\ nc \in Nat /\ MaxCount \in Nat
      /\ Tolerance \in Nat /\ 0 \in 0..Tolerance
  BY <1>2, <1>3, NonceNumbers
<1>5. newest \in Request /\ newest.nonce = n /\ newest.nc = nc + 1 /\ newest.after = 0
  BY <1>3, <1>4 DEF Request
<1> HIDE DEF newest
<1>6. ASSUME NEW r \in flying
      PROVE  /\ Passed(r, n) \in Request
             /\ Passed(r, n).nonce = r.nonce /\ Passed(r, n).nc = r.nc
             /\ \A c \in Nat : Near(c, r) => Near(c, Passed(r, n))
             /\ r.nonce.age = n.age /\ Near(nc, r) => Near(nc + 1, Passed(r, n))
  <2>1. /\ r \in Request /\ r.after \in 0..Tolerance /\ r.nc \in 1..MaxCount
        /\ r.nonce \in Nonce
    BY <1>3 DEF Request
  <2> DEFINE d == Min({r.after + 1, Tolerance})
             p == Passed(r, n)
  <2>2. d = IF r.after + 1 <= Tolerance THEN r.after + 1 ELSE Tolerance
    BY <1>4, <2>1, LesserIs
  <2>3. d \in 0..Tolerance /\ d >= r.after /\ (d = r.after + 1 \/ d = Tolerance)
    BY <1>4, <2>1, <2>2
  <2>4. CASE r.nonce.age = n.age
    <3>1. p = [r EXCEPT !.after = d]
      BY <2>4, Zenon DEF Passed
    <3> HIDE DEF d, p
    <3>2. p \in Request /\ p.nonce = r.nonce /\ p.nc = r.nc /\ p.after = d
      BY <2>1, <2>3, <3>1 DEF Request
    <3>3. ASSUME NEW c \in Nat, Near(c, r) PROVE Near(c, p)
      BY <1>4, <2>1, <2>3, <3>2, <3>3 DEF Near
    <3>4. Near(nc, r) => Near(nc + 1, p)
      BY <1>4, <2>1, <2>3, <3>2 DEF Near
    <3> QED BY <3>2, <3>3, <3>4 DEF p
  <2>5. CASE r.nonce.age # n.age
    <3>1. p = r
      BY <2>5, Zenon DEF Passed
    <3> QED BY <2>1, <2>5, <3>1
  <2> QED BY <2>4, <2>5
<1>7. \A i \in 1..Len(nonces) : nonces[i].count \in Nat
  <2>1. \A i \in 1..Len(nonces) : nonces[i] \in Entry
    BY <1>3 DEF ListInOrder
  <2> QED BY <2>1, NonceNumbers DEF Entry
<1>8. \A q \in flying' : q = newest \/ \E r \in flying : q = Passed(r, n)
  BY <1>1 DEF newest
<1>9. ASSUME NEW r \in flying, r.nonce.age = n.age, ~(n.shared /\ r.nonce.shared)
      PROVE  r.nc <= nc /\ Near(nc, r)
  BY <1>3, <1>9 DEF HeldIn
<1>10. ASSUME NEW c \in 0..nc + 1 PROVE Near(c, newest)
  BY <1>4, <1>5, <1>10 DEF Near
<1>11. \A r \in flying : r.nc \in Nat /\ r.nc \in 1..MaxCount
  BY <1>3, <1>4 DEF Request
<1>12. ASSUME NEW q \in flying' PROVE q \in Request /\ KnownIn(uptime, nonces, q.nonce)
  <2>1. CASE q = newest
    BY <1>3, <1>5, <2>1 DEF HeldIn
  <2>2. ASSUME NEW r \in flying, q = Passed(r, n)
        PROVE  q \in Request /\ KnownIn(uptime, nonces, q.nonce)
    BY <1>3, <1>6, <2>2 DEF RequestsIn
  <2> QED BY <1>8, <2>1, <2>2
<1>13. ASSUME NEW q \in flying', ~q.nonce.shared, NEW i \in 1..Len(nonces),
              nonces[i].age = q.nonce.age
       PROVE  Near(nonces[i].count, q)
  <2>1. CASE q = newest
    <3>1. nonces[i].count <= nc
      BY <1>3, <1>5, <1>13, <2>1 DEF HeldIn
    <3>2. nonces[i].count \in 0..nc + 1
      BY <1>4, <1>7, <3>1
    <3> QED BY <1>10, <2>1, <3>2
  <2>2. ASSUME NEW r \in flying, q = Passed(r, n) PROVE Near(nonces[i].count, q)
    <3>1. Near(nonces[i].count, r)
      BY <1>3, <1>6, <1>13, <2>2 DEF RequestsIn
    <3> QED BY <1>6, <1>7, <2>2, <3>1
  <2> QED BY <1>8, <2>1, <2>2
<1>14. ASSUME NEW q \in flying', ~q.nonce.shared, NEW s \in flying',
              s.nonce.age = q.nonce.age
       PROVE  Near(s.nc, q)
  <2>1. CASE q = newest /\ s = newest
    <3>1. s.nc \in 0..nc + 1
      BY <1>4, <1>5, <2>1
    <3> QED BY <1>10, <2>1, <3>1
  <2>2. ASSUME q = newest, NEW r \in flying, s = Passed(r, n) PROVE Near(s.nc, q)
    <3>1. s.nc = r.nc /\ r.nonce.age = n.age /\ ~n.shared
      BY <1>5, <1>6, <1>14, <2>2
    <3>2. r.nc <= nc
      BY <1>9, <3>1
    <3>3. s.nc \in 0..nc + 1
      BY <1>4, <1>11, <3>1, <3>2
    <3> QED BY <1>10, <2>2, <3>3
  <2>3. ASSUME NEW r \in flying, q = Passed(r, n), s = newest PROVE Near(s.nc, q)
    <3>1. r.nonce.age = n.age /\ ~r.nonce.shared /\ s.nc = nc + 1
      BY <1>5, <1>6, <1>14, <2>3
    <3>2. Near(nc, r)
      BY <1>9, <3>1
    <3> QED BY <1>6, <2>3, <3>1, <3>2
  <2>4. ASSUME NEW r \in flying, q = Passed(r, n), NEW t \in flying, s = Passed(t, n)
        PROVE  Near(s.nc, q)
    <3>1. t.nonce.age = r.nonce.age /\ ~r.nonce.shared /\ s.nc = t.nc
      BY <1>6, <1>14, <2>4
    <3>2. Near(t.nc, r)
      BY <1>3, <3>1 DEF RequestsIn
    <3> QED BY <1>6, <1>11, <2>4, <3>1, <3>2
  <2> QED BY <1>8, <2>1, <2>2, <2>3, <2>4
<1>15. RequestsIn(uptime, nonces, flying')
  BY <1>12, <1>13, <1>14 DEF RequestsIn
<1>16. HeldIn(uptime, nonces, flying', n, nc + 1)
  <2>1. ASSUME ~n.shared, NEW i \in 1..Len(nonces), nonces[i].age = n.age
        PROVE  nonces[i].count <= nc + 1
    <3>1. nonces[i].count <= nc
      BY <1>3, <2>1 DEF HeldIn
    <3> QED BY <1>4, <1>7, <3>1
  <2>2. ASSUME NEW q \in flying', q.nonce.age = n.age, ~(n.shared /\ q.nonce.shared)
        PROVE  q.nc <= nc + 1 /\ Near(nc + 1, q)
    <3>1. CASE q = newest
      <4>1. nc + 1 \in 0..nc + 1 /\ nc + 1 <= nc + 1
        BY <1>4
      <4> QED BY <1>5, <1>10, <3>1, <4>1
    <3>2. ASSUME NEW r \in flying, q = Passed(r, n)
          PROVE  q.nc <= nc + 1 /\ Near(nc + 1, q)
      <4>1. q.nc = r.nc /\ r.nonce.age = n.age /\ ~(n.shared /\ r.nonce.shared)
        BY <1>6, <2>2, <3>2
      <4>2. r.nc <= nc /\ Near(nc, r)
        BY <1>9, <4>1
      <4>3. q.nc <= nc + 1
        BY <1>4, <1>11, <4>1, <4>2
      <4> QED BY <1>6, <3>2, <4>1, <4>2, <4>3
    <3> QED BY <1>8, <3>1, <3>2
  <2> QED BY <1>3, <2>1, <2>2 DEF HeldIn
<1>17. nc' \in 0..MaxCount
  BY <1>2, <1>4
<1>18. \A m \in held' : HeldIn(uptime', nonces', flying', m, nc')
  BY <1>2, <1>3, <1>16, Zenon
<1> QED BY <1>2, <1>3, <1>15, <1>17, <1>18, IdleInv

\* Everything grows older at once: whose nonce is whose stays as it is.
LEMMA OlderKeeps ==
    ASSUME NEW list, ListInOrder(list), NEW older, ListInOrder(older),
           Len(older) = Len(list),
           \A i \in 1..Len(list) :
             /\ older[i].age = list[i].age + 1 /\ older[i].count = list[i].count
             /\ older[i].foreign = list[i].foreign,
           NEW now \in 0..ClockWrap - 1,
           NEW n \in Nonce, n.age < Oldest, KnownIn(now, list, n)
    PROVE  KnownIn(IF now + 1 = ClockWrap THEN 0 ELSE now + 1, older, OneOlder(n))
<1> DEFINE m == OneOlder(n)
           next == IF now + 1 = ClockWrap THEN 0 ELSE now + 1
<1>1. /\ m.age = n.age + 1 /\ m.told = n.told /\ m.shared = n.shared /\ m.newer = n.newer
      /\ n.age \in Nat /\ n.age \in 0..Oldest
  BY OlderFields DEF Nonce
<1> HIDE DEF m
<1>0. MadeLate(next, m.age) <=> MadeLate(now, n.age)
  BY <1>1, MadeStays
<1> HIDE DEF next
<1>2. \A i \in 1..Len(list) : list[i].age \in Nat
  <2>1. \A i \in 1..Len(list) : list[i] \in Entry
    BY DEF ListInOrder
  <2> QED BY <2>1 DEF Entry
<1>3. \A i \in 1..Len(list) : older[i].age = m.age <=> list[i].age = n.age
  BY <1>1, <1>2
<1>4. m.told => m.age > NonceAge \/ MadeLate(next, m.age)
  BY <1>0, <1>1, NonceNumbers DEF KnownIn
<1>5. Serves(next, m) => Serves(now, n)
  <2>1. 4 * NonceAge \in Nat
    BY NonceNumbers
  <2> QED BY <1>0, <1>1, <2>1 DEF Serves
<1>6. KnownIn(next, older, m)
  BY <1>1, <1>3, <1>4, <1>5 DEF KnownIn
<1> QED BY <1>6 DEF m, next

\* Time passes.
LEMMA TimeKeeps ==
    ASSUME NonceInv, TimePasses PROVE NonceInv'
<1> DEFINE list == [i \in DOMAIN nonces |-> OneOlder(nonces[i])]
           Late(r) == [r EXCEPT !.nonce = OneOlder(@)]
           next == IF uptime + 1 = ClockWrap THEN 0 ELSE uptime + 1
<1>1. /\ lookups = {} /\ lookups' = {} /\ nc' = nc /\ nonces' = list
      /\ held' = {OneOlder(n) : n \in held} /\ flying' = {Late(r) : r \in flying}
      /\ uptime' = next /\ \A n \in InUse : n.age < Oldest
  BY DEF TimePasses
<1>2. /\ uptime \in 0..ClockWrap - 1 /\ ListInOrder(nonces) /\ nc \in 0..MaxCount /\ held \subseteq Nonce
      /\ \A m, n \in held : m = n
      /\ flying \subseteq Request
      /\ RequestsIn(uptime, nonces, flying) /\ \A n \in held : HeldIn(uptime, nonces, flying, n, nc)
  BY <1>1, NonceTypes, WhoseRequests
<1>3. /\ Len(nonces) \in Nat /\ DOMAIN nonces = 1..Len(nonces)
      /\ \A i \in 1..Len(nonces) : nonces[i] \in Entry
  BY <1>2 DEF ListInOrder
<1>4. /\ \A n \in held : n.age < Oldest
      /\ \A r \in flying : r.nonce.age < Oldest
      /\ \A i \in 1..Len(nonces) : nonces[i].age < Oldest
  BY <1>1, <1>3 DEF InUse, ToSet
<1>5. ASSUME NEW i \in 1..Len(nonces)
      PROVE  /\ OneOlder(nonces[i]) \in Entry
             /\ OneOlder(nonces[i]).age = nonces[i].age + 1
             /\ OneOlder(nonces[i]).count = nonces[i].count
             /\ OneOlder(nonces[i]).foreign = nonces[i].foreign
  <2>1. nonces[i].age + 1 \in 0..Oldest
    BY <1>3, <1>4, NonceNumbers DEF Entry
  <2> QED BY <1>3, <2>1 DEF Entry, OneOlder
<1>6. /\ list \in Seq(Entry) /\ Len(list) = Len(nonces)
      /\ \A i \in 1..Len(nonces) : list[i] = OneOlder(nonces[i])
  BY <1>3, <1>5
<1> HIDE DEF list
<1>7. \A i \in 1..Len(nonces) :
         /\ list[i].age = nonces[i].age + 1 /\ list[i].count = nonces[i].count
         /\ list[i].foreign = nonces[i].foreign /\ nonces[i].age \in Nat
  BY <1>3, <1>5, <1>6 DEF Entry
<1>8. ListInOrder(list)
  BY <1>2, <1>6, <1>7 DEF ListInOrder
<1>9. \A n \in Nonce : n.age < Oldest /\ KnownIn(uptime, nonces, n) => KnownIn(next, list, OneOlder(n))
  BY <1>2, <1>6, <1>7, <1>8, OlderKeeps
<1>0. next \in 0..ClockWrap - 1
  BY <1>2, ClockNumbers
<1> HIDE DEF next
<1>10. ASSUME NEW r \in flying
       PROVE  /\ r.nonce \in Nonce /\ Late(r) \in Request
              /\ Late(r).nonce = OneOlder(r.nonce) /\ Late(r).nc = r.nc
              /\ Late(r).nonce.age = r.nonce.age + 1
              /\ Late(r).nonce.shared = r.nonce.shared
              /\ \A c : Near(c, r) => Near(c, Late(r))
              /\ r.nonce.age \in Nat
  <2>1. r \in Request /\ r.nonce \in Nonce
    BY <1>2 DEF Request
  <2>2. /\ OneOlder(r.nonce) \in Nonce /\ OneOlder(r.nonce).age = r.nonce.age + 1
        /\ OneOlder(r.nonce).shared = r.nonce.shared
    BY <1>4, <2>1, OlderFields
  <2>3. Late(r) = [r EXCEPT !.nonce = OneOlder(r.nonce)]
    OBVIOUS
  <2> HIDE DEF Late
  <2>4. /\ Late(r) \in Request /\ Late(r).nonce = OneOlder(r.nonce)
        /\ Late(r).nc = r.nc /\ Late(r).after = r.after
    BY <2>1, <2>2, <2>3, OtherNonce
  <2>5. r.nonce.age \in Nat
    BY <2>1 DEF Nonce
  <2> QED BY <2>1, <2>2, <2>4, <2>5 DEF Near
<1> HIDE DEF Late
<1>11. RequestsIn(next, list, flying')
  <2> SUFFICES ASSUME NEW r \in flying
               PROVE  /\ Late(r) \in Request /\ KnownIn(next, list, Late(r).nonce)
                      /\ ~Late(r).nonce.shared =>
                           /\ \A i \in 1..Len(list) :
                                list[i].age = Late(r).nonce.age
                                  => Near(list[i].count, Late(r))
                           /\ \A q \in flying' :
                                q.nonce.age = Late(r).nonce.age => Near(q.nc, Late(r))
    BY <1>1 DEF RequestsIn
  <2>1. /\ KnownIn(uptime, nonces, r.nonce)
        /\ ~r.nonce.shared =>
             /\ \A i \in 1..Len(nonces) :
                  nonces[i].age = r.nonce.age => Near(nonces[i].count, r)
             /\ \A q \in flying : q.nonce.age = r.nonce.age => Near(q.nc, r)
    BY <1>2 DEF RequestsIn
  <2>2. Late(r) \in Request /\ KnownIn(next, list, Late(r).nonce)
    BY <1>4, <1>9, <1>10, <2>1
  <2>3. ASSUME ~Late(r).nonce.shared, NEW i \in 1..Len(list),
               list[i].age = Late(r).nonce.age
        PROVE  Near(list[i].count, Late(r))
    <3>1. i \in 1..Len(nonces) /\ nonces[i].age = r.nonce.age /\ list[i].count = nonces[i].count
      BY <1>6, <1>7, <1>10, <2>3
    <3>2. ~r.nonce.shared
      BY <1>10, <2>3, Zenon
    <3> QED BY <1>10, <2>1, <3>1, <3>2
  <2>4. ASSUME ~Late(r).nonce.shared, NEW s \in flying,
               Late(s).nonce.age = Late(r).nonce.age
        PROVE  Near(Late(s).nc, Late(r))
    <3>1. s.nonce.age = r.nonce.age /\ Late(s).nc = s.nc
      BY <1>10, <2>4
    <3>2. ~r.nonce.shared
      BY <1>10, <2>4, Zenon
    <3> QED BY <1>10, <2>1, <3>1, <3>2
  <2>5. ~Late(r).nonce.shared =>
           \A q \in flying' : q.nonce.age = Late(r).nonce.age => Near(q.nc, Late(r))
    BY <1>1, <2>4
  <2> QED BY <2>2, <2>3, <2>5, Zenon
<1>12. ASSUME NEW n \in held
       PROVE  OneOlder(n) \in Nonce /\ HeldIn(next, list, flying', OneOlder(n), nc)
  <2>1. HeldIn(uptime, nonces, flying, n, nc) /\ n \in Nonce /\ n.age < Oldest /\ n.age \in Nat
    BY <1>2, <1>4 DEF Nonce
  <2>2. /\ OneOlder(n) \in Nonce /\ OneOlder(n).age = n.age + 1
        /\ OneOlder(n).shared = n.shared
    BY <2>1, OlderFields
  <2>3. KnownIn(next, list, OneOlder(n))
    BY <1>9, <2>1 DEF HeldIn
  <2>4. ASSUME ~OneOlder(n).shared, NEW i \in 1..Len(list), list[i].age = OneOlder(n).age
        PROVE  list[i].count <= nc
    BY <1>6, <1>7, <2>1, <2>2, <2>4 DEF HeldIn
  <2>5. ASSUME NEW r \in flying, Late(r).nonce.age = OneOlder(n).age,
               ~(OneOlder(n).shared /\ Late(r).nonce.shared)
        PROVE  Late(r).nc <= nc /\ Near(nc, Late(r))
    <3>1. r.nonce.age = n.age
      BY <1>10, <2>1, <2>2, <2>5
    <3>2. ~(n.shared /\ r.nonce.shared)
      BY <1>10, <2>2, <2>5, Zenon
    <3>3. r.nc <= nc /\ Near(nc, r)
      BY <2>1, <3>1, <3>2 DEF HeldIn
    <3> QED BY <1>10, <3>3
  <2>6. \A q \in flying' : q.nonce.age = OneOlder(n).age
           /\ ~(OneOlder(n).shared /\ q.nonce.shared) => q.nc <= nc /\ Near(nc, q)
    BY <1>1, <2>5
  <2> QED BY <2>2, <2>3, <2>4, <2>6, Zenon DEF HeldIn
<1>13. held' \subseteq Nonce /\ \A m, n \in held' : m = n
  BY <1>1, <1>2, <1>12, Zenon
<1>14. \A n \in held' : HeldIn(uptime', nonces', flying', n, nc')
  BY <1>1, <1>12, Zenon
<1> QED BY <1>0, <1>1, <1>2, <1>8, <1>11, <1>13, <1>14, IdleInv

\* The invariant of the nonces holds at first, ...
LEMMA NonceInvInit == NoncesInit => NonceInv
<1> SUFFICES ASSUME NoncesInit PROVE NonceInv
  OBVIOUS
<1>1. /\ uptime \in 0..ClockWrap - 1
      /\ nonces = <<>> /\ held = {} /\ nc = 0 /\ flying = {} /\ lookups = {}
      /\ nonces \in Seq(Entry) /\ Len(nonces) = 0 /\ 0 <= MaxNonces /\ 0 \in 0..MaxCount
  BY NonceNumbers DEF NoncesInit
<1>2. OwnRequests = {}
  BY <1>1 DEF OwnRequests
<1>3. ListInOrder(nonces)
  BY <1>1 DEF ListInOrder
<1>4. NonceTypeOK
  BY <1>1 DEF NonceTypeOK, Entry
<1>5. RequestsIn(uptime, nonces, OwnRequests) /\ LookupsGoOn
  BY <1>1, <1>2 DEF RequestsIn, LookupsGoOn
<1> QED BY <1>1, <1>3, <1>4, <1>5 DEF NonceInv

\* ... every step keeps it, ...
LEMMA NonceInvNext == NonceInv /\ [NoncesNext]_nonceVars => NonceInv'
<1> SUFFICES ASSUME NonceInv, [NoncesNext]_nonceVars PROVE NonceInv'
  OBVIOUS
<1>1. CASE FirstRequest \/ OtherChallenged
  BY <1>1, FirstKeeps
<1>2. CASE SendRequest
  BY <1>2, SendKeeps
<1>3. CASE TimePasses
  BY <1>3, TimeKeeps
<1>4. ASSUME NEW r \in flying, RequestArrives(r) PROVE NonceInv'
  BY <1>4, ArrivesKeeps
<1>5. ASSUME NEW i \in DOMAIN nonces, OtherRequest(i) PROVE NonceInv'
  BY <1>5, OtherArrives
<1>6. ASSUME NEW l \in lookups, NonceErased(l) PROVE NonceInv'
  BY <1>6, ErasedKeeps
<1>7. ASSUME NEW l \in lookups, Accepted(l) PROVE NonceInv'
  BY <1>7, AcceptedKeeps DEF Accepted
<1>8. ASSUME NEW l \in lookups, NotAccepted(l) PROVE NonceInv'
  BY <1>8, RefusedKeeps
<1>9. ASSUME NEW l \in lookups, OtherAnswered(l) PROVE NonceInv'
  BY <1>9, OtherKeeps
<1>10. CASE UNCHANGED nonceVars
  <2>1. /\ nonces' = nonces /\ held' = held /\ nc' = nc /\ flying' = flying
        /\ lookups' = lookups /\ uptime' = uptime
    BY <1>10 DEF nonceVars
  <2> QED BY <2>1, Zenon DEF NonceInv, NonceTypeOK, OwnRequests, LookupsGoOn, Erases,
          Seen, Timestamp, Made, OldOrLate, MadeLate
<1> QED BY <1>1, <1>2, <1>3, <1>4, <1>5, <1>6, <1>7, <1>8, <1>9, <1>10, Zenon
        DEF NoncesNext

\* ... and it says how find_nonce answers.
LEMMA NonceInvServes == NonceInv => NoncesServe
<1> SUFFICES ASSUME NonceInv, NEW l \in lookups, l.own, ~Erases(l),
                    ~l.request.nonce.shared, l.request.nonce.newer < MaxNonces,
                    l.request.after < Tolerance,
                    Made(l.request.nonce.age) <= LongMax
             PROVE  /\ (FindNonce(l).is = "accepted") = (Sought(l) <= NonceAge)
                    /\ (/\ Sought(l) \in NonceAge + 1..4 * NonceAge
                        /\ ~l.request.nonce.told) => FindNonce(l).is = "stale"
  BY Zenon DEF NoncesServe, Sought
<1> DEFINE r == l.request
           n == l.request.nonce
<1>1. /\ r \in OwnRequests /\ r \in Request /\ n \in Nonce /\ Len(nonces) \in Nat
      /\ KnownIn(uptime, nonces, n) /\ l.at \in Nat \ {0}
      /\ \A i \in 1..Len(nonces) : nonces[i].age = n.age => Near(nonces[i].count, r)
  <2>1. r \in OwnRequests /\ l \in Lookup
    BY NonceTypes DEF OwnRequests
  <2> QED BY <2>1, NonceTypes DEF RequestsIn, Request, Lookup, ListInOrder
<1>2. /\ n.age \in Nat /\ NonceAge \in Nat /\ 4 * NonceAge \in Nat
      /\ r.nc \in Nat /\ r.after \in Nat /\ Tolerance \in Nat
      /\ NonceAge <= 4 * NonceAge /\ ~MadeLate(uptime, n.age) /\ Seen(n.age) = n.age
  <2>1. n.age \in 0..Oldest /\ uptime \in 0..ClockWrap - 1
    BY <1>1, NonceTypes DEF Nonce
  <2>2. Made(n.age) \in Nat /\ LongMax \in Nat
    BY <2>1, NonceNumbers, ClockNumbers DEF Made, Minus
  <2>3. ~MadeLate(uptime, n.age)
    BY <2>2 DEF MadeLate, Made
  <2>4. Seen(n.age) = n.age
    BY <2>1, <2>3, SeenIs
  <2> QED BY <1>1, <2>1, <2>3, <2>4, NonceNumbers DEF Nonce, Request
<1>3. \A i \in 1..Len(nonces) : nonces[i].count \in Nat
  <2>1. \A i \in 1..Len(nonces) : nonces[i] \in Entry
    BY NonceTypes DEF ListInOrder
  <2> QED BY <2>1, NonceNumbers DEF Entry
<1>4. Sought(l) = n.age
  BY DEF Sought
<1>5. ASSUME n.age <= 4 * NonceAge, ~n.told
      PROVE  FindNonce(l).is = IF n.age > NonceAge THEN "stale" ELSE "accepted"
  <2>1. Serves(uptime, n)
    BY <1>2, <1>5 DEF Serves
  <2>2. PICK j \in 1..Len(nonces) : nonces[j].age = n.age
    BY <1>1, <2>1 DEF KnownIn
  <2>3. l.at <= j
    <3>1. j < l.at => OldOrLate(nonces[j].age)
      BY <1>4, <2>2 DEF NonceInv, LookupsGoOn
    <3>2. j < l.at => n.age > 4 * NonceAge
      BY <1>2, <2>2, <3>1 DEF OldOrLate
    <3> QED BY <1>1, <1>2, <1>5, <3>2
  <2>4. l.at \in 1..Len(nonces)
    BY <1>1, <2>3
  <2>5. ~Replayed(nonces[l.at], r.nc)
    <3>1. nonces[l.at].age = n.age
      BY <1>4, <2>4, NonceTypes DEF Erases, ListInOrder
    <3>2. nonces[l.at].count <= r.nc + r.after
      BY <1>1, <1>2, <2>4, <3>1 DEF Near
    <3> QED BY <1>2, <1>3, <2>4, <3>2 DEF Replayed
  <2> QED BY <1>2, <1>4, <2>4, <2>5, Finds
<1>6. FindNonce(l).is = "accepted" => n.age <= NonceAge
  <2>1. FindNonce(l).is = "accepted" => ~(Seen(Sought(l)) > NonceAge)
    BY Finds, Zenon
  <2> QED BY <1>2, <1>4, <2>1
<1>7. n.age <= NonceAge => ~n.told /\ n.age <= 4 * NonceAge /\ ~(n.age > NonceAge)
  BY <1>1, <1>2 DEF KnownIn
<1>8. n.age <= NonceAge => FindNonce(l).is = "accepted"
  BY <1>5, <1>7
<1>9. n.age \in NonceAge + 1..4 * NonceAge => n.age <= 4 * NonceAge /\ n.age > NonceAge
  BY <1>2
<1>10. n.age \in NonceAge + 1..4 * NonceAge /\ ~n.told => FindNonce(l).is = "stale"
  BY <1>5, <1>9
<1>11. (FindNonce(l).is = "accepted") = (n.age <= NonceAge)
  BY <1>6, <1>8
<1> QED BY <1>4, <1>10, <1>11, Zenon

\* find_nonce refuses no browser that knows the password and whose nonce is young,
\* and calls an old one stale to the first that comes with it: for every order of
\* requests, whatever other clients do, and for all ages, limits and tolerances.
THEOREM NoncesAreGood == NoncesSpec => [](NonceTypeOK /\ NoncesServe)
<1>1. NonceInv => NonceTypeOK /\ NoncesServe
  BY NonceInvServes DEF NonceInv
<1> QED BY <1>1, NonceInvInit, NonceInvNext, PTL DEF NoncesSpec

-----------------------------------------------------------------------------
(* All the parts together. *)

\* Each part has its own inductive invariant.
BoardInv ==
    /\ ButtonInv /\ TimedInv /\ StreamsInv /\ PinInv /\ ReplyInv
    /\ StoreTypeOK /\ StoreInv /\ LogTyped /\ LogInv /\ LedInv /\ NonceInv

BrowserInv == SlotTypes /\ CardInv /\ ScanTypeOK

PartsInv == BoardInv /\ BrowserInv

\* At first each has it.
LEMMA PartsInitInv == Init => PartsInv
<1> SUFFICES ASSUME Init PROVE PartsInv
  OBVIOUS
<1>1. /\ ButtonInit /\ TimedInit /\ StreamsInit /\ PinInit /\ ReplyInit
      /\ StoreInit /\ LogInit /\ LedInit /\ NoncesInit
      /\ SlotInit /\ CardInit /\ ScanInit
  BY Zenon DEF Init
<1>2. BoardInv
  BY <1>1, ButtonInitInv, TimedInitInv, StreamsInitInv, PinInitType, ReplyInitType,
     StoreInitType, StoreInitInv, LogInitTyped, LogInitInv, LedInitInv, NonceInvInit, Zenon
  DEF BoardInv
<1>3. BrowserInv
  BY <1>1, SlotInitTypes, CardInitInv, ScanInitType, Zenon DEF BrowserInv
<1> QED BY <1>2, <1>3 DEF PartsInv

\* A step of the whole is a step of one part, which leaves the others alone.
LEMMA PartsMove ==
    [Next]_vars =>
      /\ [ButtonNext]_buttonVars /\ [TimedNext]_timedVars /\ [StreamsNext]_streamVars
      /\ [PinNext]_pinVars /\ [ReplyNext]_replyVars /\ [StoreNext]_storeVars
      /\ [LogNext]_logVars /\ [LedNext]_ledVars /\ [NoncesNext]_nonceVars
      /\ [SlotNext]_slotVars /\ [CardNext]_cardEditVars /\ [ScanNext]_scanVars
<1> SUFFICES ASSUME [Next]_vars
             PROVE
      /\ [ButtonNext]_buttonVars /\ [TimedNext]_timedVars /\ [StreamsNext]_streamVars
      /\ [PinNext]_pinVars /\ [ReplyNext]_replyVars /\ [StoreNext]_storeVars
      /\ [LogNext]_logVars /\ [LedNext]_ledVars /\ [NoncesNext]_nonceVars
      /\ [SlotNext]_slotVars /\ [CardNext]_cardEditVars /\ [ScanNext]_scanVars
  OBVIOUS
<1>1. boardVars' = boardVars =>
        /\ buttonVars' = buttonVars /\ timedVars' = timedVars /\ streamVars' = streamVars
        /\ pinVars' = pinVars /\ replyVars' = replyVars /\ storeVars' = storeVars
        /\ logVars' = logVars /\ ledVars' = ledVars /\ nonceVars' = nonceVars
  BY Zenon DEF boardVars
<1>2. browserVars' = browserVars =>
        slotVars' = slotVars /\ cardEditVars' = cardEditVars /\ scanVars' = scanVars
  BY Zenon DEF browserVars
<1>3. CASE ButtonStep \/ TimedStep \/ StreamsStep
  BY <1>2, <1>3, Zenon DEF ButtonStep, TimedStep, StreamsStep
<1>4. CASE PinStep \/ ReplyStep \/ StoreStep
  BY <1>2, <1>4, Zenon DEF PinStep, ReplyStep, StoreStep
<1>5. CASE LogStep \/ LedStep \/ AuthStep
  BY <1>2, <1>5, Zenon DEF LogStep, LedStep, AuthStep
<1>6. CASE CardStep
  BY <1>1, <1>6, Zenon DEF CardStep
<1>7. CASE Slots(SlotNext)
  BY <1>1, <1>7, Zenon DEF Slots
<1>8. CASE Scan(ScanNext)
  BY <1>1, <1>8, Zenon DEF Scan
<1>9. CASE UNCHANGED vars
  BY <1>1, <1>2, <1>9, Zenon DEF vars
<1> QED BY <1>3, <1>4, <1>5, <1>6, <1>7, <1>8, <1>9, Zenon DEF Next

\* So every step keeps the invariants of all of them.
LEMMA PartsNextInv == PartsInv /\ [Next]_vars => PartsInv'
<1> SUFFICES ASSUME PartsInv, [Next]_vars PROVE PartsInv'
  OBVIOUS
<1>1. BoardInv /\ BrowserInv
  BY DEF PartsInv
<1>2. ButtonInv' /\ TimedInv' /\ StreamsInv' /\ PinInv' /\ ReplyInv'
  BY <1>1, PartsMove, ButtonNextInv, TimedNextInv, StreamsNextInv, PinNextType,
     ReplyNextType, Zenon DEF BoardInv
<1>3. /\ StoreTypeOK' /\ StoreInv' /\ LogTyped' /\ LogInv' /\ LedInv' /\ NonceInv'
  BY <1>1, PartsMove, StoreNextType, StoreNextInv, LogNextTyped, LogNextInv, LedNextInv,
     NonceInvNext, Zenon DEF BoardInv
<1>4. BrowserInv'
  BY <1>1, PartsMove, SlotNextTypes, CardNextInv, ScanNextType, Zenon DEF BrowserInv
<1> QED BY <1>2, <1>3, <1>4, Zenon DEF PartsInv, BoardInv

\* Whichever part moves, every variable of every part keeps its type: for every
\* value of the constants that the assumptions allow.
THEOREM PartsTypeCorrect == Spec => []TypeOK
<1>1. PartsInv => TypeOK
  <2> SUFFICES ASSUME PartsInv PROVE TypeOK
    OBVIOUS
  <2>1. ReplyTypeOK
    BY ReplyInvType, Zenon DEF PartsInv, BoardInv
  <2>2. /\ ButtonTypeOK /\ TimedTypeOK /\ StreamsTypeOK /\ PinTypeOK
        /\ StoreTypeOK /\ LogTypeOK /\ LedTypeOK /\ NonceTypeOK
    BY Zenon
    DEF PartsInv, BoardInv, ButtonInv, TimedInv, StreamsInv, PinInv, LogTyped, LedInv,
        NonceInv
  <2>3. SlotTypeOK /\ CardTypeOK /\ ScanTypeOK
    BY Zenon DEF PartsInv, BrowserInv, SlotTypes, CardInv
  <2> QED BY <2>1, <2>2, <2>3, Zenon DEF TypeOK
<1> QED BY PartsInitInv, PartsNextInv, <1>1, PTL DEF Spec

\* The promises of the transforms, of the pulse counter, of the response handler,
\* of the status LED and of the authenticator, all at once and for every sequence
\* of their inputs.
THEOREM TransformsAreSound == Spec => []TransformsSound
<1>1. PartsInv => TransformsSound
  <2> SUFFICES ASSUME PartsInv PROVE TransformsSound
    OBVIOUS
  <2>1. /\ TimedInv /\ StreamsInv /\ CounterInv /\ ReplyInv /\ LedInv /\ NonceInv
    BY Zenon DEF PartsInv, BoardInv, PinInv
  <2>2. TimedSound /\ StreamsSound /\ LedSound /\ NoncesServe
    BY <2>1, TimedInvSound, StreamsInvSound, LedInvSound, NonceInvServes, Zenon
  <2>3. PulsesKept /\ OneReply
    BY <2>1, CounterInvKeeps, ReplyInvReplies, Zenon
  <2> QED BY <2>2, <2>3, Zenon DEF TransformsSound
<1> QED BY PartsInitInv, PartsNextInv, <1>1, PTL DEF Spec

\* What else is checked of the parts at every state: no press counts twice, what
\* was saved is what a restart loads, no line of the log is passed over without a
\* notice, no slot of the request queue leaks, and a card that is not marked as
\* edited shows what the device uses, but for the exceptions CleanCardTrue names.
THEOREM PartsKeepPromises ==
    Spec => [](ClicksBacked /\ ConfigSurvives /\ NoSilentGap /\ SlotsCounted /\ CleanCardTrue)
<1>1. PartsInv => ClicksBacked /\ ConfigSurvives /\ NoSilentGap /\ SlotsCounted /\ CleanCardTrue
  <2> SUFFICES ASSUME PartsInv
               PROVE  /\ ClicksBacked /\ ConfigSurvives /\ NoSilentGap /\ SlotsCounted
                      /\ CleanCardTrue
    OBVIOUS
  <2>1. ClicksBacked
    BY ButtonInvBacked, Zenon DEF PartsInv, BoardInv
  <2>2. ConfigSurvives /\ NoSilentGap
    BY Zenon DEF PartsInv, BoardInv, StoreInv, LogInv
  <2>3. SlotsCounted /\ CleanCardTrue
    BY Zenon DEF PartsInv, BrowserInv, SlotTypes, SlotInv, Counted, CardInv
  <2> QED BY <2>1, <2>2, <2>3
<1> QED BY PartsInitInv, PartsNextInv, <1>1, PTL DEF Spec
=============================================================================
