------------------------ MODULE SlidingWindowProofs ------------------------
(* What the pruning loop of rate-limiter.ts does to any list of stamps.     *)
EXTENDS SlidingWindow, FiniteSetTheorems, SequenceTheorems, TLAPS

(* Counting the first n positive numbers.                                   *)
LEMMA CardinalityUpTo ==
    ASSUME NEW n \in Nat
    PROVE  IsFiniteSet(1..n) /\ Cardinality(1..n) = n
  BY FS_Interval

(* The expired positions are an initial segment: as the loop stops at the   *)
(* first stamp that is young enough, counting what it removed says which.   *)
LEMMA ExpiredIsPrefix ==
    ASSUME NEW list \in Seq(Nat), NEW cutoff \in Int
    PROVE  /\ Cardinality(Expired(list, cutoff)) \in 0..Len(list)
           /\ Expired(list, cutoff) = 1..Cardinality(Expired(list, cutoff))
<1> DEFINE E == Expired(list, cutoff)
           k == Cardinality(E)
<1>0. Len(list) \in Nat
  BY LenProperties
<1>1. IsFiniteSet(1..Len(list)) /\ Cardinality(1..Len(list)) = Len(list)
  BY <1>0, CardinalityUpTo
<1>2. E \in SUBSET (1..Len(list))
  BY DEF Expired
<1>3. IsFiniteSet(E) /\ k <= Len(list)
  BY <1>1, <1>2, FS_Subset
<1>4. k \in Nat
  BY <1>3, FS_CardinalityType
<1>5. ASSUME NEW j \in E, NEW i \in 1..j
      PROVE  i \in E
  <2>1. j \in 1..Len(list) /\ \A m \in 1..j : list[m] < cutoff
    BY DEF Expired
  <2>2. i \in 1..Len(list) /\ \A m \in 1..i : list[m] < cutoff
    BY <2>1, <1>0
  <2> QED BY <2>2 DEF Expired
<1>6. ASSUME NEW i \in 1..k
      PROVE  i \in E
  <2>1. SUFFICES ASSUME i \notin E
                 PROVE  FALSE
    OBVIOUS
  <2>2. ASSUME NEW j \in E
        PROVE  j \in 1..(i - 1)
    <3>1. j \in Nat \ {0} /\ i \in Nat \ {0}
      BY <1>2, <1>0, <1>4
    <3>2. ~(i <= j)
      BY <2>1, <1>5, <3>1
    <3> QED BY <3>1, <3>2
  <2>3. E \in SUBSET (1..(i - 1))
    BY <2>2
  <2>4. i \in Nat \ {0}
    BY <1>4
  <2>5. IsFiniteSet(1..(i - 1)) /\ Cardinality(1..(i - 1)) = i - 1
    BY <2>4, CardinalityUpTo
  <2>6. k <= i - 1
    BY <2>3, <2>5, FS_Subset
  <2> QED BY <2>4, <2>6, <1>4
<1>7. 1..k \in SUBSET E
  BY <1>6
<1>8. Cardinality(1..k) = k
  BY <1>4, CardinalityUpTo
<1>9. E = 1..k
  BY <1>3, <1>7, <1>8, FS_Subset
<1> QED BY <1>0, <1>3, <1>4, <1>9

(* Pruning keeps a suffix. Everything it drops is older than the window and *)
(* the first stamp it keeps is not.                                         *)
LEMMA PrunedIsSuffix ==
    ASSUME NEW list \in Seq(Nat), NEW t \in Nat
    PROVE  \E k \in 0..Len(list) :
              /\ Pruned(list, t) \in Seq(Nat)
              /\ Len(Pruned(list, t)) = Len(list) - k
              /\ \A i \in 1..(Len(list) - k) : Pruned(list, t)[i] = list[k + i]
              /\ \A i \in 1..k : list[i] < t - WindowMs
              /\ k < Len(list) => list[k + 1] >= t - WindowMs
<1> DEFINE E == Expired(list, t - WindowMs)
           k == Cardinality(E)
<1>0. Len(list) \in Nat /\ t - WindowMs \in Int
  BY LenProperties, WindowAssumption
<1>1. k \in 0..Len(list) /\ E = 1..k
  BY <1>0, ExpiredIsPrefix
<1> HIDE DEF k, E
<1>2. \A i \in 1..Len(list) : list[i] \in Nat
  BY ElementOfSeq
<1>3. \A i \in 1..k : list[i] < t - WindowMs
  BY <1>0, <1>1 DEF E, Expired
<1>4. k < Len(list) => list[k + 1] >= t - WindowMs
  <2>1. SUFFICES ASSUME k < Len(list), list[k + 1] < t - WindowMs
                 PROVE  FALSE
    BY <1>0, <1>1, <1>2
  <2>2. k + 1 \in 1..Len(list) /\ k \in Nat
    BY <2>1, <1>0, <1>1
  <2>3. \A j \in 1..(k + 1) : list[j] < t - WindowMs
    BY <2>1, <2>2, <1>3
  <2>4. k + 1 \in E
    BY <2>2, <2>3 DEF E, Expired
  <2> QED BY <2>4, <2>2, <1>1
<1>5. /\ Pruned(list, t) \in Seq(Nat)
      /\ Len(Pruned(list, t)) = Len(list) - k
      /\ \A i \in 1..(Len(list) - k) : Pruned(list, t)[i] = list[k + i]
  <2>1. Pruned(list, t) = SubSeq(list, k + 1, Len(list))
    BY DEF Pruned, k, E
  <2>2. k + 1 \in Int /\ Len(list) \in Int /\ k \in Nat /\ k <= Len(list)
    BY <1>0, <1>1
  <2>3. \A i \in (k + 1)..Len(list) : list[i] \in Nat
    BY <1>2, <2>2
  <2>4. /\ SubSeq(list, k + 1, Len(list)) \in Seq(Nat)
        /\ Len(SubSeq(list, k + 1, Len(list)))
             = IF k + 1 <= Len(list) THEN Len(list) - (k + 1) + 1 ELSE 0
        /\ \A i \in 1..(Len(list) - (k + 1) + 1) :
              SubSeq(list, k + 1, Len(list))[i] = list[(k + 1) + i - 1]
    BY <2>2, <2>3, SubSeqProperties
  <2> QED BY <2>1, <2>2, <2>4
<1> QED BY <1>1, <1>3, <1>4, <1>5

(* Whether or not the call is granted, a list of stamps stays one, and it   *)
(* never outgrows the quota.                                                *)
LEMMA RecordedType ==
    ASSUME NEW list \in Seq(Nat), NEW t \in Nat, Len(list) <= MaxPerWindow
    PROVE  /\ Recorded(list, t) \in Seq(Nat)
           /\ Len(Recorded(list, t)) <= MaxPerWindow
<1>0. Len(list) \in Nat /\ MaxPerWindow \in Nat
  BY LenProperties, WindowAssumption
<1>1. PICK k \in 0..Len(list) : /\ Pruned(list, t) \in Seq(Nat)
                                /\ Len(Pruned(list, t)) = Len(list) - k
  BY PrunedIsSuffix
<1>2. CASE Fits(list, t)
  <2>1. Recorded(list, t) = Append(Pruned(list, t), t)
    BY <1>2 DEF Recorded
  <2>2. Len(Pruned(list, t)) < MaxPerWindow
    BY <1>2 DEF Fits
  <2>3. /\ Append(Pruned(list, t), t) \in Seq(Nat)
        /\ Len(Append(Pruned(list, t), t)) = Len(Pruned(list, t)) + 1
    BY <1>1
  <2> QED BY <1>0, <1>1, <2>1, <2>2, <2>3
<1>3. CASE ~Fits(list, t)
  <2>1. Recorded(list, t) = Pruned(list, t)
    BY <1>3 DEF Recorded
  <2> QED BY <1>0, <1>1, <2>1
<1> QED BY <1>2, <1>3

(* Pruning an already short list leaves a full one alone: a refused call    *)
(* changes nothing.                                                         *)
LEMMA RefusedUnchanged ==
    ASSUME NEW list \in Seq(Nat), NEW t \in Nat, Len(list) <= MaxPerWindow,
           ~Fits(list, t)
    PROVE  Recorded(list, t) = list
<1>0. Len(list) \in Nat /\ MaxPerWindow \in Nat
  BY LenProperties, WindowAssumption
<1>1. PICK k \in 0..Len(list) :
         /\ Pruned(list, t) \in Seq(Nat)
         /\ Len(Pruned(list, t)) = Len(list) - k
         /\ \A i \in 1..(Len(list) - k) : Pruned(list, t)[i] = list[k + i]
  BY PrunedIsSuffix
<1>2. ~(Len(list) - k < MaxPerWindow)
  BY <1>1 DEF Fits
<1>3. k = 0
  BY <1>0, <1>1, <1>2
<1>4. /\ Len(Pruned(list, t)) = Len(list)
      /\ \A i \in 1..Len(list) : Pruned(list, t)[i] = list[i]
  BY <1>0, <1>1, <1>3
<1>5. Pruned(list, t) = list
  BY <1>1, <1>4, SeqEqual
<1> QED BY <1>5 DEF Recorded
-----------------------------------------------------------------------------
(* A sender's list beside the history of all its granted sends.             *)

(* The suffix relation between a sender's list and its history.             *)
IsTail(list, past, t) ==
    /\ Len(list) <= Len(past)
    /\ \A i \in 1..Len(list) : list[i] = past[Len(past) - Len(list) + i]
    /\ \A i \in 1..(Len(past) - Len(list)) : past[i] < t - WindowMs

(* The clock does not run backwards, so stamps are in order.                *)
InOrder(past, t) ==
    /\ \A i \in 1..Len(past) : past[i] <= t
    /\ \A i, j \in 1..Len(past) : i <= j => past[i] <= past[j]

Spaced(past) ==
    \A i \in 1..(Len(past) - MaxPerWindow) :
        past[i + MaxPerWindow] - past[i] > WindowMs

(* What was old stays old as the clock goes on.                             *)
LEMMA TailOfHigher ==
    ASSUME NEW list \in Seq(Nat), NEW past \in Seq(Nat), NEW t \in Nat,
           NEW u \in Nat, t <= u, IsTail(list, past, t)
    PROVE  IsTail(list, past, u)
<1>1. Len(list) \in Nat /\ Len(past) \in Nat /\ WindowMs \in Nat
  BY LenProperties, WindowAssumption
<1>2. \A i \in 1..Len(past) : past[i] \in Nat
  BY ElementOfSeq
<1>3. ASSUME NEW i \in 1..(Len(past) - Len(list))
      PROVE  past[i] < u - WindowMs
  <2>1. past[i] \in Nat /\ past[i] < t - WindowMs
    BY <1>1, <1>2 DEF IsTail
  <2> QED BY <2>1, <1>1
<1> QED BY <1>3 DEF IsTail

LEMMA InOrderLater ==
    ASSUME NEW past \in Seq(Nat), NEW t \in Nat, NEW u \in Nat, t <= u,
           InOrder(past, t)
    PROVE  InOrder(past, u)
<1>1. \A i \in 1..Len(past) : past[i] \in Nat
  BY ElementOfSeq
<1> QED BY <1>1 DEF InOrder

(* A later clock keeps the relations.                                       *)
LEMMA TailLater ==
    ASSUME NEW list \in Seq(Nat), NEW past \in Seq(Nat), NEW t \in Nat,
           IsTail(list, past, t), InOrder(past, t)
    PROVE  IsTail(list, past, t + 1) /\ InOrder(past, t + 1)
<1>1. t + 1 \in Nat /\ t <= t + 1
  OBVIOUS
<1> QED BY <1>1, TailOfHigher, InOrderLater

(* Pruning drops only what has left the window, so what it keeps is a tail  *)
(* still, at the time of pruning and whenever the clock showed more.        *)
LEMMA PrunedIsTail ==
    ASSUME NEW list \in Seq(Nat), NEW past \in Seq(Nat), NEW t \in Nat,
           NEW top \in Nat, t <= top, IsTail(list, past, top)
    PROVE  /\ Pruned(list, t) \in Seq(Nat)
           /\ IsTail(Pruned(list, t), past, top)
<1> DEFINE p == Pruned(list, t)
           d == Len(past) - Len(list)
<1>0. Len(list) \in Nat /\ Len(past) \in Nat /\ d \in Nat
      /\ WindowMs \in Nat
  BY LenProperties, WindowAssumption DEF IsTail
<1>1. PICK k \in 0..Len(list) :
         /\ p \in Seq(Nat)
         /\ Len(p) = Len(list) - k
         /\ \A i \in 1..(Len(list) - k) : p[i] = list[k + i]
         /\ \A i \in 1..k : list[i] < t - WindowMs
  BY PrunedIsSuffix
<1>2. \A i \in 1..Len(list) : list[i] = past[d + i]
  BY DEF IsTail
<1>3. \A i \in 1..d : past[i] < top - WindowMs
  BY DEF IsTail
<1> HIDE DEF p, d
<1>4. Len(past) = d + Len(list)
  BY <1>0 DEF d
<1>5. k \in Nat /\ Len(p) = Len(list) - k /\ Len(p) <= Len(past)
      /\ Len(past) - Len(p) = d + k
  BY <1>0, <1>1, <1>4
<1>6. \A i \in 1..Len(p) : p[i] = past[(d + k) + i]
  <2>1. SUFFICES ASSUME NEW i \in 1..Len(p)
                 PROVE  p[i] = past[(d + k) + i]
    OBVIOUS
  <2>2. i \in Nat /\ i \in 1..(Len(list) - k) /\ k + i \in 1..Len(list)
        /\ d + (k + i) = (d + k) + i
    BY <1>0, <1>5
  <2>3. p[i] = list[k + i] /\ list[k + i] = past[d + (k + i)]
    BY <2>2, <1>1, <1>2
  <2> QED BY <2>2, <2>3
<1>7. \A i \in 1..(d + k) : past[i] < top - WindowMs
  <2>1. SUFFICES ASSUME NEW i \in 1..(d + k)
                 PROVE  past[i] < top - WindowMs
    OBVIOUS
  <2>2. CASE i <= d
    BY <2>2, <1>0, <1>3
  <2>3. CASE i > d
    <3>1. (i - d) \in 1..k /\ (i - d) \in 1..Len(list) /\ d + (i - d) = i
      BY <2>3, <1>0, <1>5
    <3>2. list[i - d] < t - WindowMs /\ list[i - d] = past[d + (i - d)]
      BY <3>1, <1>1, <1>2
    <3>3. list[i - d] \in Nat
      BY <3>1, ElementOfSeq
    <3> QED BY <3>1, <3>2, <3>3, <1>0
  <2> QED BY <2>2, <2>3, <1>0, <1>5
<1> QED BY <1>1, <1>5, <1>6, <1>7 DEF IsTail, p

(* A new entry at the end of both.                                          *)
LEMMA AppendedIsTail ==
    ASSUME NEW list \in Seq(Nat), NEW past \in Seq(Nat), NEW t \in Nat,
           NEW top \in Nat, IsTail(list, past, top)
    PROVE  IsTail(Append(list, t), Append(past, t), top)
<1> DEFINE q == Append(list, t)
           new == Append(past, t)
<1>1. Len(list) \in Nat /\ Len(past) \in Nat /\ Len(list) <= Len(past)
  BY LenProperties DEF IsTail
<1>2. /\ Len(q) = Len(list) + 1 /\ q[Len(list) + 1] = t
      /\ \A i \in 1..Len(list) : q[i] = list[i]
  OBVIOUS
<1>3. /\ Len(new) = Len(past) + 1 /\ new[Len(past) + 1] = t
      /\ \A i \in 1..Len(past) : new[i] = past[i]
  OBVIOUS
<1> HIDE DEF q, new
<1>4. Len(q) <= Len(new) /\ Len(new) - Len(q) = Len(past) - Len(list)
  BY <1>1, <1>2, <1>3
<1>5. ASSUME NEW i \in 1..Len(q)
      PROVE  q[i] = new[Len(new) - Len(q) + i]
  <2>1. CASE i = Len(list) + 1
    <3>1. Len(new) - Len(q) + i = Len(past) + 1
      BY <2>1, <1>1, <1>4
    <3> QED BY <3>1, <2>1, <1>2, <1>3
  <2>2. CASE i \in 1..Len(list)
    <3>1. q[i] = list[i] /\ list[i] = past[Len(past) - Len(list) + i]
      BY <2>2, <1>2 DEF IsTail
    <3>2. Len(past) - Len(list) + i \in 1..Len(past)
      BY <2>2, <1>1
    <3> QED BY <3>1, <3>2, <1>3, <1>4
  <2> QED BY <2>1, <2>2, <1>1, <1>2
<1>6. ASSUME NEW i \in 1..(Len(new) - Len(q))
      PROVE  new[i] < top - WindowMs
  <2>1. i \in 1..(Len(past) - Len(list)) /\ i \in 1..Len(past)
    BY <1>1, <1>4
  <2>2. past[i] < top - WindowMs
    BY <2>1 DEF IsTail
  <2> QED BY <2>1, <2>2, <1>3
<1> QED BY <1>4, <1>5, <1>6 DEF IsTail, q, new

(* Granting: the stamp MaxPerWindow places back, if there is one, is no     *)
(* longer in the pruned list, and so lies outside the window.               *)
LEMMA StampKeeps ==
    ASSUME NEW list \in Seq(Nat), NEW past \in Seq(Nat), NEW t \in Nat,
           NEW u \in Nat, t <= u,
           IsTail(list, past, t), InOrder(past, t), Spaced(past),
           Fits(list, t)
    PROVE  /\ IsTail(Append(Pruned(list, t), u), Append(past, u), u)
           /\ InOrder(Append(past, u), u)
           /\ Spaced(Append(past, u))
<1> DEFINE p == Pruned(list, t)
           q == Append(p, u)
           new == Append(past, u)
<1>1. p \in Seq(Nat) /\ IsTail(p, past, t)
  BY PrunedIsTail
<1>2. IsTail(p, past, u) /\ InOrder(past, u)
  BY <1>1, TailOfHigher, InOrderLater
<1>3. Len(p) < MaxPerWindow
  BY DEF Fits
<1> HIDE DEF p
<1>4. /\ Len(p) \in Nat /\ Len(past) \in Nat /\ Len(p) <= Len(past)
      /\ WindowMs \in Nat /\ MaxPerWindow \in Nat \ {0}
  BY <1>1, LenProperties, WindowAssumption DEF IsTail
<1>5. /\ q \in Seq(Nat) /\ Len(q) = Len(p) + 1 /\ q[Len(p) + 1] = u
      /\ \A i \in 1..Len(p) : q[i] = p[i]
  BY <1>1
<1>6. /\ new \in Seq(Nat) /\ Len(new) = Len(past) + 1 /\ new[Len(past) + 1] = u
      /\ \A i \in 1..Len(past) : new[i] = past[i]
  OBVIOUS
<1>7. \A i \in 1..Len(past) : past[i] \in Nat
  BY ElementOfSeq
<1> HIDE DEF q, new
<1>8. IsTail(q, new, u)
  BY <1>1, <1>2, AppendedIsTail DEF q, new
<1>9. InOrder(new, u)
  <2>1. ASSUME NEW i \in 1..Len(new)
        PROVE  new[i] <= u
    <3>1. CASE i = Len(past) + 1
      BY <3>1, <1>6
    <3>2. CASE i \in 1..Len(past)
      BY <3>2, <1>2, <1>6 DEF InOrder
    <3> QED BY <3>1, <3>2, <1>4, <1>6
  <2>2. ASSUME NEW i \in 1..Len(new), NEW j \in 1..Len(new), i <= j
        PROVE  new[i] <= new[j]
    <3>1. CASE j = Len(past) + 1
      BY <3>1, <2>1, <1>6
    <3>2. CASE j \in 1..Len(past)
      <4>1. i \in 1..Len(past)
        BY <2>2, <3>2, <1>4, <1>6
      <4> QED BY <2>2, <3>2, <4>1, <1>6 DEF InOrder
    <3> QED BY <3>1, <3>2, <1>4, <1>6
  <2> QED BY <2>1, <2>2 DEF InOrder
<1>10. Spaced(new)
  <2>1. SUFFICES ASSUME NEW i \in 1..(Len(new) - MaxPerWindow)
                 PROVE  new[i + MaxPerWindow] - new[i] > WindowMs
    BY DEF Spaced
  <2>2. /\ i \in Nat \ {0} /\ i \in 1..Len(past)
        /\ i + MaxPerWindow <= Len(past) + 1
    BY <1>4, <1>6
  <2>3. CASE i + MaxPerWindow = Len(past) + 1
    <3>1. i \in 1..(Len(past) - Len(p))
      BY <2>2, <2>3, <1>3, <1>4
    <3>2. past[i] < u - WindowMs
      BY <3>1, <1>2 DEF IsTail
    <3>3. new[i] = past[i] /\ new[i + MaxPerWindow] = u /\ past[i] \in Nat
      BY <2>2, <2>3, <1>6, <1>7
    <3> QED BY <3>2, <3>3, <1>4
  <2>4. CASE i + MaxPerWindow <= Len(past)
    <3>1. i \in 1..(Len(past) - MaxPerWindow)
          /\ i + MaxPerWindow \in 1..Len(past)
      BY <2>2, <2>4, <1>4
    <3>2. past[i + MaxPerWindow] - past[i] > WindowMs
      BY <3>1 DEF Spaced
    <3> QED BY <3>1, <3>2, <2>2, <1>6
  <2>5. i + MaxPerWindow = Len(past) + 1 \/ i + MaxPerWindow <= Len(past)
    <3>1. \A x, y \in Nat : x <= y + 1 => x = y + 1 \/ x <= y
      OBVIOUS
    <3>2. i + MaxPerWindow \in Nat /\ Len(past) \in Nat
      BY <2>2, <1>4
    <3> QED BY <2>2, <3>1, <3>2
  <2> QED BY <2>3, <2>4, <2>5
<1> QED BY <1>8, <1>9, <1>10 DEF p, q, new

LEMMA GrantKeeps ==
    ASSUME NEW list \in Seq(Nat), NEW past \in Seq(Nat), NEW t \in Nat,
           IsTail(list, past, t), InOrder(past, t), Spaced(past),
           Fits(list, t)
    PROVE  /\ IsTail(Recorded(list, t), Append(past, t), t)
           /\ InOrder(Append(past, t), t)
           /\ Spaced(Append(past, t))
<1>1. Recorded(list, t) = Append(Pruned(list, t), t)
  BY DEF Recorded
<1> QED BY <1>1, StampKeeps

(* What pruning keeps is what the window holds: the stamps are in order, so *)
(* none after the first one kept can be too old.                            *)
LEMMA PrunedCountsWindow ==
    ASSUME NEW list \in Seq(Nat), NEW past \in Seq(Nat), NEW t \in Nat,
           IsTail(list, past, t), InOrder(past, t)
    PROVE  Cardinality({i \in DOMAIN past : past[i] >= t - WindowMs})
             = Len(Pruned(list, t))
<1> DEFINE p == Pruned(list, t)
           old == Len(past) - Len(p)
           recent == {i \in DOMAIN past : past[i] >= t - WindowMs}
<1>1. p \in Seq(Nat) /\ IsTail(p, past, t)
  BY PrunedIsTail
<1>2. PICK k \in 0..Len(list) :
         /\ Len(p) = Len(list) - k
         /\ \A i \in 1..(Len(list) - k) : p[i] = list[k + i]
         /\ k < Len(list) => list[k + 1] >= t - WindowMs
  BY PrunedIsSuffix
<1>3. /\ Len(list) \in Nat /\ Len(p) \in Nat /\ Len(past) \in Nat
      /\ Len(p) <= Len(past) /\ WindowMs \in Nat /\ DOMAIN past = 1..Len(past)
  BY <1>1, LenProperties, WindowAssumption DEF IsTail
<1>4. \A i \in 1..Len(past) : past[i] \in Nat
  BY ElementOfSeq
<1> HIDE DEF p
<1>5. old \in Nat /\ old + Len(p) = Len(past)
  BY <1>3
<1>6. \A i \in 1..old : past[i] < t - WindowMs
  BY <1>1 DEF IsTail
<1> HIDE DEF old
<1>7. ASSUME NEW i \in (old + 1)..Len(past)
      PROVE  past[i] >= t - WindowMs
  <2>1. /\ Len(p) > 0 /\ 1 \in 1..Len(p) /\ k < Len(list)
        /\ 1 \in 1..(Len(list) - k)
    <3>1. \A n \in Nat : i \in (old + 1)..(old + n) => n > 0
      BY <1>5
    <3>2. Len(p) > 0
      BY <3>1, <1>3, <1>5
    <3>3. \A n, j, q \in Nat : q = n - j /\ q > 0
              => 1 \in 1..q /\ j < n /\ 1 \in 1..(n - j)
      OBVIOUS
    <3>4. Len(p) = Len(list) - k /\ k \in Nat
      BY <1>2, <1>3
    <3> QED BY <3>2, <3>3, <3>4, <1>3
  <2>2. p[1] = list[k + 1] /\ list[k + 1] >= t - WindowMs
    BY <1>2, <2>1
  <2>3. p[1] = past[old + 1]
    BY <1>1, <2>1 DEF IsTail, old
  <2>4. /\ old + 1 \in 1..Len(past) /\ i \in 1..Len(past) /\ old + 1 <= i
    BY <1>3, <1>5
  <2>5. past[old + 1] <= past[i]
    BY <2>4 DEF InOrder
  <2>6. past[old + 1] \in Nat /\ past[i] \in Nat /\ t - WindowMs \in Int
    BY <2>4, <1>4, <1>3
  <2> QED BY <2>2, <2>3, <2>5, <2>6
<1>8. recent = (old + 1)..Len(past)
  <2>1. ASSUME NEW i \in recent
        PROVE  i \in (old + 1)..Len(past)
    <3>1. i \in 1..Len(past) /\ past[i] >= t - WindowMs
      BY <1>3
    <3>2. past[i] \in Nat /\ t - WindowMs \in Int
      BY <3>1, <1>3, <1>4
    <3>3. i \notin 1..old
      BY <3>1, <3>2, <1>6
    <3> QED BY <3>1, <3>3, <1>5, <1>3
  <2>2. ASSUME NEW i \in (old + 1)..Len(past)
        PROVE  i \in recent
    <3>1. i \in 1..Len(past)
      BY <1>3, <1>5
    <3> QED BY <3>1, <1>3, <1>7
  <2> QED BY <2>1, <2>2
<1> HIDE DEF recent
<1>9. Cardinality((old + 1)..Len(past)) = Len(p)
  <2>0. old + 1 \in Int /\ Len(past) \in Int
    BY <1>3, <1>5
  <2>1. Cardinality((old + 1)..Len(past))
          = IF old + 1 > Len(past) THEN 0 ELSE Len(past) - (old + 1) + 1
    BY ONLY <2>0, FS_Interval
  <2> QED BY <2>1, <1>3, <1>5
<1> QED BY <1>8, <1>9 DEF recent, p
=============================================================================
