---------------------- MODULE SenderRateLimiterProofs ----------------------
(* The limiter's contract, for any quota, window, set of senders and clock  *)
(* bound. The list the code keeps is pruned; the contract is about the      *)
(* whole history. What ties them together is that the list is always a      *)
(* suffix of the history, and that what it lost is older than the window.   *)
EXTENDS SteppedClock, SlidingWindowProofs

(* The inductive invariant.                                                 *)
LimiterInv ==
    /\ TypeOK
    /\ \A s \in Senders : /\ Len(timestamps[s]) <= MaxPerWindow
                          /\ IsTail(timestamps[s], granted[s], now)
                          /\ InOrder(granted[s], now)
                          /\ Spaced(granted[s])
-----------------------------------------------------------------------------
LEMMA InitInv == Init => LimiterInv
<1> SUFFICES ASSUME Init PROVE LimiterInv
  OBVIOUS
<1>1. TypeOK
  BY DEF Init, TypeOK
<1>2. ASSUME NEW s \in Senders
      PROVE  /\ Len(timestamps[s]) <= MaxPerWindow
             /\ IsTail(timestamps[s], granted[s], now)
             /\ InOrder(granted[s], now)
             /\ Spaced(granted[s])
  <2>1. timestamps[s] = <<>> /\ granted[s] = <<>>
    BY DEF Init
  <2>2. Len(<<>>) = 0 /\ MaxPerWindow \in Nat \ {0}
    BY WindowAssumption
  <2> QED BY <2>1, <2>2 DEF IsTail, InOrder, Spaced
<1> QED BY <1>1, <1>2 DEF LimiterInv

LEMMA StepInv == LimiterInv /\ [Next]_vars => LimiterInv'
<1> DEFINE Of(s) == /\ Len(timestamps[s]) <= MaxPerWindow
                    /\ IsTail(timestamps[s], granted[s], now)
                    /\ InOrder(granted[s], now)
                    /\ Spaced(granted[s])
<1> SUFFICES ASSUME LimiterInv, [Next]_vars
             PROVE  LimiterInv'
  OBVIOUS
<1>0. /\ TypeOK
      /\ now \in Nat
      /\ \A s \in Senders : /\ timestamps[s] \in Seq(Nat)
                            /\ granted[s] \in Seq(Nat)
                            /\ Of(s)
  BY DEF LimiterInv, TypeOK
<1> HIDE DEF Of
<1>1. ASSUME NEW s \in Senders, Grant(s)
      PROVE  LimiterInv'
  <2>1. /\ now' = now
        /\ timestamps' = [timestamps EXCEPT ![s] = Recorded(timestamps[s], now)]
        /\ granted' = [granted EXCEPT ![s] = Append(granted[s], now)]
        /\ Fits(timestamps[s], now)
    BY <1>1 DEF Grant
  <2>2. /\ Recorded(timestamps[s], now) \in Seq(Nat)
        /\ Len(Recorded(timestamps[s], now)) <= MaxPerWindow
    BY <1>0, RecordedType DEF Of
  <2>3. Append(granted[s], now) \in Seq(Nat)
    BY <1>0
  <2>4. TypeOK'
    BY <1>0, <2>1, <2>2, <2>3 DEF TypeOK
  <2>5. ASSUME NEW u \in Senders
        PROVE  Of(u)'
    <3>1. CASE u = s
      <4>1. timestamps'[u] = Recorded(timestamps[s], now)
            /\ granted'[u] = Append(granted[s], now)
        BY <1>0, <2>1, <3>1 DEF TypeOK
      <4>2. /\ IsTail(Recorded(timestamps[s], now), Append(granted[s], now), now)
            /\ InOrder(Append(granted[s], now), now)
            /\ Spaced(Append(granted[s], now))
        BY <1>0, <2>1, GrantKeeps DEF Of
      <4> QED BY <4>1, <4>2, <2>1, <2>2 DEF Of
    <3>2. CASE u # s
      <4>1. timestamps'[u] = timestamps[u] /\ granted'[u] = granted[u]
        BY <1>0, <2>1, <3>2 DEF TypeOK
      <4> QED BY <4>1, <2>1, <1>0 DEF Of
    <3> QED BY <3>1, <3>2
  <2> QED BY <2>4, <2>5 DEF LimiterInv, Of
<1>2. ASSUME NEW s \in Senders, Refuse(s)
      PROVE  LimiterInv'
  <2>1. Recorded(timestamps[s], now) = timestamps[s]
    BY <1>0, <1>2, RefusedUnchanged DEF Refuse, Of
  <2>2. timestamps' = timestamps /\ granted' = granted /\ now' = now
    BY <1>0, <1>2, <2>1 DEF Refuse, TypeOK
  <2> QED BY <2>2, <1>0 DEF LimiterInv, TypeOK, Of
<1>3. ASSUME NEW s \in Senders, Forget(s)
      PROVE  LimiterInv'
  <2>1. /\ now' = now
        /\ timestamps' = [timestamps EXCEPT ![s] = <<>>]
        /\ granted' = [granted EXCEPT ![s] = <<>>]
    BY <1>3 DEF Forget
  <2>2. TypeOK'
    BY <1>0, <2>1 DEF TypeOK
  <2>3. ASSUME NEW u \in Senders
        PROVE  Of(u)'
    <3>1. CASE u = s
      <4>1. timestamps'[u] = <<>> /\ granted'[u] = <<>>
        BY <1>0, <2>1, <3>1 DEF TypeOK
      <4>2. Len(<<>>) = 0 /\ MaxPerWindow \in Nat \ {0}
        BY WindowAssumption
      <4> QED BY <4>1, <4>2 DEF Of, IsTail, InOrder, Spaced
    <3>2. CASE u # s
      <4>1. timestamps'[u] = timestamps[u] /\ granted'[u] = granted[u]
        BY <1>0, <2>1, <3>2 DEF TypeOK
      <4> QED BY <4>1, <2>1, <1>0 DEF Of
    <3> QED BY <3>1, <3>2
  <2> QED BY <2>2, <2>3 DEF LimiterInv, Of
<1>4. CASE Tick
  <2>1. now' = now + 1 /\ timestamps' = timestamps /\ granted' = granted
    BY <1>4 DEF Tick
  <2>2. TypeOK'
    BY <1>0, <2>1 DEF TypeOK
  <2>3. ASSUME NEW u \in Senders
        PROVE  Of(u)'
    <3>1. IsTail(timestamps[u], granted[u], now + 1)
          /\ InOrder(granted[u], now + 1)
      BY <1>0, TailLater DEF Of
    <3> QED BY <3>1, <2>1, <1>0 DEF Of
  <2> QED BY <2>2, <2>3 DEF LimiterInv, Of
<1>5. CASE UNCHANGED vars
  BY <1>5, <1>0 DEF LimiterInv, TypeOK, vars, Of
<1> QED BY <1>1, <1>2, <1>3, <1>4, <1>5 DEF Next

LEMMA SpecInv == Spec => []LimiterInv
  BY InitInv, StepInv, PTL DEF Spec

(* The limiter's state is always well-formed.                               *)
THEOREM TypeCorrect == Spec => []TypeOK
<1>1. LimiterInv => TypeOK
  BY DEF LimiterInv
<1> QED BY <1>1, SpecInv, PTL

(* rate-limiter.ts:1-2: at most MaxPerWindow messages in any window.        *)
THEOREM WindowBoundHolds == Spec => []WindowBound
<1>1. LimiterInv => WindowBound
  BY DEF LimiterInv, WindowBound, Spaced
<1> QED BY <1>1, SpecInv, PTL

LEMMA ExactByInv == LimiterInv => DecisionExact
<1> SUFFICES ASSUME LimiterInv, NEW s \in Senders
             PROVE  Fits(timestamps[s], now)
                      <=> Cardinality(Recent(s)) < MaxPerWindow
  BY DEF DecisionExact
<1>1. /\ timestamps[s] \in Seq(Nat) /\ granted[s] \in Seq(Nat) /\ now \in Nat
      /\ IsTail(timestamps[s], granted[s], now) /\ InOrder(granted[s], now)
  BY DEF LimiterInv, TypeOK
<1>2. Cardinality(Recent(s)) = Len(Pruned(timestamps[s], now))
  BY <1>1, PrunedCountsWindow DEF Recent
<1> QED BY <1>2 DEF Fits

(* A slot is granted exactly when the window holds fewer than MaxPerWindow  *)
(* of the sends ever granted: the pruned list forgets nothing that counts.  *)
THEOREM DecisionExactHolds == Spec => []DecisionExact
  BY ExactByInv, SpecInv, PTL

(* rate-limiter.ts:42: a refused call changes no state.                     *)
THEOREM RefusalsHold == Spec => RefusalLeavesNoTrace
<1>1. LimiterInv /\ [Next]_vars
        => [\A s \in Senders : Refuse(s) => timestamps' = timestamps]_vars
  <2> SUFFICES ASSUME LimiterInv, NEW s \in Senders, Refuse(s)
               PROVE  timestamps' = timestamps
    OBVIOUS
  <2>1. /\ timestamps[s] \in Seq(Nat) /\ now \in Nat
        /\ Len(timestamps[s]) <= MaxPerWindow
        /\ timestamps \in [Senders -> Seq(Nat)]
    BY DEF LimiterInv, TypeOK
  <2>2. Recorded(timestamps[s], now) = timestamps[s]
    BY <2>1, RefusedUnchanged DEF Refuse
  <2> QED BY <2>1, <2>2 DEF Refuse
<1> QED BY <1>1, SpecInv, PTL DEF Spec, RefusalLeavesNoTrace
-----------------------------------------------------------------------------
(* The limiter on a clock that steps back. Its lists are in no order, but   *)
(* what left them was old by the highest reading the clock ever gave.       *)

\* The sender's list, its history, and the readings of the peak beside it.
SteppedOf(s) ==
    /\ Len(timestamps[s]) <= MaxPerWindow
    /\ IsTail(timestamps[s], granted[s], peak)
    /\ \A i \in 1..Len(granted[s]) : granted[s][i] <= peak
    /\ Len(peaks[s]) = Len(granted[s])
    /\ \A i \in 1..(Len(granted[s]) - MaxPerWindow) :
          peaks[s][i + MaxPerWindow] - granted[s][i] > WindowMs

SteppedTypeOK == /\ TypeOK
                 /\ sets \in Nat
                 /\ peak \in Nat /\ now <= peak
                 /\ peaks \in [Senders -> Seq(Nat)]

SteppedInv == SteppedTypeOK /\ \A s \in Senders : SteppedOf(s)

(* The peak only ever rises, and a clock that is never set back goes on.    *)
LEMMA ReadsFacts ==
    ASSUME SteppedTypeOK, NEW t \in 0..MaxTime, Reads(t)
    PROVE  /\ t \in Nat /\ now' = t /\ sets' \in Nat
           /\ peak' \in Nat /\ peak <= peak' /\ t <= peak'
           /\ sets' = 0 => sets = 0 /\ now <= t
<1>1. t \in Nat /\ now \in Nat /\ peak \in Nat /\ sets \in Nat
  BY MaxTimeAssumption DEF SteppedTypeOK, TypeOK
<1>2. peak' \in Nat /\ peak <= peak' /\ t <= peak'
  BY <1>1 DEF Reads, Higher
<1>3. CASE t < now
  <2>1. sets' = sets + 1
    BY <1>3 DEF Reads
  <2> QED BY <2>1, <1>1, <1>2 DEF Reads
<1>4. CASE ~(t < now)
  <2>1. sets' = sets
    BY <1>4 DEF Reads
  <2> QED BY <2>1, <1>1, <1>2, <1>4 DEF Reads
<1> QED BY <1>3, <1>4

(* A sender whose list and history stay does not mind a higher peak.        *)
LEMMA SteppedOther ==
    ASSUME SteppedInv, NEW s \in Senders, peak' \in Nat, peak <= peak',
           timestamps'[s] = timestamps[s], granted'[s] = granted[s],
           peaks'[s] = peaks[s]
    PROVE  SteppedOf(s)'
<1>1. /\ SteppedOf(s) /\ peak \in Nat
      /\ timestamps[s] \in Seq(Nat) /\ granted[s] \in Seq(Nat)
  BY DEF SteppedInv, SteppedTypeOK, TypeOK
<1>2. IsTail(timestamps[s], granted[s], peak')
  BY <1>1, TailOfHigher DEF SteppedOf
<1>3. \A i \in 1..Len(granted[s]) : granted[s][i] <= peak'
  <2>1. \A i \in 1..Len(granted[s]) : granted[s][i] \in Nat
    BY <1>1, ElementOfSeq
  <2> QED BY <2>1, <1>1 DEF SteppedOf
<1> QED BY <1>1, <1>2, <1>3 DEF SteppedOf

(* A sender that is forgotten starts afresh.                                *)
LEMMA SteppedAfresh ==
    ASSUME NEW s \in Senders, timestamps[s] = <<>>, granted[s] = <<>>,
           peaks[s] = <<>>
    PROVE  SteppedOf(s)
<1>1. Len(<<>>) = 0 /\ MaxPerWindow \in Nat \ {0}
  BY WindowAssumption
<1> QED BY <1>1 DEF SteppedOf, IsTail

LEMMA SteppedInitInv == SteppedInit => SteppedInv
<1> SUFFICES ASSUME SteppedInit PROVE SteppedInv
  OBVIOUS
<1>1. SteppedTypeOK
  BY DEF SteppedInit, Init, SteppedTypeOK, TypeOK
<1>2. ASSUME NEW s \in Senders PROVE SteppedOf(s)
  BY SteppedAfresh DEF SteppedInit, Init
<1> QED BY <1>1, <1>2 DEF SteppedInv

(* The slot a send takes had been free for more than a window by the peak,  *)
(* since the send a quota before it has left the list.                      *)
LEMMA SteppedGrantInv ==
    ASSUME SteppedInv, NEW s \in Senders, SteppedGrant(s)
    PROVE  SteppedInv'
<1>1. /\ now \in Nat /\ peak \in Nat /\ now <= peak /\ SteppedTypeOK
      /\ timestamps \in [Senders -> Seq(Nat)]
      /\ granted \in [Senders -> Seq(Nat)]
      /\ peaks \in [Senders -> Seq(Nat)]
      /\ \A u \in Senders : SteppedOf(u)
  BY DEF SteppedInv, SteppedTypeOK, TypeOK
<1>2. PICK t \in 0..MaxTime :
         /\ Reads(t)
         /\ timestamps' = [timestamps EXCEPT
                             ![s] = Append(Pruned(timestamps[s], now), t)]
         /\ granted' = [granted EXCEPT ![s] = Append(granted[s], t)]
  BY DEF SteppedGrant, Stamped
<1>3. /\ peaks' = [peaks EXCEPT ![s] = Append(peaks[s], peak)]
      /\ Fits(timestamps[s], now)
  BY DEF SteppedGrant
<1>4. t \in Nat /\ now' = t /\ sets' \in Nat
  BY <1>1, <1>2, ReadsFacts
<1>5. peak' \in Nat /\ peak <= peak' /\ t <= peak'
  BY <1>1, <1>2, ReadsFacts
<1> DEFINE list == timestamps[s]
           past == granted[s]
           p == Pruned(list, now)
<1>6. list \in Seq(Nat) /\ past \in Seq(Nat) /\ peaks[s] \in Seq(Nat)
  BY <1>1
<1>7. p \in Seq(Nat) /\ IsTail(p, past, peak)
  BY <1>1, <1>6, PrunedIsTail DEF SteppedOf
<1>8. Len(p) < MaxPerWindow
  BY <1>3 DEF Fits
<1>9. /\ timestamps'[s] = Append(p, t) /\ granted'[s] = Append(past, t)
      /\ peaks'[s] = Append(peaks[s], peak)
  BY <1>1, <1>2, <1>3
<1> HIDE DEF p
<1>10. SteppedTypeOK'
  <2>1. Append(p, t) \in Seq(Nat) /\ Append(past, t) \in Seq(Nat)
        /\ Append(peaks[s], peak) \in Seq(Nat)
    BY <1>1, <1>4, <1>6, <1>7
  <2>2. /\ timestamps' \in [Senders -> Seq(Nat)]
        /\ granted' \in [Senders -> Seq(Nat)]
        /\ peaks' \in [Senders -> Seq(Nat)]
    BY <2>1, <1>1, <1>2, <1>3 DEF p
  <2> QED BY <2>2, <1>2, <1>4, <1>5 DEF SteppedTypeOK, TypeOK
<1>11. SteppedOf(s)'
  <2>1. /\ Len(p) \in Nat /\ Len(past) \in Nat /\ Len(p) <= Len(past)
        /\ MaxPerWindow \in Nat \ {0} /\ WindowMs \in Nat
        /\ Len(peaks[s]) = Len(past)
    BY <1>1, <1>6, <1>7, LenProperties, WindowAssumption DEF IsTail, SteppedOf
  <2>2. /\ Len(Append(p, t)) = Len(p) + 1
        /\ Len(Append(past, t)) = Len(past) + 1
        /\ Append(past, t)[Len(past) + 1] = t
        /\ \A i \in 1..Len(past) : Append(past, t)[i] = past[i]
        /\ Len(Append(peaks[s], peak)) = Len(past) + 1
        /\ Append(peaks[s], peak)[Len(past) + 1] = peak
        /\ \A i \in 1..Len(past) : Append(peaks[s], peak)[i] = peaks[s][i]
    <3>1. ASSUME NEW q \in Seq(Nat), NEW e \in Nat
          PROVE  /\ Len(Append(q, e)) = Len(q) + 1
                 /\ Append(q, e)[Len(q) + 1] = e
                 /\ \A i \in 1..Len(q) : Append(q, e)[i] = q[i]
      OBVIOUS
    <3>2. Len(Append(p, t)) = Len(p) + 1
      BY <3>1, <1>4, <1>7
    <3>3. /\ Len(Append(past, t)) = Len(past) + 1
          /\ Append(past, t)[Len(past) + 1] = t
          /\ \A i \in 1..Len(past) : Append(past, t)[i] = past[i]
      BY <3>1, <1>4, <1>6
    <3>4. /\ Len(Append(peaks[s], peak)) = Len(past) + 1
          /\ Append(peaks[s], peak)[Len(past) + 1] = peak
          /\ \A i \in 1..Len(past) : Append(peaks[s], peak)[i] = peaks[s][i]
      BY <3>1, <2>1, <1>1, <1>6
    <3> QED BY <3>2, <3>3, <3>4
  <2>3. IsTail(Append(p, t), Append(past, t), peak')
    <3>1. IsTail(Append(p, t), Append(past, t), peak)
      BY <1>1, <1>4, <1>6, <1>7, AppendedIsTail
    <3>2. Append(p, t) \in Seq(Nat) /\ Append(past, t) \in Seq(Nat)
      BY <1>4, <1>6, <1>7
    <3> QED BY <3>1, <3>2, <1>1, <1>5, TailOfHigher
  <2>4. \A i \in 1..Len(past) : past[i] \in Nat /\ past[i] <= peak
    BY <1>1, <1>6, ElementOfSeq DEF SteppedOf
  <2>5. ASSUME NEW i \in 1..Len(Append(past, t))
        PROVE  Append(past, t)[i] <= peak'
    <3>1. CASE i = Len(past) + 1
      BY <3>1, <2>2, <1>5
    <3>2. CASE i \in 1..Len(past)
      BY <3>2, <2>2, <2>4, <1>1, <1>5
    <3> QED BY <3>1, <3>2, <2>1, <2>2
  <2>6. ASSUME NEW i \in 1..(Len(Append(past, t)) - MaxPerWindow)
        PROVE  Append(peaks[s], peak)[i + MaxPerWindow] - Append(past, t)[i]
                 > WindowMs
    <3>1. i \in 1..Len(past) /\ i + MaxPerWindow <= Len(past) + 1
      BY <2>1, <2>2
    <3>2. CASE i + MaxPerWindow = Len(past) + 1
      <4>1. i \in 1..(Len(past) - Len(p))
        BY <3>1, <3>2, <2>1, <1>8
      <4>2. past[i] < peak - WindowMs
        BY <4>1, <1>7 DEF IsTail
      <4>3. /\ Append(past, t)[i] = past[i]
            /\ Append(peaks[s], peak)[i + MaxPerWindow] = peak
        BY <3>1, <3>2, <2>2
      <4>4. past[i] \in Nat /\ peak \in Nat /\ WindowMs \in Nat
        BY <3>1, <2>1, <2>4, <1>1
      <4>5. peak - past[i] > WindowMs
        BY <4>2, <4>4
      <4> QED BY <4>3, <4>5
    <3>3. CASE i + MaxPerWindow # Len(past) + 1
      <4>1. /\ i \in 1..(Len(past) - MaxPerWindow)
            /\ i + MaxPerWindow \in 1..Len(past)
        BY <3>1, <3>3, <2>1
      <4>2. peaks[s][i + MaxPerWindow] - past[i] > WindowMs
        BY <4>1, <1>1 DEF SteppedOf
      <4> QED BY <4>1, <4>2, <3>1, <2>2
    <3> QED BY <3>2, <3>3
  <2>7. Len(Append(p, t)) <= MaxPerWindow
    BY <2>1, <2>2, <1>8
  <2> QED BY <1>9, <2>2, <2>3, <2>5, <2>6, <2>7 DEF SteppedOf
<1>12. ASSUME NEW u \in Senders, u # s
       PROVE  SteppedOf(u)'
  BY <1>12, <1>1, <1>2, <1>3, <1>5, SteppedOther
<1> QED BY <1>10, <1>11, <1>12 DEF SteppedInv

LEMMA SteppedStepInv == SteppedInv /\ [SteppedNext]_clockVars => SteppedInv'
<1> SUFFICES ASSUME SteppedInv, [SteppedNext]_clockVars
             PROVE  SteppedInv'
  OBVIOUS
<1>0. /\ SteppedTypeOK /\ now \in Nat /\ peak \in Nat /\ now <= peak
      /\ timestamps \in [Senders -> Seq(Nat)]
      /\ granted \in [Senders -> Seq(Nat)]
      /\ peaks \in [Senders -> Seq(Nat)]
      /\ \A s \in Senders : SteppedOf(s)
  BY DEF SteppedInv, SteppedTypeOK, TypeOK
<1>1. ASSUME NEW s \in Senders, SteppedGrant(s)
      PROVE  SteppedInv'
  BY <1>1, SteppedGrantInv
<1>2. ASSUME NEW s \in Senders, SteppedRefuse(s)
      PROVE  SteppedInv'
  <2>1. Recorded(timestamps[s], now) = timestamps[s]
    BY <1>0, <1>2, RefusedUnchanged DEF SteppedRefuse, Refuse, SteppedOf
  <2>2. UNCHANGED clockVars
    BY <2>1, <1>0, <1>2 DEF SteppedRefuse, Refuse, clockVars, vars
  <2> QED BY <2>2 DEF SteppedInv, SteppedTypeOK, TypeOK, SteppedOf, clockVars, vars
<1>3. ASSUME NEW s \in Senders, SteppedForget(s)
      PROVE  SteppedInv'
  <2>1. /\ now' = now /\ peak' = peak /\ sets' = sets
        /\ timestamps' = [timestamps EXCEPT ![s] = <<>>]
        /\ granted' = [granted EXCEPT ![s] = <<>>]
        /\ peaks' = [peaks EXCEPT ![s] = <<>>]
    BY <1>3 DEF SteppedForget, Forget
  <2>2. SteppedTypeOK'
    BY <1>0, <2>1 DEF SteppedTypeOK, TypeOK
  <2>3. SteppedOf(s)'
    <3>1. Len(<<>>) = 0 /\ MaxPerWindow \in Nat \ {0}
      BY WindowAssumption
    <3>2. timestamps'[s] = <<>> /\ granted'[s] = <<>> /\ peaks'[s] = <<>>
      BY <1>0, <2>1
    <3> QED BY <3>1, <3>2 DEF SteppedOf, IsTail
  <2>4. ASSUME NEW u \in Senders, u # s
        PROVE  SteppedOf(u)'
    BY <2>4, <1>0, <2>1, SteppedOther
  <2> QED BY <2>2, <2>3, <2>4 DEF SteppedInv
<1>4. CASE Step
  <2>1. PICK t \in 0..MaxTime : Reads(t)
    BY <1>4 DEF Step
  <2>2. UNCHANGED <<timestamps, granted, peaks>>
    BY <1>4 DEF Step
  <2>3. t \in Nat /\ now' = t /\ sets' \in Nat
    BY <1>0, <2>1, ReadsFacts
  <2>4. peak' \in Nat /\ peak <= peak' /\ t <= peak'
    BY <1>0, <2>1, ReadsFacts
  <2>5. SteppedTypeOK'
    BY <1>0, <2>1, <2>2, <2>3, <2>4 DEF SteppedTypeOK, TypeOK
  <2>6. ASSUME NEW u \in Senders PROVE SteppedOf(u)'
    BY <2>2, <2>4, SteppedOther
  <2> QED BY <2>5, <2>6 DEF SteppedInv
<1>5. CASE UNCHANGED clockVars
  BY <1>5, <1>0 DEF SteppedInv, SteppedTypeOK, TypeOK, SteppedOf, clockVars, vars
<1> QED BY <1>1, <1>2, <1>3, <1>4, <1>5 DEF SteppedNext

(* Until the clock is set back, the limiter is the one above.               *)
SteadyInv == sets = 0 => LimiterInv

LEMMA SteadyStepInv ==
    ASSUME SteppedInv, SteadyInv, [SteppedNext]_clockVars
    PROVE  SteadyInv'
<1> SUFFICES ASSUME sets' = 0 PROVE LimiterInv'
  BY DEF SteadyInv
<1> DEFINE Of(s) == /\ Len(timestamps[s]) <= MaxPerWindow
                    /\ IsTail(timestamps[s], granted[s], now)
                    /\ InOrder(granted[s], now)
                    /\ Spaced(granted[s])
<1>0. SteppedTypeOK /\ TypeOK
  BY DEF SteppedInv, SteppedTypeOK
<1>1. ASSUME sets = 0
      PROVE  \A s \in Senders : /\ timestamps[s] \in Seq(Nat)
                                /\ granted[s] \in Seq(Nat)
                                /\ Of(s)
  BY <1>1, <1>0 DEF SteadyInv, LimiterInv, TypeOK
<1> HIDE DEF Of
<1>2. SteppedInv'
  BY SteppedStepInv
<1>3. TypeOK' /\ \A s \in Senders : (Len(timestamps[s]) <= MaxPerWindow)'
  BY <1>2 DEF SteppedInv, SteppedTypeOK, SteppedOf
<1>4. ASSUME NEW s \in Senders, SteppedGrant(s)
      PROVE  LimiterInv'
  <2>1. PICK t \in 0..MaxTime :
           /\ Reads(t)
           /\ timestamps' = [timestamps EXCEPT
                               ![s] = Append(Pruned(timestamps[s], now), t)]
           /\ granted' = [granted EXCEPT ![s] = Append(granted[s], t)]
    BY <1>4 DEF SteppedGrant, Stamped
  <2>2. t \in Nat /\ now \in Nat /\ now' = t /\ sets = 0 /\ now <= t
    BY <2>1, <1>0, ReadsFacts DEF TypeOK
  <2>3. ASSUME NEW u \in Senders
        PROVE  Of(u)'
    <3>1. CASE u = s
      <4>1. /\ timestamps'[u] = Append(Pruned(timestamps[s], now), t)
            /\ granted'[u] = Append(granted[s], t)
        BY <1>0, <2>1, <3>1 DEF TypeOK
      <4>2. Fits(timestamps[s], now)
        BY <1>4 DEF SteppedGrant
      <4>3. /\ IsTail(timestamps'[u], granted'[u], t)
            /\ InOrder(granted'[u], t)
            /\ Spaced(granted'[u])
        BY <4>1, <4>2, <1>1, <2>2, StampKeeps DEF Of
      <4> QED BY <4>3, <2>2, <1>3 DEF Of
    <3>2. CASE u # s
      <4>1. timestamps'[u] = timestamps[u] /\ granted'[u] = granted[u]
        BY <1>0, <2>1, <3>2 DEF TypeOK
      <4>2. IsTail(timestamps[u], granted[u], t) /\ InOrder(granted[u], t)
        BY <1>1, <2>2, TailOfHigher, InOrderLater DEF Of
      <4> QED BY <4>1, <4>2, <1>1, <2>2 DEF Of
    <3> QED BY <3>1, <3>2
  <2> QED BY <2>3, <1>3 DEF LimiterInv, Of
<1>5. CASE Step
  <2>1. PICK t \in 0..MaxTime : Reads(t)
    BY <1>5 DEF Step
  <2>2. t \in Nat /\ now \in Nat /\ now' = t /\ sets = 0 /\ now <= t
    BY <2>1, <1>0, ReadsFacts DEF TypeOK
  <2>3. timestamps' = timestamps /\ granted' = granted
    BY <1>5 DEF Step
  <2>4. ASSUME NEW u \in Senders
        PROVE  Of(u)'
    <3>1. IsTail(timestamps[u], granted[u], t) /\ InOrder(granted[u], t)
      BY <1>1, <2>2, TailOfHigher, InOrderLater DEF Of
    <3> QED BY <3>1, <1>1, <2>2, <2>3 DEF Of
  <2> QED BY <2>4, <1>3 DEF LimiterInv, Of
<1>6. CASE \/ \E s \in Senders : SteppedRefuse(s) \/ SteppedForget(s)
           \/ UNCHANGED clockVars
  <2>1. sets = 0
    BY <1>6 DEF SteppedRefuse, SteppedForget, clockVars
  <2>2. [Next]_vars
    BY <1>6 DEF SteppedRefuse, SteppedForget, clockVars, Next
  <2> QED BY <2>1, <2>2, StepInv DEF SteadyInv
<1> QED BY <1>4, <1>5, <1>6 DEF SteppedNext

LEMMA SteppedSpecInv == SteppedSpec => []SteppedInv
  BY SteppedInitInv, SteppedStepInv, PTL DEF SteppedSpec

LEMMA SteadySpecInv == SteppedSpec => []SteadyInv
<1>1. SteppedInit => SteadyInv
  BY InitInv DEF SteppedInit, SteadyInv
<1>2. SteppedInv /\ SteadyInv /\ [SteppedNext]_clockVars => SteadyInv'
  BY SteadyStepInv
<1> QED BY <1>1, <1>2, SteppedSpecInv, PTL DEF SteppedSpec

(* The lists and histories are well-formed whatever the clock does.         *)
THEOREM SteppedTypeCorrect == SteppedSpec => []TypeOK
<1>1. SteppedInv => TypeOK
  BY DEF SteppedInv, SteppedTypeOK
<1> QED BY <1>1, SteppedSpecInv, PTL

(* The contract of rate-limiter.ts:1-2, until the clock is set back.        *)
THEOREM BoundAlwaysWhileSteady == SteppedSpec => []BoundWhileSteady
<1>1. SteadyInv => BoundWhileSteady
  BY DEF SteadyInv, LimiterInv, BoundWhileSteady, WindowBound, Spaced
<1> QED BY <1>1, SteadySpecInv, PTL

(* Pruning forgets nothing that counts, until the clock is set back.        *)
THEOREM ExactAlwaysWhileSteady == SteppedSpec => []ExactWhileSteady
<1>1. SteadyInv => ExactWhileSteady
  BY ExactByInv DEF SteadyInv, ExactWhileSteady
<1> QED BY <1>1, SteadySpecInv, PTL

(* rate-limiter.ts:42: a refused call changes no state, whatever the clock  *)
(* does.                                                                    *)
THEOREM SteppedRefusalsLeaveNoTrace == SteppedSpec => RefusalLeavesNoTrace
<1>1. SteppedInv /\ [SteppedNext]_clockVars
        => [\A s \in Senders : Refuse(s) => timestamps' = timestamps]_vars
  <2> SUFFICES ASSUME SteppedInv, NEW s \in Senders, Refuse(s)
               PROVE  timestamps' = timestamps
    OBVIOUS
  <2>1. /\ timestamps[s] \in Seq(Nat) /\ now \in Nat
        /\ Len(timestamps[s]) <= MaxPerWindow
        /\ timestamps \in [Senders -> Seq(Nat)]
    BY DEF SteppedInv, SteppedTypeOK, SteppedOf, TypeOK
  <2>2. Recorded(timestamps[s], now) = timestamps[s]
    BY <2>1, RefusedUnchanged DEF Refuse
  <2> QED BY <2>1, <2>2 DEF Refuse
<1> QED BY <1>1, SteppedSpecInv, PTL DEF SteppedSpec, RefusalLeavesNoTrace

(* Setting the clock back lets nobody exceed its quota by the highest       *)
(* reading of the clock, not even between the two readings of one call      *)
(* (rate-limiter.ts:44-66).                                                 *)
THEOREM QuotaAlwaysOutlivesSteps == SteppedSpec => []QuotaOutlivesSteps
<1>1. SteppedInv => QuotaOutlivesSteps
  BY DEF SteppedInv, SteppedOf, QuotaOutlivesSteps
<1> QED BY <1>1, SteppedSpecInv, PTL

(* Stamps left behind a younger one are pruned in the end: a window after   *)
(* the highest reading nothing is left in a list (rate-limiter.ts:56-65).   *)
THEOREM ShieldedStampsAlwaysGo == SteppedSpec => []ShieldedStampsGo
<1>1. SteppedInv => ShieldedStampsGo
  <2> SUFFICES ASSUME SteppedInv, NEW s \in Senders
               PROVE  Pruned(timestamps[s], peak + WindowMs + 1) = <<>>
    BY DEF ShieldedStampsGo
  <2> DEFINE list == timestamps[s]
             past == granted[s]
             end == peak + WindowMs + 1
  <2>1. /\ list \in Seq(Nat) /\ past \in Seq(Nat) /\ peak \in Nat
        /\ WindowMs \in Nat /\ SteppedOf(s)
    BY WindowAssumption DEF SteppedInv, SteppedTypeOK, TypeOK
  <2>2. end \in Nat /\ end - WindowMs = peak + 1
    BY <2>1
  <2> HIDE DEF end
  <2>3. PICK k \in 0..Len(list) :
           /\ Pruned(list, end) \in Seq(Nat)
           /\ Len(Pruned(list, end)) = Len(list) - k
           /\ k < Len(list) => list[k + 1] >= end - WindowMs
    BY <2>1, <2>2, PrunedIsSuffix
  <2>4. Len(list) \in Nat /\ Len(past) \in Nat /\ Len(list) <= Len(past)
    BY <2>1, LenProperties DEF SteppedOf, IsTail
  <2>5. k = Len(list)
    <3>1. SUFFICES ASSUME k < Len(list) PROVE FALSE
      BY <2>4
    <3>2. list[k + 1] >= peak + 1
      BY <3>1, <2>2, <2>3
    <3>3. k + 1 \in 1..Len(list) /\ Len(past) - Len(list) + (k + 1) \in 1..Len(past)
      <4>1. \A m, n, j \in Nat : j < m /\ m <= n
               => j + 1 \in 1..m /\ n - m + (j + 1) \in 1..n
        OBVIOUS
      <4>2. k \in Nat
        BY <2>4
      <4> QED BY <4>1, <4>2, <3>1, <2>4
    <3>4. list[k + 1] = past[Len(past) - Len(list) + (k + 1)]
      BY <3>3, <2>1 DEF SteppedOf, IsTail
    <3>5. list[k + 1] \in Nat /\ list[k + 1] <= peak
      BY <3>3, <3>4, <2>1, ElementOfSeq DEF SteppedOf
    <3> QED BY <3>2, <3>5, <2>1
  <2>6. Len(Pruned(list, end)) = 0
    BY <2>3, <2>4, <2>5
  <2>7. Pruned(list, end) = <<>>
    BY <2>3, <2>6, EmptySeq
  <2> QED BY <2>7 DEF end
<1> QED BY <1>1, SteppedSpecInv, PTL
=============================================================================
