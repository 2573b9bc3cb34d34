--------------------------- MODULE SteppedClock ---------------------------
(* The limiter of packages/broker/src/rate-limiter.ts on the clock the      *)
(* daemon gives it, Date.now, which may be set back at any moment, between  *)
(* the two readings of one tryRecord too. Its lists are then not sorted: a  *)
(* young stamp at the head keeps old ones behind it.                        *)
EXTENDS SenderRateLimiter

CONSTANT MaxSets          \* bound on how often the clock is set back

ASSUME MaxSetsAssumption == MaxSets \in Nat

VARIABLES sets,           \* history: how often the clock has been set back
          peak,           \* history: the highest reading there has been
          peaks           \* history: what it was at each send in `granted`

clockVars == <<vars, sets, peak, peaks>>

Higher(t, u) == IF t < u THEN u ELSE t

SteppedInit == /\ Init
               /\ sets = 0
               /\ peak = 0
               /\ peaks = [s \in Senders |-> <<>>]
-----------------------------------------------------------------------------
\* The next reading of the clock is t: later than the last one or the same,
\* unless the clock was set back.
Reads(t) ==
    /\ IF t < now THEN sets < MaxSets /\ sets' = sets + 1
                  ELSE UNCHANGED sets
    /\ now' = t
    /\ peak' = Higher(peak, t)

\* A mutation: the start of the window is recorded.
StampedStart(list, t) == Append(Pruned(list, now), now - WindowMs)

\* The list is pruned at one reading of the clock, and the stamp is the next.
Stamped(list, t) == Append(Pruned(list, now), t)

\* tryRecord returning true.
SteppedGrant(s) ==
    /\ Fits(timestamps[s], now)
    /\ \E t \in 0..MaxTime :
          /\ Reads(t)
          /\ timestamps' = [timestamps EXCEPT ![s] = Stamped(@, t)]
          /\ granted' = [granted EXCEPT ![s] = Append(@, t)]
    /\ peaks' = [peaks EXCEPT ![s] = Append(@, peak)]

SteppedRefuse(s) == Refuse(s) /\ UNCHANGED <<sets, peak, peaks>>

SteppedForget(s) ==
    /\ Forget(s)
    /\ peaks' = [peaks EXCEPT ![s] = <<>>]
    /\ UNCHANGED <<sets, peak>>

\* Between two calls.
Step ==
    /\ \E t \in 0..MaxTime : Reads(t)
    /\ UNCHANGED <<timestamps, granted, peaks>>

SteppedNext == \/ \E s \in Senders :
                     SteppedGrant(s) \/ SteppedRefuse(s) \/ SteppedForget(s)
               \/ Step

SteppedSpec == SteppedInit /\ [][SteppedNext]_clockVars
-----------------------------------------------------------------------------
(* As long as the clock has not been set back the limiter keeps its         *)
(* contract and its decisions are exact, although each call reads the clock *)
(* twice.                                                                   *)
BoundWhileSteady == sets = 0 => WindowBound
ExactWhileSteady == sets = 0 => DecisionExact

(* Setting the clock back and forth buys nobody a slot: before the send     *)
(* MaxPerWindow places after another one, the clock had at some moment      *)
(* shown more than a window past the stamp of the first.                    *)
QuotaOutlivesSteps ==
    \A s \in Senders : \A i \in 1..(Len(granted[s]) - MaxPerWindow) :
        peaks[s][i + MaxPerWindow] - granted[s][i] > WindowMs

(* No stamp is shielded for ever: one window past the highest reading there *)
(* has been, the list of every sender is pruned to nothing, whatever stamps *)
(* are in it and in which order.                                            *)
ShieldedStampsGo ==
    \A s \in Senders : Pruned(timestamps[s], peak + WindowMs + 1) = <<>>
=============================================================================
