--------------------------- MODULE SlidingWindow ---------------------------
(* The arithmetic of packages/broker/src/rate-limiter.ts: one sender's list *)
(* of send times, pruned from its head and compared with the quota.         *)
EXTENDS Integers, Sequences, FiniteSets

CONSTANTS MaxPerWindow,   \* messages one sender may send within a window
          WindowMs        \* length of the sliding window

ASSUME WindowAssumption == /\ MaxPerWindow \in Nat \ {0}
                           /\ WindowMs \in Nat \ {0}

\* A mutation: a stamp exactly as old as the window has left it.
ExpiredAtEdge(list, cutoff) ==
    {i \in 1..Len(list) : \A j \in 1..i : list[j] <= cutoff}

\* Positions the pruning loop removes: `while (list[0] < cutoff) list.shift()`
\* takes position i off only after everything before it has gone.
Expired(list, cutoff) ==
    {i \in 1..Len(list) : \A j \in 1..i : list[j] < cutoff}

\* A mutation: nothing ever leaves the list.
Unpruned(list, t) == list

\* A mutation: the head is looked at once, not until it is young enough.
PrunedOnce(list, t) ==
    IF Expired(list, t - WindowMs) = {} THEN list ELSE Tail(list)

\* A stamp exactly WindowMs old is kept: the window is closed on both sides.
Pruned(list, t) ==
    SubSeq(list, Cardinality(Expired(list, t - WindowMs)) + 1, Len(list))

\* A slot is free for a send at time t.
Fits(list, t) == Len(Pruned(list, t)) < MaxPerWindow

\* A mutation: a refused call is recorded too.
RecordedAlways(list, t) == Append(Pruned(list, t), t)

\* The list a call at time t leaves behind, whether or not it was granted.
Recorded(list, t) ==
    IF Fits(list, t) THEN Append(Pruned(list, t), t) ELSE Pruned(list, t)
=============================================================================
