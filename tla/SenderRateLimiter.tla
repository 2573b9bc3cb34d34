------------------------- MODULE SenderRateLimiter -------------------------
(* The limiter of packages/broker/src/rate-limiter.ts as a state machine:   *)
(* any sender calls at any time, is forgotten at any time, and the injected *)
(* clock moves forward between calls.                                       *)
EXTENDS SlidingWindow

CONSTANTS Senders,        \* member names
          MaxTime         \* bound on the clock

ASSUME MaxTimeAssumption == MaxTime \in Nat

VARIABLES now,            \* the clock handed to the constructor
          timestamps,     \* #timestamps; a sender with no entry has <<>>
          granted         \* history: every send granted since the last forget

vars == <<now, timestamps, granted>>

TypeOK == /\ now \in Nat
          /\ timestamps \in [Senders -> Seq(Nat)]
          /\ granted \in [Senders -> Seq(Nat)]

Init == /\ now = 0
        /\ timestamps = [s \in Senders |-> <<>>]
        /\ granted = [s \in Senders |-> <<>>]
-----------------------------------------------------------------------------
\* tryRecord returning true.
Grant(s) ==
    /\ Fits(timestamps[s], now)
    /\ timestamps' = [timestamps EXCEPT ![s] = Recorded(@, now)]
    /\ granted' = [granted EXCEPT ![s] = Append(@, now)]
    /\ UNCHANGED now

\* tryRecord returning false. The list is pruned all the same.
Refuse(s) ==
    /\ ~Fits(timestamps[s], now)
    /\ timestamps' = [timestamps EXCEPT ![s] = Recorded(@, now)]
    /\ UNCHANGED <<now, granted>>

Forget(s) ==
    /\ timestamps' = [timestamps EXCEPT ![s] = <<>>]
    /\ granted' = [granted EXCEPT ![s] = <<>>]
    /\ UNCHANGED now

Tick ==
    /\ now < MaxTime
    /\ now' = now + 1
    /\ UNCHANGED <<timestamps, granted>>

Next == \/ \E s \in Senders : Grant(s) \/ Refuse(s) \/ Forget(s)
        \/ Tick

Spec == Init /\ [][Next]_vars
-----------------------------------------------------------------------------
\* Sends granted to s whose stamp is not older than the window at time now.
Recent(s) == {i \in DOMAIN granted[s] : granted[s][i] >= now - WindowMs}

(* The contract of rate-limiter.ts:1-2, over the whole history and not over *)
(* the pruned list: the send MaxPerWindow places after another one comes    *)
(* more than a window later, so no window holds more than MaxPerWindow.     *)
WindowBound ==
    \A s \in Senders : \A i \in 1..(Len(granted[s]) - MaxPerWindow) :
        granted[s][i + MaxPerWindow] - granted[s][i] > WindowMs

(* The decision is exact: tryRecord grants a slot precisely when fewer than *)
(* MaxPerWindow of the sends it ever granted are still in the window. A     *)
(* stale head left in the list would refuse a sender that is under quota.   *)
DecisionExact ==
    \A s \in Senders :
        Fits(timestamps[s], now) <=> Cardinality(Recent(s)) < MaxPerWindow

(* A refusal leaves no trace (rate-limiter.ts:42): a sender that keeps      *)
(* hammering the limiter does not push its own release further away.        *)
RefusalLeavesNoTrace ==
    [][\A s \in Senders : Refuse(s) => timestamps' = timestamps]_vars
=============================================================================
