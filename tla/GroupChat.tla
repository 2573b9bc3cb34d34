----------------------------- MODULE GroupChat -----------------------------
(* What the broker promises its sessions, whatever tables, queues, timers   *)
(* and limits it keeps: rooms are numbered logs; a session sits on a seat   *)
(* nobody else has; what is said in a room is due at once to those of its   *)
(* members who are mentioned, except the speaker; and what is due is handed *)
(* over in order, nothing left out, until the session is gone.              *)
EXTENDS Naturals, Sequences

CONSTANTS Sessions, Rooms, Names, EVERYONE, MentionSets,
          Capacity,       \* messages a room's log may hold
          nobody          \* in place of a seat

VARIABLES seat,           \* the room and name of each session, or nobody
          gone,           \* sessions that have left for good
          log,            \* what was said in each room
          due,            \* messages for a session, handed over or not
          handed          \* how many of them were

vars == <<seat, gone, log, due, handed>>

Init == /\ seat = [c \in Sessions |-> nobody]
        /\ gone = {}
        /\ log = [r \in Rooms |-> <<>>]
        /\ due = [c \in Sessions |-> <<>>]
        /\ handed = [c \in Sessions |-> 0]
-----------------------------------------------------------------------------
Sitting == {c \in Sessions : seat[c] # nobody}

TakeSeat(c, r, n) ==
    /\ c \notin gone \cup Sitting
    /\ \A d \in Sitting : seat[d].roomId # r \/ seat[d].name # n
    /\ seat' = [seat EXCEPT ![c] = [roomId |-> r, name |-> n]]
    /\ UNCHANGED <<gone, log, due, handed>>

GiveUpSeat(c) ==
    /\ c \in Sitting
    /\ seat' = [seat EXCEPT ![c] = nobody]
    /\ UNCHANGED <<gone, log, due, handed>>

Vanish(c) ==
    /\ c \notin gone
    /\ gone' = gone \cup {c}
    /\ seat' = [seat EXCEPT ![c] = nobody]
    /\ due' = [due EXCEPT ![c] = <<>>]
    /\ handed' = [handed EXCEPT ![c] = 0]
    /\ UNCHANGED log

\* Those of the room who are mentioned, one by one or all together.
Audience(c, mentions) ==
    {d \in Sitting \ {c} : /\ seat[d].roomId = seat[c].roomId
                           /\ seat[d].name \in mentions \/ EVERYONE \in mentions}

\* A message may reach its audience at once, all of it, or wait.
Say(c, mentions) ==
    LET r == seat[c].roomId
        m == [id |-> Len(log[r]) + 1, roomId |-> r, from |-> seat[c].name]
    IN  /\ c \in Sitting
        /\ Len(log[r]) < Capacity
        /\ log' = [log EXCEPT ![r] = Append(@, m)]
        /\ due' = [d \in Sessions |-> IF d \in Audience(c, mentions)
                                      THEN Append(due[d], m) ELSE due[d]]
        /\ \/ UNCHANGED handed
           \/ handed' = [d \in Sessions |-> IF d \in Audience(c, mentions)
                                            THEN Len(due[d]) + 1 ELSE handed[d]]
        /\ UNCHANGED <<seat, gone>>

\* Some more of what is due.
HandOver(c) ==
    /\ \E k \in (handed[c] + 1)..Len(due[c]) : handed' = [handed EXCEPT ![c] = k]
    /\ UNCHANGED <<seat, gone, log, due>>

\* Only rooms that nobody sits in are forgotten.
Forget(rooms) ==
    /\ \A c \in Sitting : seat[c].roomId \notin rooms
    /\ log' = [r \in Rooms |-> IF r \in rooms THEN <<>> ELSE log[r]]
    /\ UNCHANGED <<seat, gone, due, handed>>

Next == \/ \E c \in Sessions :
              \/ \E r \in Rooms, n \in Names : TakeSeat(c, r, n)
              \/ GiveUpSeat(c)
              \/ Vanish(c)
              \/ \E mentions \in MentionSets : Say(c, mentions)
              \/ HandOver(c)
        \/ \E rooms \in SUBSET Rooms : Forget(rooms)

Spec == Init /\ [][Next]_vars
=============================================================================
