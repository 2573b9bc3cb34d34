------------------------------ MODULE EndToEnd ------------------------------
(* The whole chat observed from both ends: what a session was owed when it  *)
(* was spoken, judged from the connections alone, beside what its agent has *)
(* heard at the far end of batch, timer, socket and client.                 *)
EXTENDS Connection

VARIABLE owed             \* history: messages that mentioned this session

endToEndVars == <<linkVars, owed>>

EndToEndInit == LinkInit /\ owed = [h \in Handles |-> <<>>]
-----------------------------------------------------------------------------
\* A request that added a message to the room of its caller owes it to those
\* whom it mentions.
ServeAndOwe(h) ==
    /\ Serve(h)
    /\ LET q == Head(uplink[h]).request
           r == membership[h].roomId
           m == history'[r][Len(history'[r])]
       IN  owed' = [g \in Handles |->
                      IF history' # history /\ IsFor(h, q.mentions, g)
                      THEN Append(owed[g], m) ELSE owed[g]]

\* A session whose end the broker has seen is owed nothing.
CloseSeenAndForget(h) ==
    /\ CloseSeen(h)
    /\ owed' = [owed EXCEPT ![h] = <<>>]

EndToEndNext ==
    \/ \E h \in Handles :
          \/ Open(h) /\ UNCHANGED owed
          \/ Close(h) /\ UNCHANGED owed
          \/ CloseSeenAndForget(h)
          \/ \E q \in Asks[h] : Call(h, q) /\ UNCHANGED owed
          \/ ServeAndOwe(h)
          \/ Wake(h) /\ UNCHANGED owed
          \/ Receive(h) /\ UNCHANGED owed
    \/ PassTime /\ UNCHANGED owed

EndToEndSpec == EndToEndInit /\ [][EndToEndNext]_endToEndVars

FairEndToEndSpec == EndToEndSpec /\ LinkFairness
-----------------------------------------------------------------------------
Gone == {h \in Handles : connections[h] = "closed"}

\* What the agent of h heard, and then what is owed to it beyond as many.
HeardAndOwed(h) ==
    events[h] \o SubSeq(owed[h], Len(events[h]) + 1, Len(owed[h]))

(* To its agents the whole is the abstract chat: what is said in a room is  *)
(* due at once to whoever it mentions, and what an agent hears, of all that *)
(* its session was sent, is what is due to it, in order, each message once  *)
(* and none left out, until the session is gone. Behind pipelined calls,    *)
(* refusals, batches, timers and sockets there is nothing else to see.      *)
Chat == INSTANCE GroupChat WITH
    Sessions <- Handles,
    Rooms <- RoomIds,
    Capacity <- HardCap,
    nobody <- undefined,
    seat <- membership,
    gone <- Gone,
    log <- history,
    due <- [h \in Handles |-> IF h \in Gone THEN <<>> ELSE HeardAndOwed(h)],
    handed <- [h \in Handles |-> IF h \in Gone THEN 0 ELSE Len(events[h])]

AgentsChat == Chat!Spec
=============================================================================
