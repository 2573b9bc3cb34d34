------------------------------ MODULE Delivery ------------------------------
(* The broker observed by a reader of its pushes: who was owed a message    *)
(* when it was spoken, judged from the connections alone, and what each     *)
(* connection's callback has been handed since.                             *)
EXTENDS Broker

VARIABLES owed,       \* history: messages that mentioned this connection
          received    \* history: `sent`, its batches laid end to end

deliveryVars == <<vars, owed, received>>

DeliveryInit == /\ Init
                /\ owed = [h \in Handles |-> <<>>]
                /\ received = [h \in Handles |-> <<>>]
-----------------------------------------------------------------------------
\* Each step hands a callback at most one batch.
Receive ==
    received' = [h \in Handles |->
                   IF sent'[h] = sent[h] THEN received[h]
                   ELSE IF sent'[h] = <<>> THEN <<>>
                   ELSE received[h] \o sent'[h][Len(sent'[h])].messages]

SpeakAndOwe(h, mentions) ==
    /\ Speak(h, mentions)
    /\ LET r == membership[h].roomId
           m == history'[r][Len(history'[r])]
       IN  owed' = [g \in Handles |-> IF IsFor(h, mentions, g)
                                      THEN Append(owed[g], m) ELSE owed[g]]
    /\ Receive

\* A closed connection is owed nothing.
DisconnectAndForget(h) ==
    /\ Disconnect(h)
    /\ owed' = [owed EXCEPT ![h] = <<>>]
    /\ Receive

\* After any other step everybody is owed what they were.
Unowed == UNCHANGED owed /\ Receive

Flush(h) == FlushBatch(h) /\ Unowed

DeliveryNext ==
    \/ \E h \in Handles :
          \/ Connect(h) /\ Unowed
          \/ DisconnectAndForget(h)
          \/ \E r \in RoomIds, n \in Names : Join(h, r, n) /\ Unowed
          \/ \E r \in RoomIds, n \in Names \cup BadNames, fits \in BOOLEAN :
                JoinRefused(h, r, n, fits) /\ Unowed
          \/ Leave(h) /\ Unowed
          \/ \E mentions \in MentionSets : SpeakAndOwe(h, mentions)
          \/ SpeakRoomFull(h) /\ Unowed
          \/ SpeakRateLimited(h) /\ Unowed
          \/ ReadHistory(h) /\ Unowed
          \/ ListMembers(h) /\ Unowed
          \/ Flush(h)
    \/ Gc /\ Unowed
    \/ Tick /\ Unowed

DeliverySpec == DeliveryInit /\ [][DeliveryNext]_deliveryVars

\* setTimeout callbacks run: the event loop fires every timer that is armed
\* and not cleared.
TimersFire == \A h \in Handles : WF_deliveryVars(Flush(h))

FairDeliverySpec == DeliverySpec /\ TimersFire
-----------------------------------------------------------------------------
(* The broker's promise to a recipient (broker.ts:74, "the only mechanism   *)
(* by which messages are dropped" is the sender's limiter): what reached an *)
(* open connection, followed by what its batch still holds, is exactly what *)
(* it was owed, each message once and in the order spoken, across batches,  *)
(* leaves and rejoins.                                                      *)
OwedDelivered ==
    \A h \in Handles :
        connections[h] = "open" => owed[h] = received[h] \o Queued(h)

(* To its sessions the broker is the abstract chat: rosters, routing table,  *)
(* batches and timers are ways to keep seats exclusive, logs numbered and   *)
(* every session's messages complete and in order.                          *)
Chat == INSTANCE GroupChat WITH
    Sessions <- Handles,
    Rooms <- RoomIds,
    Capacity <- HardCap,
    nobody <- undefined,
    seat <- membership,
    gone <- {h \in Handles : connections[h] = "closed"},
    log <- history,
    due <- [h \in Handles |-> received[h] \o Queued(h)],
    handed <- [h \in Handles |-> Len(received[h])]

ImplementsChat == Chat!Spec

(* A batch is never left behind: every message owed reaches the callback    *)
(* unless the connection closes first, whatever else goes on in between.    *)
(* (The k-th message owed, up to what one room can hold.)                   *)
EveryMessageArrives ==
    \A h \in Handles : \A k \in 1..HardCap :
        Len(owed[h]) >= k ~> (Len(received[h]) >= k \/ connections[h] = "closed")
=============================================================================
