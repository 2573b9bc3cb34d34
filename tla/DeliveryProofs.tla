--------------------------- MODULE DeliveryProofs ---------------------------
(* The broker delivers what it owes, with and without batching, and so      *)
(* implements the abstract chat, for any number of connections, rooms and   *)
(* names. On top of the broker's invariants this needs what its queues are  *)
(* in between (QueuesLive): a batch waits only for an open connection, is   *)
(* never empty, and there is none when batching is off.                     *)
EXTENDS Delivery, BrokerProofs, SequenceTheorems

ObserversTyped == /\ owed \in [Handles -> Seq(Message)]
                  /\ received \in [Handles -> Seq(Message)]
                  /\ \A h \in Handles : sent[h] = <<>> => received[h] = <<>>

QueuesLive ==
    \A h \in Handles : pendingBatches[h] # undefined =>
        /\ Batching
        /\ connections[h] = "open"
        /\ pendingBatches[h].messages # <<>>

\* For every connection, open or not.
Accounted == \A h \in Handles : owed[h] = received[h] \o Queued(h)

Inv == TypeOK /\ SeatsAgree /\ HistoryNumbered
       /\ ObserversTyped /\ QueuesLive /\ Accounted

-----------------------------------------------------------------------------
(* What is observed is the broker: every step of Delivery is one of its.    *)
LEMMA BrokerObserved == DeliverySpec => Spec
<1>1. DeliveryInit => Init
  BY DEF DeliveryInit
<1>2. [DeliveryNext]_deliveryVars => [Next]_vars
  BY DEF DeliveryNext, deliveryVars, Next, SpeakAndOwe, DisconnectAndForget, Flush
<1> QED BY <1>1, <1>2, PTL DEF DeliverySpec, Spec

LEMMA AppendFacts ==
    ASSUME NEW S, NEW s \in Seq(S), NEW e \in S
    PROVE  /\ Append(s, e) \in Seq(S)
           /\ Len(Append(s, e)) = Len(s) + 1
           /\ Append(s, e)[Len(Append(s, e))] = e
           /\ Append(s, e) = s \o <<e>>
           /\ Append(s, e) # s
           /\ Append(s, e) # <<>>
<1>1. /\ Append(s, e) \in Seq(S) /\ Len(Append(s, e)) = Len(s) + 1
      /\ Len(s) \in Nat /\ Len(<<>>) = 0
      /\ \A k \in 1..Len(s) : Append(s, e)[k] = s[k]
      /\ Append(s, e)[Len(s) + 1] = e
  OBVIOUS
<1>2. /\ <<e>> \in Seq(S) /\ Len(<<e>>) = 1 /\ <<e>>[1] = e
  OBVIOUS
<1>3. Append(s, e) = s \o <<e>>
  <2>1. /\ s \o <<e>> \in Seq(S) /\ Len(s \o <<e>>) = Len(s) + 1
        /\ \A k \in 1..(Len(s) + 1) :
              (s \o <<e>>)[k] = IF k <= Len(s) THEN s[k] ELSE <<e>>[k - Len(s)]
    BY <1>2, ConcatProperties
  <2>2. \A k \in 1..Len(Append(s, e)) : Append(s, e)[k] = (s \o <<e>>)[k]
    <3>1. SUFFICES ASSUME NEW k \in 1..(Len(s) + 1)
                   PROVE  Append(s, e)[k] = (s \o <<e>>)[k]
      BY <1>1
    <3>2. CASE k = Len(s) + 1
      BY <3>2, <2>1, <1>1, <1>2
    <3>3. CASE k \in 1..Len(s)
      BY <3>3, <2>1, <1>1
    <3> QED BY <3>2, <3>3, <1>1
  <2> QED BY <2>1, <2>2, <1>1, SeqEqual
<1> QED BY <1>1, <1>3

LEMMA AppendToConcat ==
    ASSUME NEW s \in Seq(Message), NEW t \in Seq(Message), NEW e \in Message
    PROVE  s \o Append(t, e) = Append(s \o t, e)
<1>1. <<e>> \in Seq(Message)
  OBVIOUS
<1>2. s \o t \in Seq(Message)
  BY ConcatProperties
<1>3. Append(t, e) = t \o <<e>> /\ Append(s \o t, e) = (s \o t) \o <<e>>
  BY <1>2, AppendFacts
<1>4. (s \o t) \o <<e>> = s \o (t \o <<e>>)
  BY <1>1, ConcatAssociative
<1> QED BY <1>3, <1>4

LEMMA QueuedType ==
    ASSUME TypeOK, NEW h \in Handles
    PROVE  /\ Queued(h) \in Seq(Message)
           /\ pendingBatches[h] # undefined =>
                 /\ pendingBatches[h] \in PendingBatch
                 /\ pendingBatches[h].messages \in Seq(Message)
                 /\ Queued(h) = pendingBatches[h].messages
           /\ pendingBatches[h] = undefined => Queued(h) = <<>>
<1>1. ASSUME pendingBatches[h] # undefined
      PROVE  /\ pendingBatches[h] \in PendingBatch
             /\ pendingBatches[h].messages \in Seq(Message)
  BY <1>1 DEF TypeOK, PendingBatch
<1> QED BY <1>1 DEF Queued
-----------------------------------------------------------------------------
(* Three ways in which what a connection gets may change.                   *)

\* Everything due to g, received or waiting.
Due(g) == received[g] \o Queued(g)

(* Nothing was pushed: nothing is received.                                 *)
LEMMA QuietStep ==
    ASSUME ObserversTyped, UNCHANGED pushVars, Receive
    PROVE  received' = received /\ \A g \in Handles : Queued(g)' = Queued(g)
  BY DEF ObserversTyped, pushVars, Receive, Queued

(* A message is pushed: it joins what is due, to its recipients only.       *)
LEMMA PushStep ==
    ASSUME TypeOK, ObserversTyped, QueuesLive,
           NEW m \in Message, NEW targets, Push(m, targets), Receive,
           NEW g \in Handles,
           g \in Recipients(m, targets) => connections[g] = "open"
    PROVE  /\ received'[g] \in Seq(Message)
           /\ sent'[g] = <<>> => received'[g] = <<>>
           /\ pendingBatches'[g] # undefined =>
                 /\ Batching
                 /\ connections[g] = "open"
                 /\ pendingBatches'[g].messages # <<>>
           /\ Due(g)' = IF g \in Recipients(m, targets)
                        THEN Append(Due(g), m) ELSE Due(g)
           /\ Batching => received'[g] = received[g]
           /\ ~Batching => Len(received'[g]) =
                              IF g \in Recipients(m, targets)
                              THEN Len(Due(g)) + 1 ELSE Len(received[g])
<1>1. /\ received[g] \in Seq(Message) /\ sent[g] \in Seq(Batch)
      /\ sent[g] = <<>> => received[g] = <<>>
      /\ Queued(g) \in Seq(Message)
  BY QueuedType DEF ObserversTyped, TypeOK
<1>2. received'[g] = IF sent'[g] = sent[g] THEN received[g]
                     ELSE IF sent'[g] = <<>> THEN <<>>
                     ELSE received[g] \o sent'[g][Len(sent'[g])].messages
  BY DEF Receive
<1>3. CASE g \notin Recipients(m, targets)
  <2>1. pendingBatches'[g] = pendingBatches[g] /\ sent'[g] = sent[g]
    BY <1>3 DEF Push
  <2> QED BY <1>1, <1>2, <1>3, <2>1 DEF Due, Queued, QueuesLive
<1>4. CASE g \in Recipients(m, targets) /\ Batching
  <2>1. sent'[g] = sent[g] /\ pendingBatches'[g] = Enqueued(g, m)
    BY <1>4 DEF Push
  <2>2. received'[g] = received[g]
    BY <1>2, <2>1
  <2>3. /\ Enqueued(g, m) # undefined
        /\ Enqueued(g, m).messages = Append(Queued(g), m)
    <3>1. CASE pendingBatches[g] = undefined
      <4>1. Enqueued(g, m) = [roomId |-> m.roomId, messages |-> <<m>>,
                              timer |-> TRUE]
        BY <3>1 DEF Enqueued
      <4>2. Enqueued(g, m) \in PendingBatch
        BY <4>1 DEF PendingBatch, Message
      <4>3. Append(Queued(g), m) = <<m>>
        BY <3>1 DEF Queued
      <4>4. Enqueued(g, m).messages = <<m>>
        BY <4>1
      <4>5. Enqueued(g, m) # undefined
        BY <4>2, BrokerAssumption
      <4> QED BY <4>3, <4>4, <4>5
    <3>2. CASE pendingBatches[g] # undefined
      <4>1. /\ pendingBatches[g] \in PendingBatch
            /\ pendingBatches[g].messages \in Seq(Message)
            /\ Queued(g) = pendingBatches[g].messages
        BY <3>2, QueuedType
      <4>2. Append(pendingBatches[g].messages, m) \in Seq(Message)
        BY <4>1
      <4>3. /\ Enqueued(g, m).messages = Append(pendingBatches[g].messages, m)
            /\ Enqueued(g, m) \in PendingBatch
        BY <3>2, <4>1, <4>2 DEF Enqueued, PendingBatch
      <4> QED BY <4>1, <4>3, BrokerAssumption
    <3> QED BY <3>1, <3>2
  <2>4. Queued(g)' = Append(Queued(g), m)
    BY <2>1, <2>3 DEF Queued
  <2>5. Append(Queued(g), m) # <<>>
    BY <1>1, AppendFacts
  <2>6. Due(g)' = Append(Due(g), m)
    <3>1. received[g] \in Seq(Message) /\ Queued(g) \in Seq(Message)
      BY <1>1
    <3>2. received[g] \o Append(Queued(g), m) = Append(received[g] \o Queued(g), m)
      BY <3>1, AppendToConcat
    <3> QED BY <3>2, <2>2, <2>4 DEF Due
  <2> QED BY <1>1, <1>4, <2>1, <2>2, <2>3, <2>5, <2>6
<1>5. CASE g \in Recipients(m, targets) /\ ~Batching
  <2> DEFINE batch == [roomId |-> m.roomId, messages |-> <<m>>]
  <2>1. /\ sent'[g] = Append(sent[g], batch)
        /\ pendingBatches' = pendingBatches
    BY <1>5 DEF Push
  <2>2. batch \in Batch /\ batch.messages = <<m>>
    BY DEF Batch, Message
  <2> HIDE DEF batch
  <2>3. /\ sent'[g] # sent[g] /\ sent'[g] # <<>>
        /\ sent'[g][Len(sent'[g])] = batch
    <3>1. sent[g] \in Seq(Batch) /\ batch \in Batch
      BY <1>1, <2>2
    <3>2. /\ Append(sent[g], batch) # sent[g] /\ Append(sent[g], batch) # <<>>
          /\ Append(sent[g], batch)[Len(Append(sent[g], batch))] = batch
      BY <3>1, AppendFacts
    <3> QED BY <3>2, <2>1
  <2>4. received'[g] = received[g] \o <<m>>
    BY <1>2, <2>2, <2>3
  <2>5. pendingBatches[g] = undefined
    BY <1>5 DEF QueuesLive
  <2>6. Queued(g) = <<>> /\ Queued(g)' = <<>>
    BY <2>1, <2>5 DEF Queued
  <2>7. /\ Due(g) = received[g] /\ Due(g)' = received[g] \o <<m>>
        /\ received[g] \o <<m>> = Append(received[g], m)
    BY <1>1, <2>4, <2>6 DEF Due
  <2> QED BY <1>1, <1>5, <2>1, <2>3, <2>4, <2>5, <2>7
<1> QED BY <1>3, <1>4, <1>5

(* A batch is flushed: it moves from waiting to received.                   *)
LEMMA FlushStep ==
    ASSUME TypeOK, ObserversTyped, QueuesLive, NEW h \in Handles,
           FlushBatch(h), Receive, NEW g \in Handles
    PROVE  /\ received'[g] \in Seq(Message)
           /\ sent'[g] = <<>> => received'[g] = <<>>
           /\ pendingBatches'[g] # undefined => pendingBatches'[g] = pendingBatches[g]
           /\ Due(g)' = Due(g)
           /\ IF g = h THEN /\ Len(received'[g]) \in (Len(received[g]) + 1)..Len(Due(g))
                       ELSE received'[g] = received[g]
<1>1. /\ received[g] \in Seq(Message) /\ sent[g] \in Seq(Batch)
      /\ sent[g] = <<>> => received[g] = <<>>
      /\ Queued(g) \in Seq(Message)
  BY QueuedType DEF ObserversTyped, TypeOK
<1>2. received'[g] = IF sent'[g] = sent[g] THEN received[g]
                     ELSE IF sent'[g] = <<>> THEN <<>>
                     ELSE received[g] \o sent'[g][Len(sent'[g])].messages
  BY DEF Receive
<1>3. CASE g # h
  <2>1. pendingBatches'[g] = pendingBatches[g] /\ sent'[g] = sent[g]
    BY <1>3 DEF FlushBatch, TypeOK
  <2> QED BY <1>1, <1>2, <1>3, <2>1 DEF Due, Queued
<1>4. CASE g = h
  <2> DEFINE batch == [roomId |-> pendingBatches[g].roomId,
                       messages |-> pendingBatches[g].messages]
  <2>1. /\ pendingBatches[g] \in PendingBatch
        /\ pendingBatches[g].messages \in Seq(Message)
        /\ Queued(g) = pendingBatches[g].messages
    BY <1>4, QueuedType DEF FlushBatch
  <2>2. connections[g] = "open" /\ Queued(g) # <<>>
    BY <1>4, <2>1 DEF FlushBatch, QueuesLive
  <2>3. sent'[g] = Append(sent[g], batch) /\ pendingBatches'[g] = undefined
    BY <1>4, <2>2 DEF FlushBatch, TypeOK
  <2>4. batch \in Batch /\ batch.messages = Queued(g)
    BY <2>1 DEF Batch, PendingBatch
  <2> HIDE DEF batch
  <2>5. /\ sent'[g] # sent[g] /\ sent'[g] # <<>>
        /\ sent'[g][Len(sent'[g])] = batch
    <3>1. sent[g] \in Seq(Batch) /\ batch \in Batch
      BY <1>1, <2>4
    <3>2. /\ Append(sent[g], batch) # sent[g] /\ Append(sent[g], batch) # <<>>
          /\ Append(sent[g], batch)[Len(Append(sent[g], batch))] = batch
      BY <3>1, AppendFacts
    <3> QED BY <3>2, <2>3
  <2>6. received'[g] = Due(g) /\ Queued(g)' = <<>>
    BY <1>2, <2>3, <2>4, <2>5 DEF Due, Queued
  <2>7. Due(g) \in Seq(Message) /\ Len(Due(g)) = Len(received[g]) + Len(Queued(g))
        /\ Len(Queued(g)) \in Nat \ {0} /\ Len(received[g]) \in Nat
    BY <1>1, <2>2 DEF Due
  <2>8. Due(g)' = Due(g)
    BY <2>6, <2>7 DEF Due
  <2> QED BY <1>4, <2>3, <2>5, <2>6, <2>7, <2>8
<1> QED BY <1>3, <1>4

(* A connection closes: nothing is due to it any more.                      *)
LEMMA CloseStep ==
    ASSUME TypeOK, ObserversTyped, NEW h \in Handles, Disconnect(h), Receive,
           NEW g \in Handles
    PROVE  IF g = h
           THEN received'[g] = <<>> /\ Queued(g)' = <<>> /\ sent'[g] = <<>>
                /\ pendingBatches'[g] = undefined
           ELSE received'[g] = received[g] /\ Queued(g)' = Queued(g)
                /\ sent'[g] = sent[g] /\ pendingBatches'[g] = pendingBatches[g]
                /\ connections'[g] = connections[g]
<1>1. /\ connections' = [connections EXCEPT ![h] = "closed"]
      /\ pendingBatches' = [pendingBatches EXCEPT ![h] = undefined]
      /\ sent' = [sent EXCEPT ![h] = <<>>]
  BY DEF Disconnect
<1>2. sent[g] = <<>> => received[g] = <<>>
  BY DEF ObserversTyped
<1> QED BY <1>1, <1>2 DEF TypeOK, Receive, Queued
-----------------------------------------------------------------------------
LEMMA InvInit == DeliveryInit => ObserversTyped /\ QueuesLive /\ Accounted
<1> SUFFICES ASSUME DeliveryInit
             PROVE  ObserversTyped /\ QueuesLive /\ Accounted
  OBVIOUS
<1>1. \A h \in Handles : /\ owed[h] = <<>> /\ received[h] = <<>>
                         /\ pendingBatches[h] = undefined
  BY DEF DeliveryInit, Init
<1>2. \A h \in Handles : Queued(h) = <<>>
  BY <1>1 DEF Queued
<1> QED BY <1>1, <1>2 DEF DeliveryInit, ObserversTyped, QueuesLive, Accounted

\* The parts of the invariant that this module adds, about one connection.
LEMMA InvByConnection ==
    ASSUME owed' = [h \in Handles |-> owed'[h]],
           received' = [h \in Handles |-> received'[h]],
           \A h \in Handles :
              /\ owed'[h] \in Seq(Message) /\ received'[h] \in Seq(Message)
              /\ sent'[h] = <<>> => received'[h] = <<>>
              /\ pendingBatches'[h] # undefined =>
                    /\ Batching
                    /\ connections'[h] = "open"
                    /\ pendingBatches'[h].messages # <<>>
              /\ owed'[h] = Due(h)'
    PROVE  ObserversTyped' /\ QueuesLive' /\ Accounted'
  BY DEF ObserversTyped, QueuesLive, Accounted, Due

(* A message spoken is the broker's Push of a message to those it is for.   *)
LEMMA SpeakPushes ==
    ASSUME TypeOK, SeatsAgree, HistoryNumbered, NEW h \in Handles,
           NEW mentions \in MentionSets, SpeakAndOwe(h, mentions)
    PROVE  LET r == membership[h].roomId
               m == [id |-> Len(history[r]) + 1, roomId |-> r,
                     from |-> membership[h].name]
           IN  /\ Joined(h) /\ r \in RoomIds /\ m \in Message
               /\ Len(history[r]) < HardCap
               /\ history' = [history EXCEPT ![r] = Append(history[r], m)]
               /\ UNCHANGED connectionVars
               /\ Push(m, ResolveTargets(r, membership[h].name, mentions))
               /\ owed' = [g \in Handles |-> IF IsFor(h, mentions, g)
                                             THEN Append(owed[g], m) ELSE owed[g]]
               /\ Receive
<1> DEFINE r == membership[h].roomId
           n == membership[h].name
           m == [id |-> Len(history[r]) + 1, roomId |-> r, from |-> n]
<1>1. Joined(h) /\ r \in RoomIds /\ n \in Names
  BY JoinedFacts DEF SpeakAndOwe, Speak, SpeakAdmitted
<1>2. nextId[r] = Len(history[r]) + 1
  BY <1>1 DEF HistoryNumbered
<1>3. /\ Len(history[r]) < HardCap
      /\ history' = [history EXCEPT ![r] = Append(history[r], m)]
      /\ UNCHANGED connectionVars
      /\ Push(m, ResolveTargets(r, n, mentions))
  BY <1>2 DEF SpeakAndOwe, Speak
<1>4. m \in Message
  BY <1>1, <1>2 DEF Message, TypeOK
<1>5. history'[r][Len(history'[r])] = m
  <2>1. history'[r] = Append(history[r], m) /\ history[r] \in Seq(Message)
    BY <1>1, <1>3 DEF TypeOK
  <2> HIDE DEF m
  <2>2. Append(history[r], m)[Len(Append(history[r], m))] = m
    BY <2>1, <1>4, AppendFacts
  <2> QED BY <2>1, <2>2
<1>6. /\ owed' = [g \in Handles |-> IF IsFor(h, mentions, g)
                                    THEN Append(owed[g], m) ELSE owed[g]]
      /\ Receive
  <2> HIDE DEF m
  <2>1. /\ owed' = [g \in Handles |->
              IF IsFor(h, mentions, g)
              THEN Append(owed[g], history'[r][Len(history'[r])])
              ELSE owed[g]]
        /\ Receive
    BY DEF SpeakAndOwe
  <2> QED BY <2>1, <1>5
<1> QED BY <1>1, <1>3, <1>4, <1>6

LEMMA InvStep ==
    Inv /\ [DeliveryNext]_deliveryVars
      => ObserversTyped' /\ QueuesLive' /\ Accounted'
<1> SUFFICES ASSUME Inv, [DeliveryNext]_deliveryVars
             PROVE  ObserversTyped' /\ QueuesLive' /\ Accounted'
  OBVIOUS
<1> USE DEF Inv
<1>0. ASSUME NEW g \in Handles
      PROVE  /\ owed[g] \in Seq(Message) /\ received[g] \in Seq(Message)
             /\ sent[g] = <<>> => received[g] = <<>>
             /\ pendingBatches[g] # undefined =>
                   /\ Batching
                   /\ connections[g] = "open"
                   /\ pendingBatches[g].messages # <<>>
             /\ owed[g] = Due(g)
  BY DEF ObserversTyped, QueuesLive, Accounted, Due
<1>1. ASSUME NEW h \in Handles, NEW mentions \in MentionSets,
             SpeakAndOwe(h, mentions)
      PROVE  ObserversTyped' /\ QueuesLive' /\ Accounted'
  <2> DEFINE r == membership[h].roomId
             n == membership[h].name
             m == [id |-> Len(history[r]) + 1, roomId |-> r, from |-> n]
             targets == ResolveTargets(r, n, mentions)
  <2>1. /\ Joined(h) /\ m \in Message /\ m.roomId = r
        /\ UNCHANGED connectionVars /\ Push(m, targets) /\ Receive
        /\ owed' = [g \in Handles |-> IF IsFor(h, mentions, g)
                                      THEN Append(owed[g], m) ELSE owed[g]]
    BY <1>1, SpeakPushes
  <2> HIDE DEF m
  <2>2. ASSUME NEW g \in Handles
        PROVE  /\ owed'[g] \in Seq(Message) /\ received'[g] \in Seq(Message)
               /\ sent'[g] = <<>> => received'[g] = <<>>
               /\ pendingBatches'[g] # undefined =>
                     /\ Batching
                     /\ connections'[g] = "open"
                     /\ pendingBatches'[g].messages # <<>>
               /\ owed'[g] = Due(g)'
    <3>1. /\ g \in Recipients(m, targets) <=> IsFor(h, mentions, g)
          /\ IsFor(h, mentions, g) => connections[g] = "open"
      BY <2>1, RightRecipients
    <3>2. /\ received'[g] \in Seq(Message)
          /\ sent'[g] = <<>> => received'[g] = <<>>
          /\ pendingBatches'[g] # undefined =>
                /\ Batching
                /\ connections[g] = "open"
                /\ pendingBatches'[g].messages # <<>>
          /\ Due(g)' = IF g \in Recipients(m, targets)
                       THEN Append(Due(g), m) ELSE Due(g)
      BY <2>1, <3>1, PushStep
    <3>3. owed'[g] = IF IsFor(h, mentions, g) THEN Append(owed[g], m) ELSE owed[g]
      BY <2>1
    <3>4. Append(owed[g], m) \in Seq(Message)
      BY <1>0, <2>1
    <3> QED BY <1>0, <2>1, <3>1, <3>2, <3>3, <3>4 DEF connectionVars
  <2>3. /\ owed' = [g \in Handles |-> owed'[g]]
        /\ received' = [g \in Handles |-> received'[g]]
    BY <2>1 DEF Receive
  <2> QED BY <2>2, <2>3, InvByConnection
<1>2. ASSUME NEW h \in Handles, Flush(h)
      PROVE  ObserversTyped' /\ QueuesLive' /\ Accounted'
  <2>1. FlushBatch(h) /\ Receive /\ owed' = owed /\ UNCHANGED connections
    BY <1>2 DEF Flush, Unowed, FlushBatch, connectionVars
  <2>2. ASSUME NEW g \in Handles
        PROVE  /\ received'[g] \in Seq(Message)
               /\ sent'[g] = <<>> => received'[g] = <<>>
               /\ pendingBatches'[g] # undefined =>
                     pendingBatches'[g] = pendingBatches[g]
               /\ Due(g)' = Due(g)
    BY <2>1, FlushStep
  <2>3. /\ owed' = [g \in Handles |-> owed'[g]]
        /\ received' = [g \in Handles |-> received'[g]]
    BY <2>1 DEF Receive, ObserversTyped
  <2> QED BY <1>0, <2>1, <2>2, <2>3, InvByConnection
<1>3. ASSUME NEW h \in Handles, DisconnectAndForget(h)
      PROVE  ObserversTyped' /\ QueuesLive' /\ Accounted'
  <2>1. Disconnect(h) /\ Receive /\ owed' = [owed EXCEPT ![h] = <<>>]
    BY <1>3 DEF DisconnectAndForget
  <2>2. ASSUME NEW g \in Handles
        PROVE  /\ owed'[g] \in Seq(Message) /\ received'[g] \in Seq(Message)
               /\ sent'[g] = <<>> => received'[g] = <<>>
               /\ pendingBatches'[g] # undefined =>
                     /\ Batching
                     /\ connections'[g] = "open"
                     /\ pendingBatches'[g].messages # <<>>
               /\ owed'[g] = Due(g)'
    <3>1. owed'[g] = IF g = h THEN <<>> ELSE owed[g]
      BY <2>1 DEF ObserversTyped
    <3>2. CASE g = h
      <4>1. /\ received'[g] = <<>> /\ Queued(g)' = <<>> /\ sent'[g] = <<>>
            /\ pendingBatches'[g] = undefined
        BY <2>1, <3>2, CloseStep
      <4> QED BY <3>1, <3>2, <4>1 DEF Due
    <3>3. CASE g # h
      <4>1. /\ received'[g] = received[g] /\ Queued(g)' = Queued(g)
            /\ sent'[g] = sent[g] /\ pendingBatches'[g] = pendingBatches[g]
            /\ connections'[g] = connections[g]
        BY <2>1, <3>3, CloseStep
      <4> QED BY <1>0, <3>1, <3>3, <4>1 DEF Due
    <3> QED BY <3>2, <3>3
  <2>3. /\ owed' = [g \in Handles |-> owed'[g]]
        /\ received' = [g \in Handles |-> received'[g]]
    BY <2>1 DEF Receive, ObserversTyped
  <2> QED BY <2>2, <2>3, InvByConnection
<1>4. ASSUME UNCHANGED <<pushVars, owed, received>>,
             \A g \in Handles : connections[g] = "open" => connections'[g] = "open"
      PROVE  ObserversTyped' /\ QueuesLive' /\ Accounted'
  BY <1>4 DEF pushVars, ObserversTyped, QueuesLive, Accounted, Queued
<1>5. ASSUME NEW h \in Handles, Unowed,
             \/ Connect(h) \/ Leave(h)
             \/ \E r \in RoomIds, n \in Names : Join(h, r, n)
             \/ \E r \in RoomIds, n \in Names \cup BadNames, fits \in BOOLEAN :
                   JoinRefused(h, r, n, fits)
             \/ SpeakRoomFull(h) \/ SpeakRateLimited(h)
             \/ ReadHistory(h) \/ ListMembers(h)
      PROVE  ObserversTyped' /\ QueuesLive' /\ Accounted'
  <2>1. /\ UNCHANGED pushVars
        /\ \A g \in Handles : connections[g] = "open" => connections'[g] = "open"
    BY <1>5 DEF Connect, Leave, Join, JoinRefused, SpeakRoomFull,
                SpeakRateLimited, ReadHistory, ListMembers, connectionVars,
                pushVars, TypeOK
  <2>2. UNCHANGED <<owed, received>>
    BY <1>5, <2>1, QuietStep DEF Unowed
  <2> QED BY <1>4, <2>1, <2>2
<1>6. ASSUME (Gc \/ Tick) /\ Unowed
      PROVE  ObserversTyped' /\ QueuesLive' /\ Accounted'
  <2>1. UNCHANGED pushVars /\ UNCHANGED connections
    BY <1>6 DEF Gc, Tick, connectionVars, pushVars
  <2>2. UNCHANGED <<owed, received>>
    BY <1>6, <2>1, QuietStep DEF Unowed
  <2> QED BY <1>4, <2>1, <2>2
<1>7. CASE UNCHANGED deliveryVars
  BY <1>4, <1>7 DEF deliveryVars, vars, pushVars, connectionVars
<1> QED BY <1>1, <1>2, <1>3, <1>5, <1>6, <1>7 DEF DeliveryNext
-----------------------------------------------------------------------------
(* The steps of the abstract chat.                                          *)

LEMMA ChatInit == DeliveryInit => Chat!Init
<1> SUFFICES ASSUME DeliveryInit PROVE Chat!Init
  OBVIOUS
<1>1. /\ membership = [h \in Handles |-> undefined]
      /\ history = [r \in RoomIds |-> <<>>]
      /\ {h \in Handles : connections[h] = "closed"} = {}
      /\ \A h \in Handles : received[h] = <<>> /\ Queued(h) = <<>>
  BY DEF DeliveryInit, Init, Queued
<1>2. \A h \in Handles : received[h] \o Queued(h) = <<>> /\ Len(received[h]) = 0
  BY <1>1
<1> QED BY <1>1, <1>2 DEF Chat!Init

\* The variables of the chat, as Delivery has them.
Gone == {h \in Handles : connections[h] = "closed"}
AllDue == [h \in Handles |-> Due(h)]
Handed == [h \in Handles |-> Len(received[h])]

LEMMA ChatVars ==
    ASSUME membership' = membership, history' = history, Gone' = Gone,
           \A h \in Handles : Due(h)' = Due(h) /\ received'[h] = received[h]
    PROVE  UNCHANGED Chat!vars
<1>1. AllDue' = AllDue /\ Handed' = Handed
  BY DEF AllDue, Handed
<1> QED BY <1>1 DEF Chat!vars, Gone, AllDue, Handed, Due

LEMMA ChatSay ==
    ASSUME Inv, NEW h \in Handles, NEW mentions \in MentionSets,
           SpeakAndOwe(h, mentions)
    PROVE  Chat!Say(h, mentions)
<1> USE DEF Inv
<1> DEFINE r == membership[h].roomId
           n == membership[h].name
           m == [id |-> Len(history[r]) + 1, roomId |-> r, from |-> n]
           targets == ResolveTargets(r, n, mentions)
<1>1. /\ Joined(h) /\ r \in RoomIds /\ m \in Message /\ m.roomId = r
      /\ Len(history[r]) < HardCap
      /\ history' = [history EXCEPT ![r] = Append(history[r], m)]
      /\ UNCHANGED connectionVars /\ Push(m, targets) /\ Receive
  BY SpeakPushes
<1>2. ASSUME NEW g \in Handles
      PROVE  g \in Chat!Audience(h, mentions) <=> IsFor(h, mentions, g)
  BY DEF Chat!Audience, Chat!Sitting, IsFor
<1>3. ASSUME NEW g \in Handles
      PROVE  /\ Due(g)' = IF g \in Chat!Audience(h, mentions)
                          THEN Append(Due(g), m) ELSE Due(g)
             /\ Batching => received'[g] = received[g]
             /\ ~Batching => Len(received'[g]) =
                                IF g \in Chat!Audience(h, mentions)
                                THEN Len(Due(g)) + 1 ELSE Len(received[g])
  <2> HIDE DEF m
  <2>1. /\ g \in Recipients(m, targets) <=> IsFor(h, mentions, g)
        /\ IsFor(h, mentions, g) => connections[g] = "open"
    BY <1>1, RightRecipients
  <2>2. /\ Due(g)' = IF g \in Recipients(m, targets)
                     THEN Append(Due(g), m) ELSE Due(g)
        /\ Batching => received'[g] = received[g]
        /\ ~Batching => Len(received'[g]) =
                           IF g \in Recipients(m, targets)
                           THEN Len(Due(g)) + 1 ELSE Len(received[g])
    BY <1>1, <2>1, PushStep
  <2> QED BY <1>2, <2>1, <2>2
<1>4. h \in Chat!Sitting
  BY <1>1 DEF Joined, Chat!Sitting
<1>5. AllDue' = [g \in Handles |-> IF g \in Chat!Audience(h, mentions)
                                   THEN Append(AllDue[g], m) ELSE AllDue[g]]
  BY <1>3 DEF AllDue
<1>6. \/ Handed' = Handed
      \/ Handed' = [g \in Handles |-> IF g \in Chat!Audience(h, mentions)
                                      THEN Len(AllDue[g]) + 1 ELSE Handed[g]]
  <2>1. CASE Batching
    BY <1>3, <2>1 DEF Handed
  <2>2. CASE ~Batching
    BY <1>3, <2>2 DEF Handed, AllDue
  <2> QED BY <2>1, <2>2
<1>7. UNCHANGED <<membership, Gone>>
  BY <1>1 DEF connectionVars, Gone
<1> HIDE DEF m
<1>8. /\ h \in Chat!Sitting /\ Len(history[r]) < HardCap
      /\ history' = [history EXCEPT ![r] = Append(history[r], m)]
  BY <1>1, <1>4
<1> USE DEF m
<1> QED BY <1>5, <1>6, <1>7, <1>8 DEF Chat!Say, Gone, AllDue, Handed, Due

LEMMA ChatHandOver ==
    ASSUME Inv, NEW h \in Handles, Flush(h)
    PROVE  Chat!HandOver(h)
<1> USE DEF Inv
<1>1. FlushBatch(h) /\ Receive
      /\ UNCHANGED <<membership, history, Gone>>
  BY DEF Flush, Unowed, FlushBatch, connectionVars, roomVars, Gone
<1>2. ASSUME NEW g \in Handles
      PROVE  /\ Due(g)' = Due(g)
             /\ IF g = h
                THEN Len(received'[g]) \in (Len(received[g]) + 1)..Len(Due(g))
                ELSE received'[g] = received[g]
  BY <1>1, FlushStep
<1>3. AllDue' = AllDue
  BY <1>2 DEF AllDue
<1>4. \E k \in (Handed[h] + 1)..Len(AllDue[h]) :
         Handed' = [Handed EXCEPT ![h] = k]
  <2>1. Len(received'[h]) \in (Handed[h] + 1)..Len(AllDue[h])
    BY <1>2 DEF Handed, AllDue
  <2>2. Handed' = [Handed EXCEPT ![h] = Len(received'[h])]
    BY <1>2 DEF Handed
  <2> QED BY <2>1, <2>2
<1> QED BY <1>1, <1>3, <1>4 DEF Chat!HandOver, Gone, AllDue, Handed, Due

LEMMA ChatVanish ==
    ASSUME Inv, NEW h \in Handles, DisconnectAndForget(h)
    PROVE  Chat!Vanish(h)
<1> USE DEF Inv
<1>1. Disconnect(h) /\ Receive
  BY DEF DisconnectAndForget
<1>2. /\ membership' = [membership EXCEPT ![h] = undefined]
      /\ history' = history
  BY <1>1 DEF Disconnect, ReleaseSeat, Unseat, roomVars, TypeOK
<1>3. h \notin Gone /\ Gone' = Gone \cup {h}
  BY <1>1 DEF Disconnect, Gone, TypeOK
<1>4. ASSUME NEW g \in Handles
      PROVE  IF g = h THEN received'[g] = <<>> /\ Queued(g)' = <<>>
                      ELSE received'[g] = received[g] /\ Queued(g)' = Queued(g)
  BY <1>1, CloseStep
<1>5. <<>> \o <<>> = <<>> /\ Len(<<>>) = 0
  OBVIOUS
<1>6. AllDue' = [AllDue EXCEPT ![h] = <<>>] /\ Handed' = [Handed EXCEPT ![h] = 0]
  BY <1>4, <1>5 DEF AllDue, Handed, Due
<1> QED BY <1>2, <1>3, <1>6 DEF Chat!Vanish, Gone, AllDue, Handed, Due

LEMMA ChatStep == Inv /\ [DeliveryNext]_deliveryVars => [Chat!Next]_(Chat!vars)
<1> SUFFICES ASSUME Inv, [DeliveryNext]_deliveryVars
             PROVE  Chat!Next \/ UNCHANGED Chat!vars
  OBVIOUS
<1> USE DEF Inv
<1>1. ASSUME UNCHANGED pushVars, Receive
      PROVE  \A g \in Handles : Due(g)' = Due(g) /\ received'[g] = received[g]
  BY <1>1, QuietStep DEF Due
<1>2. ASSUME UNCHANGED pushVars, Receive
      PROVE  AllDue' = AllDue /\ Handed' = Handed
  BY <1>1, <1>2 DEF AllDue, Handed
<1>3. ASSUME NEW h \in Handles, NEW r \in RoomIds, NEW n \in Names,
             Join(h, r, n), Unowed
      PROVE  Chat!TakeSeat(h, r, n)
  <2>1. /\ connections[h] = "open" /\ membership[h] = undefined
        /\ n \notin members[r]
        /\ membership' = [membership EXCEPT ![h] = Seat(r, n)]
        /\ UNCHANGED <<connections, history, pushVars>> /\ Receive
    BY <1>3 DEF Join, JoinReaches, RoomRefuses, Unowed, pushVars
  <2>2. h \notin Gone \cup Chat!Sitting /\ Gone' = Gone
    BY <2>1 DEF Gone, Chat!Sitting
  <2>3. ASSUME NEW d \in Chat!Sitting
        PROVE  membership[d].roomId # r \/ membership[d].name # n
    <3>1. d \in Handles /\ membership[d] # undefined /\ membership[d] \in Seats
      BY DEF Chat!Sitting, TypeOK
    <3>2. memberToHandle[membership[d]] = d /\ d # undefined
      BY <3>1, BrokerAssumption DEF SeatsAgree
    <3>3. membership[d].name \in members[membership[d].roomId]
      BY <3>1, <3>2 DEF SeatsAgree
    <3> QED BY <2>1, <3>3
  <2> QED BY <1>2, <2>1, <2>2, <2>3
          DEF Chat!TakeSeat, Gone, AllDue, Handed, Due, Seat
<1>4. ASSUME NEW h \in Handles, Leave(h), Unowed
      PROVE  Chat!GiveUpSeat(h)
  <2>1. /\ h \in Chat!Sitting
        /\ membership' = [membership EXCEPT ![h] = undefined]
        /\ UNCHANGED <<history, Gone, pushVars>> /\ Receive
    BY <1>4 DEF Leave, Unseat, Unowed, Chat!Sitting, Gone, pushVars
  <2> QED BY <1>2, <2>1 DEF Chat!GiveUpSeat, Gone, AllDue, Handed, Due
<1>5. ASSUME Gc, Unowed
      PROVE  Chat!Forget(ExpiredRooms)
  <2>1. /\ history' = [r \in RoomIds |-> IF r \in ExpiredRooms
                                         THEN <<>> ELSE history[r]]
        /\ UNCHANGED <<membership, Gone, pushVars>> /\ Receive
    BY <1>5 DEF Gc, Evicted, Unowed, connectionVars, Gone, pushVars
  <2>2. ASSUME NEW d \in Chat!Sitting
        PROVE  membership[d].roomId \notin ExpiredRooms
    <3>1. /\ d \in Handles /\ membership[d] # undefined
          /\ membership[d] \in Seats /\ membership[d].roomId \in RoomIds
      BY SeatType DEF Chat!Sitting, TypeOK
    <3>2. memberToHandle[membership[d]] = d /\ d # undefined
      BY <3>1, BrokerAssumption DEF SeatsAgree
    <3>3. lastEmptyAt[membership[d].roomId] = undefined
      BY <3>1, <3>2 DEF SeatsAgree
    <3> QED BY <3>3 DEF ExpiredRooms
  <2> QED BY <1>2, <2>1, <2>2 DEF Chat!Forget, Gone, AllDue, Handed, Due
<1>6. ASSUME UNCHANGED <<membership, history, Gone, pushVars>>, Receive
      PROVE  UNCHANGED Chat!vars
  BY <1>1, <1>6, ChatVars
<1>7. ASSUME NEW h \in Handles, Unowed,
             \/ Connect(h)
             \/ \E r \in RoomIds, n \in Names \cup BadNames, fits \in BOOLEAN :
                   JoinRefused(h, r, n, fits)
             \/ SpeakRoomFull(h) \/ SpeakRateLimited(h)
             \/ ReadHistory(h) \/ ListMembers(h)
      PROVE  UNCHANGED Chat!vars
  <2>1. UNCHANGED <<membership, history, pushVars>> /\ Receive
    BY <1>7 DEF Connect, JoinRefused, SpeakRoomFull, SpeakRateLimited,
                ReadHistory, ListMembers, connectionVars, roomVars, Unowed
  <2>2. Gone' = Gone
    BY <1>7 DEF Connect, JoinRefused, SpeakRoomFull, SpeakRateLimited,
                ReadHistory, ListMembers, connectionVars, Gone, TypeOK
  <2> QED BY <1>6, <2>1, <2>2
<1>8. ASSUME Tick, Unowed
      PROVE  UNCHANGED Chat!vars
  BY <1>6, <1>8 DEF Tick, Unowed, connectionVars, roomVars, pushVars, Gone
<1>9. CASE UNCHANGED deliveryVars
  <2>1. /\ UNCHANGED <<membership, history, Gone>>
        /\ \A g \in Handles : Due(g)' = Due(g) /\ received'[g] = received[g]
    BY <1>9 DEF deliveryVars, vars, connectionVars, roomVars, pushVars, Gone,
                Due, Queued
  <2> QED BY <2>1, ChatVars
<1>10. ExpiredRooms \in SUBSET RoomIds
  BY DEF ExpiredRooms, TypeOK
<1> QED BY <1>3, <1>4, <1>5, <1>7, <1>8, <1>9, <1>10, ChatSay, ChatHandOver,
           ChatVanish
        DEF DeliveryNext, Chat!Next
-----------------------------------------------------------------------------
LEMMA InvHolds == DeliverySpec => []Inv
<1>1. DeliverySpec => [](TypeOK /\ SeatsAgree /\ HistoryNumbered)
  BY BrokerObserved, BrokerTypeCorrect, SeatsAlwaysAgree, HistoryAlwaysNumbered, PTL
<1>2. DeliveryInit => ObserversTyped /\ QueuesLive /\ Accounted
  BY InvInit
<1>3. (TypeOK /\ SeatsAgree /\ HistoryNumbered)
      /\ (ObserversTyped /\ QueuesLive /\ Accounted)
      /\ [DeliveryNext]_deliveryVars
        => (ObserversTyped /\ QueuesLive /\ Accounted)'
  BY InvStep DEF Inv
<1> QED BY <1>1, <1>2, <1>3, PTL DEF DeliverySpec, Inv

(* Every open connection gets what it is owed, in order, nothing twice,     *)
(* with batching or without (broker.ts:193-231).                            *)
THEOREM EverythingDelivered == DeliverySpec => []OwedDelivered
<1>1. Inv => OwedDelivered
  BY DEF Inv, Accounted, OwedDelivered
<1> QED BY <1>1, InvHolds, PTL

(* The broker, seen by its sessions, is the abstract chat.                  *)
THEOREM BrokerIsChat == DeliverySpec => ImplementsChat
<1>1. DeliverySpec => []Inv
  BY InvHolds
<1>2. DeliveryInit => Chat!Init
  BY ChatInit
<1>3. Inv /\ [DeliveryNext]_deliveryVars => [Chat!Next]_(Chat!vars)
  BY ChatStep
<1> QED BY <1>1, <1>2, <1>3, PTL DEF DeliverySpec, ImplementsChat, Chat!Spec
=============================================================================
