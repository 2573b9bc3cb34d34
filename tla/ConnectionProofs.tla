-------------------------- MODULE ConnectionProofs --------------------------
(* What a session may count on, through its socket and the broker, for any  *)
(* number of sessions, any calls they make and any moment at which sockets  *)
(* close.                                                                   *)
EXTENDS EndToEnd, BrokerProofs, SequenceTheorems

Outcomes == {"ok", "rate_limited", "error"}
Upward == [id : Nat \ {0}, request : Requests]
Response == [kind : {"response"}, id : Nat \ {0}, outcome : Outcomes]
Notification == [kind : {"room_batch"}, batch : Batch]
ToldSeats == [roomId : RoomIds, name : Names \cup BadNames]

LinkTypeOK ==
    /\ socket \in [Handles -> {"none", "open", "closed"}]
    /\ uplink \in [Handles -> Seq(Upward)]
    /\ downlink \in [Handles -> Seq(Response \cup Notification)]
    /\ pending = [h \in Handles |-> pending[h]]
    /\ \A h \in Handles :
          pending[h] \in [1..MaxCalls[h] -> Requests \cup {undefined}]
    /\ nextCallId \in [Handles -> Nat \ {0}]
    /\ toldSeat \in [Handles -> ToldSeats \cup {undefined}]
    /\ welcomed \in [Handles -> BOOLEAN]
    /\ events \in [Handles -> Seq(Message)]

\* Both ends of a socket agree on its state as far as they can, and a client
\* without a socket has called nothing.
SocketsAgree ==
    \A h \in Handles :
        /\ connections[h] = "new" <=> socket[h] = "none"
        /\ socket[h] = "open" => connections[h] = "open"
        /\ socket[h] # "open" => downlink[h] = <<>>
        /\ socket[h] = "none" =>
              /\ uplink[h] = <<>> /\ nextCallId[h] = 1 /\ events[h] = <<>>
              /\ toldSeat[h] = undefined

\* The id at place i of the queue from h, and of the queue towards h.
UpId(h, i) == uplink[h][i].id
DownId(h, i) == downlink[h][i].id
IsAnswer(h, i) == downlink[h][i].kind = "response"

\* What is under way for h is what waits: its requests, each as it was made,
\* and before them in the order of their ids the answers to earlier ones.
CallsInOrder(h) ==
    /\ \A id \in 1..MaxCalls[h] : nextCallId[h] <= id => pending[h][id] = undefined
    /\ \A i \in 1..Len(uplink[h]) :
          /\ UpId(h, i) \in 1..MaxCalls[h] /\ UpId(h, i) < nextCallId[h]
          /\ pending[h][UpId(h, i)] = uplink[h][i].request
    /\ \A i, j \in 1..Len(uplink[h]) : i < j => UpId(h, i) < UpId(h, j)
    /\ \A i \in 1..Len(downlink[h]) : IsAnswer(h, i) =>
          /\ DownId(h, i) \in 1..MaxCalls[h] /\ DownId(h, i) < nextCallId[h]
          /\ pending[h][DownId(h, i)] # undefined
    /\ \A i, j \in 1..Len(downlink[h]) :
          IsAnswer(h, i) /\ IsAnswer(h, j) /\ i < j => DownId(h, i) < DownId(h, j)
    /\ \A i \in 1..Len(downlink[h]), j \in 1..Len(uplink[h]) :
          IsAnswer(h, i) => DownId(h, i) < UpId(h, j)

\* Nothing that waits is lost on an open socket.
CallsUnderWay(h) ==
    socket[h] = "open" =>
        \A id \in 1..MaxCalls[h] : pending[h][id] # undefined =>
            \/ \E i \in 1..Len(uplink[h]) : UpId(h, i) = id
            \/ \E i \in 1..Len(downlink[h]) : IsAnswer(h, i) /\ DownId(h, i) = id

CallsInv == \A h \in Handles : CallsInOrder(h) /\ CallsUnderWay(h)

-----------------------------------------------------------------------------
(* The broker behind its sockets is the broker                              *)

LEMMA RequestFacts ==
    ASSUME NEW q \in Requests
    PROVE  /\ q.method \in {"join", "speak", "leave", "list_members",
                            "read_history", "invalid"}
           /\ q.method = "join" => q.name \in Names \cup BadNames
           /\ q.method = "speak" => q.mentions \in MentionSets
  BY DEF Requests

LEMMA RoomOfClient ==
    ASSUME NEW h \in Handles
    PROVE  /\ (CHOOSE r \in MayJoin[h] : TRUE) \in RoomIds
           /\ MayJoin[h] = {CHOOSE r \in MayJoin[h] : TRUE}
  BY CallsAssumption

(* Serving a request is an operation of the broker, or changes nothing.     *)
LEMMA ExecuteIsNext ==
    ASSUME NEW h \in Handles, NEW q \in Requests, NEW outcome,
           Execute(h, q, outcome)
    PROVE  [Next]_vars
<1>1. ASSUME q.method = "join", outcome = "ok",
             \E r \in MayJoin[h] : Join(h, r, q.name)
      PROVE  Next
  <2>1. PICK r \in MayJoin[h] : Join(h, r, q.name)
    BY <1>1
  <2>2. r \in RoomIds
    BY RoomOfClient
  <2>3. q.name \in Names
    BY <1>1, <2>1, RequestFacts DEF Join, RoomRefuses
  <2> QED BY <2>1, <2>2, <2>3 DEF Next
<1>2. ASSUME q.method = "join",
             \E r \in MayJoin[h] : JoinRefused(h, r, q.name, TRUE)
      PROVE  Next
  <2>1. PICK r \in MayJoin[h] : JoinRefused(h, r, q.name, TRUE)
    BY <1>2
  <2>2. r \in RoomIds /\ q.name \in Names \cup BadNames /\ TRUE \in BOOLEAN
    BY <1>2, RoomOfClient, RequestFacts
  <2> QED BY <2>1, <2>2 DEF Next
<1>3. ASSUME q.method = "speak", Speak(h, q.mentions)
      PROVE  Next
  <2>1. q.mentions \in MentionSets
    BY <1>3, RequestFacts
  <2> QED BY <1>3, <2>1 DEF Next
<1>4. ASSUME \/ Leave(h) \/ SpeakRateLimited(h) \/ SpeakRoomFull(h)
             \/ ReadHistory(h) \/ ListMembers(h)
      PROVE  Next
  BY <1>4 DEF Next
<1>5. CASE UNCHANGED vars
  BY <1>5
<1> QED BY <1>1, <1>2, <1>3, <1>4, <1>5 DEF Execute, Unjoined

LEMMA StepOfBroker == LinkTypeOK /\ [LinkNext]_linkVars => [Next]_vars
<1> SUFFICES ASSUME LinkTypeOK, [LinkNext]_linkVars
             PROVE  [Next]_vars
  OBVIOUS
<1>1. ASSUME NEW h \in Handles, Open(h) \/ Wake(h) \/ CloseSeen(h)
      PROVE  Next
  BY <1>1 DEF Open, Wake, CloseSeen, Next
<1>2. ASSUME NEW h \in Handles, Serve(h)
      PROVE  [Next]_vars
  <2>1. Head(uplink[h]).request \in Requests
    <3>1. uplink[h] \in Seq(Upward) /\ uplink[h] # <<>>
      BY <1>2 DEF Serve, LinkTypeOK
    <3>2. Head(uplink[h]) \in Upward
      BY <3>1, HeadTailProperties
    <3> QED BY <3>2 DEF Upward
  <2> QED BY <1>2, <2>1, ExecuteIsNext DEF Serve
<1>3. ASSUME NEW h \in Handles,
             \/ Close(h) \/ Receive(h)
             \/ \E q \in Asks[h] : Call(h, q)
      PROVE  UNCHANGED vars
  BY <1>3 DEF Close, Receive, Call
<1>4. CASE PassTime
  BY <1>4 DEF PassTime, Next
<1>5. CASE UNCHANGED linkVars
  BY <1>5 DEF linkVars
<1> QED BY <1>1, <1>2, <1>3, <1>4, <1>5 DEF LinkNext
-----------------------------------------------------------------------------
(* What a step of the broker's end adds to the queue towards a client       *)

\* The queue towards g as it is after a step, item by item: what was in it
\* before, at most one notification, and at most one answer.
Lengthened(g, answers) ==
    LET before == Len(downlink[g])
        after == Len(downlink'[g])
        notified == Len(sent'[g]) > Len(sent[g])
    IN  /\ after \in Nat /\ before <= after
        /\ \A i \in 1..before : downlink'[g][i] = downlink[g][i]
        /\ notified => /\ before + 1 <= after
                       /\ downlink'[g][before + 1].kind = "room_batch"
        /\ \A i \in (before + 1)..after :
              \/ /\ notified /\ i = before + 1
                 /\ downlink'[g][i].kind = "room_batch"
                 /\ downlink'[g][i].batch = sent'[g][Len(sent'[g])]
              \/ i = after /\ answers = <<downlink'[g][i]>>
        /\ answers # <<>> => /\ before < after
                             /\ answers = <<downlink'[g][after]>>

Answers(h, g, replies) == IF g = h THEN replies ELSE <<>>

LEMMA TransmitShape ==
    ASSUME LinkTypeOK, TypeOK, TypeOK', NEW h \in Handles, NEW replies,
           replies = <<>> \/ (\E e \in Response : replies = <<e>>),
           Transmit(h, replies), NEW g \in Handles
    PROVE  /\ downlink'[g] \in Seq(Response \cup Notification)
           /\ socket[g] # "open" => downlink'[g] = <<>>
           /\ socket[g] = "open" => Lengthened(g, Answers(h, g, replies))
<1> DEFINE Item == Response \cup Notification
           old == downlink[g]
           ns == Notifications(g)
           rs == Answers(h, g, replies)
           last == [kind |-> "room_batch", batch |-> sent'[g][Len(sent'[g])]]
<1>1. old \in Seq(Item) /\ Len(old) \in Nat
  BY DEF LinkTypeOK
<1>2. downlink'[g] = IF socket[g] = "open" THEN Queue(old, ns, rs) ELSE <<>>
  BY DEF Transmit, Answers
<1>3. \/ ns = <<>> /\ ~(Len(sent'[g]) > Len(sent[g]))
      \/ ns = <<last>> /\ Len(sent'[g]) > Len(sent[g])
  BY DEF Notifications
<1>4. Len(sent'[g]) > Len(sent[g]) => last \in Notification
  <2>1. sent[g] \in Seq(Batch) /\ sent'[g] \in Seq(Batch)
    BY DEF TypeOK
  <2>2. ASSUME Len(sent'[g]) > Len(sent[g])
        PROVE  sent'[g][Len(sent'[g])] \in Batch
    <3>1. Len(sent'[g]) \in 1..Len(sent'[g])
      BY <2>1, <2>2, LenProperties
    <3> QED BY <2>1, <3>1, ElementOfSeq
  <2> QED BY <2>2 DEF Notification
<1>5. \/ rs = <<>>
      \/ \E e \in Response : rs = <<e>>
  BY DEF Answers
<1> HIDE DEF rs, ns, last
<1>6. ns \in Seq(Item) /\ rs \in Seq(Item)
      /\ Len(ns) \in {0, 1} /\ Len(rs) \in {0, 1}
  <2>1. ASSUME NEW e \in Item
        PROVE  <<e>> \in Seq(Item) /\ Len(<<e>>) = 1
    OBVIOUS
  <2>2. <<>> \in Seq(Item) /\ Len(<<>>) = 0
    OBVIOUS
  <2>3. Response \subseteq Item /\ Notification \subseteq Item
    OBVIOUS
  <2> HIDE DEF Item
  <2>4. ns \in Seq(Item) /\ Len(ns) \in {0, 1}
    BY <1>3, <1>4, <2>1, <2>2, <2>3
  <2>5. rs \in Seq(Item) /\ Len(rs) \in {0, 1}
    BY <1>5, <2>1, <2>2, <2>3
  <2> QED BY <2>4, <2>5
<1>7. /\ old \o ns \in Seq(Item) /\ Len(old \o ns) = Len(old) + Len(ns)
      /\ \A i \in 1..Len(old) + Len(ns) :
            (old \o ns)[i] = IF i <= Len(old) THEN old[i] ELSE ns[i - Len(old)]
  BY <1>1, <1>6, ConcatProperties
<1>8. /\ Queue(old, ns, rs) \in Seq(Item)
      /\ Len(Queue(old, ns, rs)) = Len(old) + Len(ns) + Len(rs)
      /\ \A i \in 1..Len(old) + Len(ns) + Len(rs) :
            Queue(old, ns, rs)[i] =
              IF i <= Len(old) + Len(ns) THEN (old \o ns)[i]
              ELSE rs[i - (Len(old) + Len(ns))]
  BY <1>6, <1>7, ConcatProperties DEF Queue
<1>9. ASSUME socket[g] = "open"
      PROVE  Lengthened(g, rs)
  <2> DEFINE L == Len(old)
             N == Len(ns)
             R == Len(rs)
  <2>1. /\ downlink'[g] = Queue(old, ns, rs)
        /\ Len(downlink'[g]) = L + N + R
        /\ L \in Nat /\ N \in {0, 1} /\ R \in {0, 1}
    BY <1>1, <1>2, <1>6, <1>8, <1>9
  <2>2. \A i \in 1..L : downlink'[g][i] = downlink[g][i]
    BY <2>1, <1>7, <1>8
  <2>3. ASSUME Len(sent'[g]) > Len(sent[g])
        PROVE  N = 1 /\ downlink'[g][L + 1] = last
    <3>1. ns = <<last>> /\ Len(<<last>>) = 1 /\ <<last>>[1] = last
      BY <1>3, <2>3
    <3> QED BY <2>1, <3>1, <1>7, <1>8
  <2>4. ~(Len(sent'[g]) > Len(sent[g])) => N = 0
    BY <1>3
  <2>5. ASSUME rs # <<>>
        PROVE  R = 1 /\ rs = <<downlink'[g][L + N + 1]>>
    <3>1. PICK e \in Response : rs = <<e>>
      BY <1>5, <2>5
    <3>2. R = 1 /\ rs[1] = e
      BY <3>1
    <3>3. downlink'[g][L + N + 1] = e
      BY <2>1, <3>2, <1>8
    <3> QED BY <3>1, <3>2, <3>3
  <2>6. rs = <<>> => R = 0
    OBVIOUS
  <2> HIDE DEF L, N, R
  <2>7. last.kind = "room_batch" /\ last.batch = sent'[g][Len(sent'[g])]
    BY DEF last
  <2>8. ASSUME NEW i \in (L + 1)..(L + N + R)
        PROVE  \/ /\ Len(sent'[g]) > Len(sent[g]) /\ i = L + 1
                  /\ downlink'[g][i].kind = "room_batch"
                  /\ downlink'[g][i].batch = sent'[g][Len(sent'[g])]
               \/ i = L + N + R /\ rs = <<downlink'[g][i]>>
    <3>1. CASE i <= L + N
      BY <3>1, <2>1, <2>3, <2>4, <2>7
    <3>2. CASE i > L + N
      BY <3>2, <2>1, <2>5, <2>6
    <3> QED BY <3>1, <3>2, <2>1
  <2>9. L = Len(downlink[g])
    BY DEF L
  <2> QED BY <2>1, <2>2, <2>3, <2>4, <2>5, <2>6, <2>7, <2>8, <2>9 DEF Lengthened
<1> QED BY <1>2, <1>8, <1>9 DEF rs
-----------------------------------------------------------------------------
(* What the steps do, in terms of the queues' items                         *)

AnswerTo(up, outcome) ==
    [kind |-> "response", id |-> up.id, outcome |-> outcome]

LEMMA SeqHead ==
    ASSUME NEW S, NEW s \in Seq(S), s # <<>>
    PROVE  /\ Head(s) \in S /\ Head(s) = s[1] /\ Tail(s) \in Seq(S)
           /\ Len(s) \in Nat \ {0} /\ Len(Tail(s)) = Len(s) - 1
           /\ \A i \in 1..Len(s) - 1 : Tail(s)[i] = s[i + 1]
  BY HeadTailProperties, EmptySeq

LEMMA AppendedSame ==
    ASSUME NEW S, NEW s \in Seq(S), NEW a, NEW b, Append(s, a) = Append(s, b)
    PROVE  a = b
<1>1. Append(s, a)[Len(s) + 1] = a /\ Append(s, b)[Len(s) + 1] = b
  OBVIOUS
<1> QED BY <1>1

LEMMA ServeFacts ==
    ASSUME LinkTypeOK, TypeOK, TypeOK', NEW h \in Handles, Serve(h)
    PROVE  /\ uplink[h] \in Seq(Upward) /\ uplink[h] # <<>>
           /\ Head(uplink[h]) \in Upward
           /\ connections[h] = "open"
           /\ uplink' = [uplink EXCEPT ![h] = Tail(uplink[h])]
           /\ UNCHANGED <<socket, pending, nextCallId, toldSeat, welcomed, events>>
           /\ \E outcome \in Outcomes :
                 /\ Execute(h, Head(uplink[h]).request, outcome)
                 /\ AnswerTo(Head(uplink[h]), outcome) \in Response
                 /\ downlink' = [g \in Handles |-> downlink'[g]]
                 /\ \A g \in Handles :
                       /\ downlink'[g] \in Seq(Response \cup Notification)
                       /\ socket[g] # "open" => downlink'[g] = <<>>
                       /\ socket[g] = "open" =>
                             Lengthened(g, Answers(h, g,
                                <<AnswerTo(Head(uplink[h]), outcome)>>))
<1>1. /\ uplink[h] \in Seq(Upward) /\ uplink[h] # <<>>
      /\ connections[h] = "open"
      /\ uplink' = [uplink EXCEPT ![h] = Tail(uplink[h])]
      /\ UNCHANGED <<socket, pending, nextCallId, toldSeat, welcomed, events>>
  BY DEF Serve, LinkTypeOK, clientVars, callVars
<1>2. Head(uplink[h]) \in Upward
  BY <1>1, SeqHead
<1>3. PICK outcome \in Outcomes :
         /\ Execute(h, Head(uplink[h]).request, outcome)
         /\ Transmit(h, Replies(Head(uplink[h]).id, outcome))
  BY DEF Serve, Outcomes
<1> DEFINE e == AnswerTo(Head(uplink[h]), outcome)
<1>4. e \in Response /\ Replies(Head(uplink[h]).id, outcome) = <<e>>
  BY <1>2 DEF AnswerTo, Response, Upward, Replies
<1>5. Transmit(h, <<e>>)
  BY <1>3, <1>4
<1> HIDE DEF e
<1>6. \A g \in Handles :
         /\ downlink'[g] \in Seq(Response \cup Notification)
         /\ socket[g] # "open" => downlink'[g] = <<>>
         /\ socket[g] = "open" => Lengthened(g, Answers(h, g, <<e>>))
  BY <1>4, <1>5, TransmitShape
<1>7. downlink' = [g \in Handles |-> downlink'[g]]
  BY <1>5 DEF Transmit
<1> QED BY <1>1, <1>2, <1>3, <1>4, <1>6, <1>7 DEF e

LEMMA WakeFacts ==
    ASSUME LinkTypeOK, TypeOK, TypeOK', NEW h \in Handles, Wake(h)
    PROVE  /\ UNCHANGED <<socket, uplink, pending, nextCallId, toldSeat,
                          welcomed, events>>
           /\ FlushBatch(h)
           /\ downlink' = [g \in Handles |-> downlink'[g]]
           /\ \A g \in Handles :
                 /\ downlink'[g] \in Seq(Response \cup Notification)
                 /\ socket[g] # "open" => downlink'[g] = <<>>
                 /\ socket[g] = "open" => Lengthened(g, <<>>)
<1>1. /\ UNCHANGED <<socket, uplink, pending, nextCallId, toldSeat,
                     welcomed, events>>
      /\ FlushBatch(h) /\ Transmit(h, <<>>)
  BY DEF Wake, clientVars, callVars
<1>2. downlink' = [g \in Handles |-> downlink'[g]]
  BY <1>1 DEF Transmit
<1>3. \A g \in Handles : Answers(h, g, <<>>) = <<>>
  BY DEF Answers
<1>4. \A g \in Handles :
         /\ downlink'[g] \in Seq(Response \cup Notification)
         /\ socket[g] # "open" => downlink'[g] = <<>>
         /\ socket[g] = "open" => Lengthened(g, Answers(h, g, <<>>))
  BY <1>1, TransmitShape
<1> QED BY <1>1, <1>2, <1>3, <1>4

LEMMA ReceiveFacts ==
    ASSUME LinkTypeOK, NEW h \in Handles, Receive(h)
    PROVE  /\ downlink[h] \in Seq(Response \cup Notification)
           /\ downlink[h] # <<>> /\ Head(downlink[h]) = downlink[h][1]
           /\ Len(downlink[h]) \in Nat \ {0}
           /\ downlink' = [downlink EXCEPT ![h] = Tail(downlink[h])]
           /\ Len(downlink'[h]) = Len(downlink[h]) - 1
           /\ downlink'[h] \in Seq(Response \cup Notification)
           /\ \A i \in 1..Len(downlink[h]) - 1 :
                 downlink'[h][i] = downlink[h][i + 1]
           /\ UNCHANGED <<vars, socket, uplink, nextCallId>>
           /\ \/ /\ downlink[h][1] \in Response
                 /\ Settle(h, downlink[h][1])
                 /\ UNCHANGED events
              \/ /\ downlink[h][1] \in Notification
                 /\ Notify(h, downlink[h][1].batch)
                 /\ UNCHANGED <<pending, toldSeat, welcomed>>
<1> DEFINE Item == Response \cup Notification
<1>1. downlink[h] \in Seq(Item) /\ downlink[h] # <<>>
  BY DEF LinkTypeOK, Receive
<1>2. downlink' = [downlink EXCEPT ![h] = Tail(downlink[h])]
  BY DEF Receive
<1>3. downlink'[h] = Tail(downlink[h])
  BY <1>2 DEF LinkTypeOK
<1>4. downlink[h][1] \in Item /\ Head(downlink[h]) = downlink[h][1]
  BY <1>1, SeqHead
<1>5. /\ downlink[h][1].kind = "response" => downlink[h][1] \in Response
      /\ downlink[h][1].kind = "room_batch" => downlink[h][1] \in Notification
  BY <1>4 DEF Response, Notification
<1>6. UNCHANGED <<vars, socket, uplink, nextCallId>>
  BY DEF Receive, Settle, Notify, callVars
<1>7. \/ /\ downlink[h][1] \in Response
         /\ Settle(h, downlink[h][1])
         /\ UNCHANGED events
      \/ /\ downlink[h][1] \in Notification
         /\ Notify(h, downlink[h][1].batch)
         /\ UNCHANGED <<pending, toldSeat, welcomed>>
  BY <1>4, <1>5 DEF Receive, Notify, callVars
<1> HIDE DEF Item
<1>8. /\ Len(downlink[h]) \in Nat \ {0}
      /\ Len(downlink'[h]) = Len(downlink[h]) - 1
      /\ downlink'[h] \in Seq(Item)
      /\ \A i \in 1..Len(downlink[h]) - 1 :
            downlink'[h][i] = downlink[h][i + 1]
  BY <1>1, <1>3, SeqHead
<1> QED BY <1>1, <1>2, <1>4, <1>6, <1>7, <1>8 DEF Item

LEMMA CallFacts ==
    ASSUME LinkTypeOK, NEW h \in Handles, NEW q \in Asks[h], Call(h, q)
    PROVE  /\ q \in Requests
           /\ nextCallId[h] \in 1..MaxCalls[h]
           /\ socket[h] # "none"
           /\ nextCallId' = [nextCallId EXCEPT ![h] = nextCallId[h] + 1]
           /\ pending' = [pending EXCEPT ![h] =
                             [pending[h] EXCEPT ![nextCallId[h]] = q]]
           /\ LET up == [id |-> nextCallId[h], request |-> q]
              IN  /\ up \in Upward
                  /\ uplink' = IF socket[h] = "open"
                               THEN [uplink EXCEPT ![h] = Append(uplink[h], up)]
                               ELSE uplink
           /\ UNCHANGED <<vars, socket, downlink, toldSeat, welcomed, events>>
<1>1. q \in Requests /\ MaxCalls[h] \in Nat
  BY CallsAssumption
<1>2. nextCallId[h] \in 1..MaxCalls[h]
  BY <1>1 DEF Call, LinkTypeOK
<1>3. [id |-> nextCallId[h], request |-> q] \in Upward
  BY <1>1, <1>2 DEF Upward
<1> QED BY <1>1, <1>2, <1>3 DEF Call, CallId
-----------------------------------------------------------------------------
LEMMA LinkTypeInit == LinkInit => LinkTypeOK /\ SocketsAgree
<1> SUFFICES ASSUME LinkInit PROVE LinkTypeOK /\ SocketsAgree
  OBVIOUS
<1>1. \A h \in Handles : pending[h] \in [1..MaxCalls[h] -> Requests \cup {undefined}]
  BY DEF LinkInit
<1> QED BY <1>1 DEF LinkInit, Init, LinkTypeOK, SocketsAgree

LEMMA SettleType ==
    ASSUME LinkTypeOK, NEW h \in Handles, NEW e \in Response, Settle(h, e),
           e.id \in 1..MaxCalls[h]
    PROVE  /\ pending' = [g \in Handles |-> pending'[g]]
           /\ \A g \in Handles :
                 pending'[g] \in [1..MaxCalls[g] -> Requests \cup {undefined}]
           /\ nextCallId' = nextCallId
           /\ toldSeat' \in [Handles -> ToldSeats \cup {undefined}]
           /\ welcomed' \in [Handles -> BOOLEAN]
<1> DEFINE q == pending[h][e.id]
<1>1. q \in Requests \cup {undefined}
  BY DEF LinkTypeOK
<1>2. CASE q = undefined
  BY <1>2 DEF Settle, callVars, LinkTypeOK
<1>3. CASE q # undefined
  <2>1. /\ pending' = [pending EXCEPT ![h] = [pending[h] EXCEPT ![e.id] = undefined]]
        /\ toldSeat' = [toldSeat EXCEPT ![h] =
                           IF e.outcome # "ok" THEN toldSeat[h]
                           ELSE IF q.method = "join"
                           THEN Seat(CHOOSE r \in MayJoin[h] : TRUE, q.name)
                           ELSE IF q.method = "leave" THEN undefined
                           ELSE toldSeat[h]]
        /\ welcomed' = [welcomed EXCEPT ![h] =
                           welcomed[h] \/ (q.method = "join" /\ e.outcome = "ok")]
        /\ nextCallId' = nextCallId
    BY <1>3 DEF Settle
  <2>2. q.method = "join" =>
           Seat(CHOOSE r \in MayJoin[h] : TRUE, q.name) \in ToldSeats
    BY <1>1, <1>3, RequestFacts, RoomOfClient DEF Seat, ToldSeats
  <2>3. toldSeat' \in [Handles -> ToldSeats \cup {undefined}]
    BY <2>1, <2>2 DEF LinkTypeOK
  <2>4. welcomed' \in [Handles -> BOOLEAN]
    <3> DEFINE w == welcomed[h] \/ (q.method = "join" /\ e.outcome = "ok")
    <3>1. welcomed \in [Handles -> BOOLEAN] /\ w \in BOOLEAN
      BY DEF LinkTypeOK
    <3>2. welcomed' = [welcomed EXCEPT ![h] = w]
      BY <2>1
    <3> HIDE DEF w
    <3> QED BY <3>1, <3>2
  <2>5. /\ pending' = [g \in Handles |-> pending'[g]]
        /\ \A g \in Handles :
              pending'[g] \in [1..MaxCalls[g] -> Requests \cup {undefined}]
    BY <2>1 DEF LinkTypeOK
  <2> QED BY <2>1, <2>3, <2>4, <2>5
<1> QED BY <1>2, <1>3

LEMMA LinkTypeStep ==
    ASSUME LinkTypeOK, TypeOK, TypeOK', [LinkNext]_linkVars,
           \A h \in Handles : \A i \in DOMAIN downlink[h] :
              downlink[h][i].kind = "response" => downlink[h][i].id \in 1..MaxCalls[h]
    PROVE  LinkTypeOK'
<1>1. ASSUME NEW h \in Handles, Serve(h)
      PROVE  LinkTypeOK'
  <2>1. /\ Tail(uplink[h]) \in Seq(Upward)
        /\ uplink' = [uplink EXCEPT ![h] = Tail(uplink[h])]
    BY <1>1, ServeFacts, SeqHead
  <2>2. uplink' \in [Handles -> Seq(Upward)]
    BY <2>1 DEF LinkTypeOK
  <2>3. downlink' \in [Handles -> Seq(Response \cup Notification)]
    BY <1>1, ServeFacts
  <2> QED BY <1>1, <2>2, <2>3, ServeFacts DEF LinkTypeOK
<1>2. ASSUME NEW h \in Handles, Wake(h)
      PROVE  LinkTypeOK'
  <2>1. downlink' \in [Handles -> Seq(Response \cup Notification)]
    BY <1>2, WakeFacts
  <2> QED BY <1>2, <2>1, WakeFacts DEF LinkTypeOK
<1>3. ASSUME NEW h \in Handles, Receive(h)
      PROVE  LinkTypeOK'
  <2>1. /\ downlink' \in [Handles -> Seq(Response \cup Notification)]
        /\ UNCHANGED <<socket, uplink, nextCallId>>
    BY <1>3, ReceiveFacts DEF LinkTypeOK
  <2>2. CASE downlink[h][1] \in Response /\ Settle(h, downlink[h][1])
             /\ UNCHANGED events
    <3>1. downlink[h][1].id \in 1..MaxCalls[h]
      <4>1. 1 \in DOMAIN downlink[h]
        BY <1>3, ReceiveFacts
      <4> QED BY <2>2, <4>1 DEF Response
    <3> QED BY <2>1, <2>2, <3>1, SettleType DEF LinkTypeOK
  <2>3. CASE /\ downlink[h][1] \in Notification
             /\ Notify(h, downlink[h][1].batch)
             /\ UNCHANGED <<pending, toldSeat, welcomed>>
    <3>1. downlink[h][1].batch.messages \in Seq(Message)
      BY <2>3 DEF Notification, Batch
    <3>2. events[h] \o downlink[h][1].batch.messages \in Seq(Message)
      BY <3>1, ConcatProperties DEF LinkTypeOK
    <3>3. events' \in [Handles -> Seq(Message)]
      BY <2>3, <3>2 DEF Notify, PassedOn, LinkTypeOK
    <3> QED BY <2>1, <2>3, <3>3 DEF LinkTypeOK
  <2> QED BY <1>3, <2>2, <2>3, ReceiveFacts
<1>4. ASSUME NEW h \in Handles, NEW q \in Asks[h], Call(h, q)
      PROVE  LinkTypeOK'
  <2>1. uplink' \in [Handles -> Seq(Upward)]
    <3> DEFINE up == [id |-> nextCallId[h], request |-> q]
    <3>1. /\ up \in Upward
          /\ uplink' = IF socket[h] = "open"
                       THEN [uplink EXCEPT ![h] = Append(uplink[h], up)]
                       ELSE uplink
      BY <1>4, CallFacts
    <3> HIDE DEF up
    <3>2. Append(uplink[h], up) \in Seq(Upward)
      BY <3>1 DEF LinkTypeOK
    <3> QED BY <3>1, <3>2 DEF LinkTypeOK
  <2>2. /\ pending' = [g \in Handles |-> pending'[g]]
        /\ \A g \in Handles :
              pending'[g] \in [1..MaxCalls[g] -> Requests \cup {undefined}]
    <3> DEFINE calls == [pending[h] EXCEPT ![nextCallId[h]] = q]
    <3>1. pending' = [pending EXCEPT ![h] = calls] /\ q \in Requests
      BY <1>4, CallFacts
    <3>2. calls \in [1..MaxCalls[h] -> Requests \cup {undefined}]
      BY <3>1 DEF LinkTypeOK
    <3> HIDE DEF calls
    <3> QED BY <3>1, <3>2 DEF LinkTypeOK
  <2>3. nextCallId' \in [Handles -> Nat \ {0}]
    <3>1. nextCallId' = [nextCallId EXCEPT ![h] = nextCallId[h] + 1]
      BY <1>4, CallFacts
    <3> QED BY <3>1 DEF LinkTypeOK
  <2> QED BY <1>4, <2>1, <2>2, <2>3, CallFacts DEF LinkTypeOK
<1>5. ASSUME NEW h \in Handles, Open(h) \/ Close(h) \/ CloseSeen(h)
      PROVE  LinkTypeOK'
  <2>1. /\ socket' \in [Handles -> {"none", "open", "closed"}]
        /\ uplink' \in [Handles -> Seq(Upward)]
        /\ downlink' \in [Handles -> Seq(Response \cup Notification)]
    <3>1. /\ socket' \in {socket, [socket EXCEPT ![h] = "open"],
                          [socket EXCEPT ![h] = "closed"]}
          /\ uplink' \in {uplink, [uplink EXCEPT ![h] = <<>>]}
          /\ downlink' \in {downlink, [downlink EXCEPT ![h] = <<>>]}
      BY <1>5 DEF Open, Close, CloseSeen
    <3>2. socket' \in [Handles -> {"none", "open", "closed"}]
      BY <3>1 DEF LinkTypeOK
    <3>3. uplink' \in [Handles -> Seq(Upward)]
      <4> DEFINE Queues == Seq(Upward)
      <4>1. <<>> \in Queues /\ uplink \in [Handles -> Queues]
        BY DEF LinkTypeOK
      <4> HIDE DEF Queues
      <4>2. uplink' \in [Handles -> Queues]
        BY <3>1, <4>1
      <4> QED BY <4>2 DEF Queues
    <3>4. downlink' \in [Handles -> Seq(Response \cup Notification)]
      <4> DEFINE Queues == Seq(Response \cup Notification)
      <4>1. <<>> \in Queues /\ downlink \in [Handles -> Queues]
        BY DEF LinkTypeOK
      <4> HIDE DEF Queues
      <4>2. downlink' \in [Handles -> Queues]
        BY <3>1, <4>1
      <4> QED BY <4>2 DEF Queues
    <3> QED BY <3>2, <3>3, <3>4
  <2>2. UNCHANGED <<pending, nextCallId, toldSeat, welcomed, events>>
    BY <1>5 DEF Open, Close, CloseSeen, clientVars, callVars
  <2> QED BY <2>1, <2>2 DEF LinkTypeOK
<1>6. CASE PassTime \/ UNCHANGED linkVars
  BY <1>6 DEF PassTime, linkVars, clientVars, callVars, LinkTypeOK
<1> QED BY <1>1, <1>2, <1>3, <1>4, <1>5, <1>6 DEF LinkNext

\* The seat that an `ok` for q means to its caller, who sat at `seat`.
SeatAfter(h, q, seat) ==
    IF q.method = "join" THEN Seat(CHOOSE r \in MayJoin[h] : TRUE, q.name)
    ELSE IF q.method = "leave" THEN undefined ELSE seat

(* Joins and leaves that succeed move their caller, and nothing else moves  *)
(* anybody.                                                                 *)
LEMMA ExecuteSeats ==
    ASSUME TypeOK, NEW h \in Handles, NEW q \in Requests, NEW outcome,
           Execute(h, q, outcome)
    PROVE  /\ connections' = connections
           /\ \A g \in Handles \ {h} : membership'[g] = membership[g]
           /\ membership'[h] = IF outcome = "ok" THEN SeatAfter(h, q, membership[h])
                               ELSE membership[h]
<1> USE DEF connectionVars, SeatAfter
<1>1. ASSUME q.method = "join", outcome = "ok",
             \E r \in MayJoin[h] : Join(h, r, q.name)
      PROVE  /\ connections' = connections
             /\ \A g \in Handles \ {h} : membership'[g] = membership[g]
             /\ membership'[h] = SeatAfter(h, q, membership[h])
  <2>1. PICK r \in MayJoin[h] : Join(h, r, q.name)
    BY <1>1
  <2>2. r = CHOOSE x \in MayJoin[h] : TRUE
    BY RoomOfClient
  <2>3. /\ membership' = [membership EXCEPT ![h] = Seat(r, q.name)]
        /\ connections' = connections
    BY <2>1 DEF Join
  <2> QED BY <1>1, <2>2, <2>3 DEF TypeOK
<1>2. ASSUME q.method = "join", outcome = "error",
             \/ \E r \in MayJoin[h] : JoinRefused(h, r, q.name, TRUE)
             \/ UNCHANGED vars
      PROVE  connections' = connections /\ membership' = membership
  BY <1>2 DEF JoinRefused, vars
<1>3. ASSUME q.method = "leave", outcome = "ok", Leave(h)
      PROVE  /\ connections' = connections
             /\ \A g \in Handles \ {h} : membership'[g] = membership[g]
             /\ membership'[h] = SeatAfter(h, q, membership[h])
  BY <1>3 DEF Leave, Unseat, TypeOK
<1>4. ASSUME q.method = "leave", outcome = "ok", Unjoined(h)
      PROVE  /\ connections' = connections /\ membership' = membership
             /\ membership'[h] = SeatAfter(h, q, membership[h])
  BY <1>4 DEF Unjoined, vars
<1>5. ASSUME q.method \notin {"join", "leave"},
             \/ Speak(h, q.mentions) \/ SpeakRateLimited(h) \/ SpeakRoomFull(h)
             \/ ReadHistory(h) \/ ListMembers(h) \/ UNCHANGED vars
      PROVE  /\ connections' = connections /\ membership' = membership
             /\ membership'[h] = SeatAfter(h, q, membership[h])
  BY <1>5 DEF Speak, SpeakRateLimited, SpeakRoomFull, ReadHistory, ListMembers,
              vars
<1> QED BY <1>1, <1>2, <1>3, <1>4, <1>5 DEF Execute, Unjoined

LEMMA ServeSeats ==
    ASSUME LinkTypeOK, TypeOK, TypeOK', NEW h \in Handles, Serve(h)
    PROVE  connections' = connections
<1>1. PICK outcome \in Outcomes : Execute(h, Head(uplink[h]).request, outcome)
  BY ServeFacts
<1>2. Head(uplink[h]).request \in Requests
  BY ServeFacts DEF Upward
<1> QED BY <1>1, <1>2, ExecuteSeats

LEMMA SocketsStep ==
    ASSUME LinkTypeOK, TypeOK, TypeOK', SocketsAgree, [LinkNext]_linkVars
    PROVE  SocketsAgree'
<1>1. ASSUME NEW h \in Handles, Serve(h)
      PROVE  SocketsAgree'
  <2>1. /\ UNCHANGED <<connections, socket, nextCallId, toldSeat, events>>
        /\ uplink[h] # <<>> /\ uplink' = [uplink EXCEPT ![h] = Tail(uplink[h])]
        /\ \A g \in Handles : socket[g] # "open" => downlink'[g] = <<>>
    BY <1>1, ServeFacts, ServeSeats
  <2>2. \A g \in Handles : socket[g] = "none" => uplink'[g] = <<>>
    BY <2>1 DEF SocketsAgree, LinkTypeOK
  <2> QED BY <2>1, <2>2 DEF SocketsAgree
<1>2. ASSUME NEW h \in Handles, Wake(h)
      PROVE  SocketsAgree'
  <2>1. /\ UNCHANGED <<connections, socket, uplink, nextCallId, toldSeat, events>>
        /\ \A g \in Handles : socket[g] # "open" => downlink'[g] = <<>>
    BY <1>2, WakeFacts DEF FlushBatch, connectionVars
  <2> QED BY <2>1 DEF SocketsAgree
<1>3. ASSUME NEW h \in Handles, Receive(h)
      PROVE  SocketsAgree'
  <2>1. /\ socket[h] = "open"
        /\ UNCHANGED <<connections, socket, uplink, nextCallId>>
        /\ downlink' = [downlink EXCEPT ![h] = Tail(downlink[h])]
        /\ \A g \in Handles \ {h} : toldSeat'[g] = toldSeat[g] /\ events'[g] = events[g]
    <3>1. /\ UNCHANGED <<vars, socket, uplink, nextCallId>>
          /\ downlink[h] # <<>>
          /\ downlink' = [downlink EXCEPT ![h] = Tail(downlink[h])]
      BY <1>3, ReceiveFacts
    <3>2. socket[h] = "open"
      BY <3>1 DEF SocketsAgree
    <3>3. \A g \in Handles \ {h} : toldSeat'[g] = toldSeat[g] /\ events'[g] = events[g]
      BY <1>3 DEF Receive, Settle, Notify, callVars, LinkTypeOK
    <3> QED BY <3>1, <3>2, <3>3 DEF vars, connectionVars
  <2> QED BY <2>1 DEF SocketsAgree, LinkTypeOK
<1>4. ASSUME NEW h \in Handles, NEW q \in Asks[h], Call(h, q)
      PROVE  SocketsAgree'
  <2>1. /\ socket[h] # "none" /\ UNCHANGED <<connections, socket, downlink,
                                             toldSeat, events>>
        /\ \A g \in Handles \ {h} : uplink'[g] = uplink[g]
                                     /\ nextCallId'[g] = nextCallId[g]
    BY <1>4 DEF Call, vars, connectionVars, LinkTypeOK
  <2> QED BY <2>1 DEF SocketsAgree
<1>5. ASSUME NEW h \in Handles, Open(h)
      PROVE  SocketsAgree'
  BY <1>5 DEF Open, Connect, clientVars, callVars, SocketsAgree, LinkTypeOK, TypeOK
<1>6. ASSUME NEW h \in Handles, Close(h)
      PROVE  SocketsAgree'
  BY <1>6 DEF Close, vars, connectionVars, clientVars, callVars, SocketsAgree,
              LinkTypeOK
<1>7. ASSUME NEW h \in Handles, CloseSeen(h)
      PROVE  SocketsAgree'
  BY <1>7 DEF CloseSeen, Disconnect, clientVars, callVars, SocketsAgree,
              LinkTypeOK, TypeOK
<1>8. CASE PassTime \/ UNCHANGED linkVars
  BY <1>8 DEF PassTime, Tick, linkVars, vars, connectionVars, clientVars, callVars,
              SocketsAgree
<1> QED BY <1>1, <1>2, <1>3, <1>4, <1>5, <1>6, <1>7, <1>8 DEF LinkNext
-----------------------------------------------------------------------------
(* Calls under way                                                          *)

LEMMA CallsInit == LinkInit => CallsInv
<1> SUFFICES ASSUME LinkInit PROVE CallsInv
  OBVIOUS
<1>1. Len(<<>>) = 0
  OBVIOUS
<1> QED BY <1>1 DEF LinkInit, CallsInv, CallsInOrder, CallsUnderWay

(* A notification disturbs no call, and neither does what others do.        *)
LEMMA CallsUndisturbed ==
    ASSUME LinkTypeOK, SocketsAgree, CallsInv, NEW g \in Handles,
           uplink'[g] = uplink[g], pending'[g] = pending[g],
           nextCallId'[g] = nextCallId[g], socket'[g] = socket[g],
           IF socket[g] = "open" THEN Lengthened(g, <<>>) ELSE downlink'[g] = <<>>
    PROVE  CallsInOrder(g)' /\ CallsUnderWay(g)'
<1> DEFINE before == Len(downlink[g])
           after == Len(downlink'[g])
<1>1. /\ before \in Nat /\ after \in Nat /\ before <= after
      /\ \A i \in 1..before : downlink'[g][i] = downlink[g][i]
      /\ \A i \in (before + 1)..after : downlink'[g][i].kind = "room_batch"
  <2>1. CASE socket[g] = "open"
    BY <2>1 DEF Lengthened, LinkTypeOK
  <2>2. CASE socket[g] # "open"
    BY <2>2 DEF SocketsAgree
  <2> QED BY <2>1, <2>2
<1>2. CallsInOrder(g) /\ CallsUnderWay(g)
  BY DEF CallsInv
<1>3. \A i \in 1..after : IsAnswer(g, i)' =>
         /\ i \in 1..before /\ IsAnswer(g, i) /\ DownId(g, i)' = DownId(g, i)
  BY <1>1 DEF IsAnswer, DownId
<1>4. \A i \in 1..before : IsAnswer(g, i) =>
         i \in 1..after /\ IsAnswer(g, i)' /\ DownId(g, i)' = DownId(g, i)
  BY <1>1 DEF IsAnswer, DownId
<1>5. \A i \in 1..Len(uplink[g]) : UpId(g, i)' = UpId(g, i)
  BY DEF UpId
<1>6. CallsInOrder(g)'
  BY <1>2, <1>3, <1>5 DEF CallsInOrder
<1>7. CallsUnderWay(g)'
  BY <1>2, <1>4, <1>5 DEF CallsUnderWay
<1> QED BY <1>6, <1>7

(* A call: its id is larger than those of the calls before it.              *)
LEMMA CallOrdered ==
    ASSUME LinkTypeOK, SocketsAgree, CallsInv, NEW h \in Handles,
           NEW q \in Asks[h], Call(h, q)
    PROVE  CallsInOrder(h)' /\ CallsUnderWay(h)'
<1> DEFINE new == nextCallId[h]
           n == Len(uplink[h])
           d == Len(downlink[h])
           up == [id |-> new, request |-> q]
<1>1. /\ new \in 1..MaxCalls[h] /\ MaxCalls[h] \in Nat
      /\ nextCallId'[h] = new + 1
      /\ \A id \in 1..MaxCalls[h] :
            pending'[h][id] = IF id = new THEN q ELSE pending[h][id]
      /\ q # undefined
      /\ socket'[h] = socket[h] /\ downlink'[h] = downlink[h]
  <2>1. /\ new \in 1..MaxCalls[h] /\ q \in Requests
        /\ nextCallId' = [nextCallId EXCEPT ![h] = new + 1]
        /\ pending' = [pending EXCEPT ![h] = [pending[h] EXCEPT ![new] = q]]
        /\ socket' = socket /\ downlink' = downlink
    BY CallFacts
  <2>2. MaxCalls[h] \in Nat /\ q # undefined
    BY <2>1, CallsAssumption
  <2>3. nextCallId'[h] = new + 1
    BY <2>1 DEF LinkTypeOK
  <2>4. pending'[h] = [pending[h] EXCEPT ![new] = q]
    BY <2>1 DEF LinkTypeOK
  <2> QED BY <2>1, <2>2, <2>3, <2>4 DEF LinkTypeOK
<1>2. /\ n \in Nat /\ d \in Nat
      /\ \A i \in 1..n : uplink'[h][i] = uplink[h][i]
      /\ IF socket[h] = "open"
         THEN Len(uplink'[h]) = n + 1 /\ uplink'[h][n + 1] = up
         ELSE Len(uplink'[h]) = n
  <2>1. /\ uplink' = IF socket[h] = "open"
                     THEN [uplink EXCEPT ![h] = Append(uplink[h], up)] ELSE uplink
        /\ up \in Upward
    BY CallFacts
  <2>2. uplink[h] \in Seq(Upward) /\ n \in Nat /\ d \in Nat
    BY DEF LinkTypeOK
  <2> HIDE DEF up
  <2>3. /\ Len(Append(uplink[h], up)) = n + 1
        /\ Append(uplink[h], up)[n + 1] = up
        /\ \A i \in 1..n : Append(uplink[h], up)[i] = uplink[h][i]
    BY <2>1, <2>2
  <2>4. uplink'[h] = IF socket[h] = "open" THEN Append(uplink[h], up) ELSE uplink[h]
    BY <2>1 DEF LinkTypeOK
  <2> QED BY <2>2, <2>3, <2>4
<1>3. CallsInOrder(h) /\ CallsUnderWay(h)
  BY DEF CallsInv
<1>4. /\ \A i \in 1..n : UpId(h, i)' = UpId(h, i) /\ UpId(h, i) < new
      /\ \A i \in 1..Len(uplink'[h]) : \/ i \in 1..n
                                        \/ /\ UpId(h, i)' = new /\ i = n + 1
                                           /\ uplink'[h][i].request = q
      /\ socket[h] = "open" => \E i \in 1..Len(uplink'[h]) : UpId(h, i)' = new
      /\ n <= Len(uplink'[h])
  <2>1. \A i \in 1..n : UpId(h, i)' = UpId(h, i)
    BY <1>2 DEF UpId
  <2>2. \A i \in 1..n : UpId(h, i) < new
    BY <1>3 DEF CallsInOrder
  <2>3. up.id = new /\ up.request = q
    OBVIOUS
  <2> HIDE DEF up
  <2>4. socket[h] = "open" =>
           \E i \in 1..Len(uplink'[h]) : uplink'[h][i].id = new
    BY <1>2, <2>3
  <2>5. ASSUME NEW i \in 1..Len(uplink'[h]), i \notin 1..n
        PROVE  UpId(h, i)' = new /\ i = n + 1 /\ uplink'[h][i].request = q
    <3>1. i = n + 1 /\ uplink'[h][n + 1] = up
      BY <1>2, <2>5
    <3> QED BY <3>1, <2>3 DEF UpId
  <2>6. n <= Len(uplink'[h])
    BY <1>2
  <2> QED BY <2>1, <2>2, <2>4, <2>5, <2>6 DEF UpId
<1>5. \A i \in 1..d : /\ DownId(h, i)' = DownId(h, i)
                      /\ IsAnswer(h, i)' = IsAnswer(h, i)
                      /\ IsAnswer(h, i) => DownId(h, i) < new
  BY <1>1, <1>3 DEF DownId, IsAnswer, CallsInOrder
<1> HIDE DEF up
<1>6. CallsInOrder(h)'
  <2> USE <1>1, <1>2, <1>3, <1>4, <1>5
  <2>1. \A id \in 1..MaxCalls[h] : nextCallId'[h] <= id => pending'[h][id] = undefined
    BY DEF CallsInOrder
  <2>2. \A i \in 1..Len(uplink'[h]) :
           /\ UpId(h, i)' \in 1..MaxCalls[h] /\ UpId(h, i)' < nextCallId'[h]
           /\ pending'[h][UpId(h, i)'] = uplink'[h][i].request
    <3>1. \A i \in 1..n : /\ UpId(h, i) \in 1..MaxCalls[h]
                          /\ pending[h][UpId(h, i)] = uplink[h][i].request
      BY DEF CallsInOrder
    <3>2. ASSUME NEW i \in 1..n
          PROVE  pending'[h][UpId(h, i)] = uplink'[h][i].request
      <4>1. UpId(h, i) \in 1..MaxCalls[h] /\ UpId(h, i) # new
        BY <3>1
      <4>2. pending'[h][UpId(h, i)] = pending[h][UpId(h, i)]
        BY <4>1
      <4>3. uplink'[h][i] = uplink[h][i]
        OBVIOUS
      <4> QED BY <3>1, <4>2, <4>3
    <3>3. new < nextCallId'[h] /\ pending'[h][new] = q
      OBVIOUS
    <3> QED BY <3>1, <3>2, <3>3
  <2>3. \A i, j \in 1..Len(uplink'[h]) : i < j => UpId(h, i)' < UpId(h, j)'
    BY DEF CallsInOrder
  <2>4. \A i \in 1..d : IsAnswer(h, i) =>
          /\ DownId(h, i) \in 1..MaxCalls[h] /\ DownId(h, i) < nextCallId'[h]
          /\ pending'[h][DownId(h, i)] # undefined
    BY DEF CallsInOrder
  <2>5. \A i \in 1..d, j \in 1..Len(uplink'[h]) :
           IsAnswer(h, i) => DownId(h, i) < UpId(h, j)'
    BY DEF CallsInOrder
  <2> QED BY <2>1, <2>2, <2>3, <2>4, <2>5 DEF CallsInOrder
<1>7. CallsUnderWay(h)'
  <2>1. SUFFICES ASSUME socket[h] = "open", NEW id \in 1..MaxCalls[h],
                        pending'[h][id] # undefined
                 PROVE  \/ \E i \in 1..Len(uplink'[h]) : UpId(h, i)' = id
                        \/ \E i \in 1..d : IsAnswer(h, i) /\ DownId(h, i) = id
    BY <1>1, <1>5 DEF CallsUnderWay
  <2>2. CASE id = new
    BY <2>1, <2>2, <1>4
  <2>3. CASE id # new
    <3>1. pending[h][id] # undefined
      BY <2>1, <2>3, <1>1
    <3>2. \/ \E i \in 1..n : UpId(h, i) = id
          \/ \E i \in 1..d : IsAnswer(h, i) /\ DownId(h, i) = id
      BY <3>1, <2>1, <1>3 DEF CallsUnderWay
    <3>3. ASSUME NEW i \in 1..n, UpId(h, i) = id
          PROVE  \E j \in 1..Len(uplink'[h]) : UpId(h, j)' = id
      <4>1. i \in 1..Len(uplink'[h])
        BY <1>2
      <4>2. UpId(h, i)' = id
        BY <3>3, <1>4
      <4> QED BY <4>1, <4>2
    <3> QED BY <3>2, <3>3
  <2> QED BY <2>2, <2>3
<1> QED BY <1>6, <1>7

(* An answer: the oldest request becomes the newest answer, with its id.    *)
LEMMA ServeOrdered ==
    ASSUME LinkTypeOK, SocketsAgree, CallsInv, TypeOK, TypeOK',
           NEW h \in Handles, Serve(h)
    PROVE  CallsInOrder(h)' /\ CallsUnderWay(h)'
<1> DEFINE n == Len(uplink[h])
           before == Len(downlink[h])
           after == Len(downlink'[h])
           first == UpId(h, 1)
<1>1. PICK outcome \in Outcomes :
         socket[h] = "open" => Lengthened(h, <<AnswerTo(Head(uplink[h]), outcome)>>)
  BY ServeFacts DEF Answers
<1>2. /\ n \in Nat \ {0} /\ Head(uplink[h]) = uplink[h][1]
      /\ Len(uplink'[h]) = n - 1
      /\ \A i \in 1..n - 1 : uplink'[h][i] = uplink[h][i + 1]
  <2>1. /\ uplink[h] \in Seq(Upward) /\ uplink[h] # <<>>
        /\ uplink' = [uplink EXCEPT ![h] = Tail(uplink[h])]
    BY ServeFacts
  <2>2. uplink'[h] = Tail(uplink[h])
    BY <2>1 DEF LinkTypeOK
  <2> QED BY <2>1, <2>2, SeqHead
<1>3. /\ UNCHANGED <<socket, pending, nextCallId>>
      /\ socket[h] # "open" => downlink'[h] = <<>> /\ downlink[h] = <<>>
  BY ServeFacts DEF SocketsAgree
<1>4. /\ before \in Nat /\ after \in Nat /\ before <= after
      /\ \A i \in 1..before : downlink'[h][i] = downlink[h][i]
      /\ \A i \in (before + 1)..after :
            \/ downlink'[h][i].kind = "room_batch"
            \/ /\ i = after /\ downlink'[h][i].kind = "response"
               /\ downlink'[h][i].id = first
      /\ socket[h] = "open" => /\ before < after
                               /\ downlink'[h][after].kind = "response"
                               /\ downlink'[h][after].id = first
  <2>1. CASE socket[h] = "open"
    <3> DEFINE e == AnswerTo(Head(uplink[h]), outcome)
    <3>1. e.kind = "response" /\ e.id = first
      BY <1>2 DEF AnswerTo, UpId
    <3>2. Lengthened(h, <<e>>) /\ <<e>> # <<>>
          /\ \A x : <<e>> = <<x>> => x = e
      BY <1>1, <2>1
    <3> HIDE DEF e, first
    <3>3. before \in Nat
      BY DEF LinkTypeOK
    <3> QED BY <3>1, <3>2, <3>3 DEF Lengthened
  <2>2. CASE socket[h] # "open"
    BY <2>2, <1>3
  <2> QED BY <2>1, <2>2
<1>5. CallsInOrder(h) /\ CallsUnderWay(h)
  BY DEF CallsInv
<1>6. /\ \A i \in 1..n - 1 : UpId(h, i)' = UpId(h, i + 1) /\ first < UpId(h, i + 1)
      /\ first \in 1..MaxCalls[h] /\ first < nextCallId[h]
      /\ pending[h][first] # undefined
  <2>1. uplink[h][1].request \in Requests
    BY ServeFacts, <1>2 DEF Upward
  <2>2. uplink[h][1].request # undefined
    BY <2>1, CallsAssumption
  <2>3. \A i \in 1..n - 1 : UpId(h, i)' = UpId(h, i + 1)
    BY <1>2 DEF UpId
  <2>4. 1 \in 1..n /\ \A i \in 1..n - 1 : i + 1 \in 1..n /\ 1 < i + 1
    BY <1>2
  <2>5. \A i, j \in 1..n : i < j => UpId(h, i) < UpId(h, j)
    BY <1>5 DEF CallsInOrder
  <2>6. \A i \in 1..n - 1 : UpId(h, 1) < UpId(h, i + 1)
    BY <2>4, <2>5
  <2>7. /\ UpId(h, 1) \in 1..MaxCalls[h] /\ UpId(h, 1) < nextCallId[h]
        /\ pending[h][UpId(h, 1)] = uplink[h][1].request
    BY <1>5, <2>4 DEF CallsInOrder
  <2> QED BY <2>2, <2>3, <2>6, <2>7
<1>7. \A i \in 1..after : IsAnswer(h, i)' =>
         \/ i \in 1..before /\ IsAnswer(h, i) /\ DownId(h, i)' = DownId(h, i)
         \/ i = after /\ DownId(h, i)' = first
  BY <1>4 DEF IsAnswer, DownId
<1>8. \A i \in 1..before : IsAnswer(h, i) =>
         /\ i \in 1..after /\ IsAnswer(h, i)' /\ DownId(h, i)' = DownId(h, i)
         /\ DownId(h, i) < first
  <2>1. 1 \in 1..n
    BY <1>2
  <2>2. \A i \in 1..before : IsAnswer(h, i) => DownId(h, i) < first
    BY <1>5, <2>1 DEF CallsInOrder
  <2>3. \A i \in 1..before : i \in 1..after /\ downlink'[h][i] = downlink[h][i]
    BY <1>4
  <2> QED BY <2>2, <2>3 DEF IsAnswer, DownId
<1> HIDE DEF first
<1>9. CallsInOrder(h)'
  <2>1. \A i \in 1..Len(uplink'[h]) :
           /\ UpId(h, i)' \in 1..MaxCalls[h] /\ UpId(h, i)' < nextCallId'[h]
           /\ pending'[h][UpId(h, i)'] = uplink'[h][i].request
    <3>1. SUFFICES ASSUME NEW i \in 1..n - 1
                   PROVE  /\ UpId(h, i + 1) \in 1..MaxCalls[h]
                          /\ UpId(h, i + 1) < nextCallId[h]
                          /\ pending[h][UpId(h, i + 1)] = uplink[h][i + 1].request
      BY <1>2, <1>3, <1>6
    <3>2. i + 1 \in 1..n
      BY <1>2
    <3> QED BY <3>2, <1>5 DEF CallsInOrder
  <2>2. \A i, j \in 1..Len(uplink'[h]) : i < j => UpId(h, i)' < UpId(h, j)'
    BY <1>2, <1>5, <1>6 DEF CallsInOrder
  <2>3. \A i \in 1..after : IsAnswer(h, i)' =>
          /\ DownId(h, i)' \in 1..MaxCalls[h] /\ DownId(h, i)' < nextCallId'[h]
          /\ pending'[h][DownId(h, i)'] # undefined
    BY <1>3, <1>5, <1>6, <1>7 DEF CallsInOrder
  <2>4. \A i, j \in 1..after :
          IsAnswer(h, i)' /\ IsAnswer(h, j)' /\ i < j => DownId(h, i)' < DownId(h, j)'
    BY <1>4, <1>5, <1>7, <1>8 DEF CallsInOrder
  <2>5. \A i \in 1..after, j \in 1..Len(uplink'[h]) :
          IsAnswer(h, i)' => DownId(h, i)' < UpId(h, j)'
    BY <1>2, <1>5, <1>6, <1>7 DEF CallsInOrder
  <2> QED BY <1>3, <1>5, <2>1, <2>2, <2>3, <2>4, <2>5 DEF CallsInOrder
<1>10. CallsUnderWay(h)'
  <2>1. SUFFICES ASSUME socket[h] = "open", NEW id \in 1..MaxCalls[h],
                        pending[h][id] # undefined
                 PROVE  \/ \E i \in 1..Len(uplink'[h]) : UpId(h, i)' = id
                        \/ \E i \in 1..after : IsAnswer(h, i)' /\ DownId(h, i)' = id
    BY <1>3 DEF CallsUnderWay
  <2>2. CASE id = first
    BY <2>1, <2>2, <1>4 DEF IsAnswer, DownId
  <2>3. ASSUME id # first, NEW i \in 1..n, UpId(h, i) = id
        PROVE  \E j \in 1..Len(uplink'[h]) : UpId(h, j)' = id
    <3>1. i # 1
      BY <2>3 DEF first
    <3>2. i - 1 \in 1..n - 1 /\ (i - 1) + 1 = i
      BY <3>1, <1>2
    <3> QED BY <3>2, <2>3, <1>2, <1>6
  <2> QED BY <2>1, <2>2, <2>3, <1>5, <1>8 DEF CallsUnderWay
<1> QED BY <1>9, <1>10

(* An answer settles the call it is for, and no other.                      *)
LEMMA ReceiveOrdered ==
    ASSUME LinkTypeOK, SocketsAgree, CallsInv, NEW h \in Handles, Receive(h)
    PROVE  CallsInOrder(h)' /\ CallsUnderWay(h)'
<1> DEFINE n == Len(downlink[h])
           first == DownId(h, 1)
<1>1. /\ n \in Nat \ {0} /\ Len(downlink'[h]) = n - 1
      /\ \A i \in 1..n - 1 : downlink'[h][i] = downlink[h][i + 1]
      /\ UNCHANGED <<socket, uplink, nextCallId>>
  BY ReceiveFacts
<1>2. CallsInOrder(h) /\ CallsUnderWay(h)
  BY DEF CallsInv
<1>3. \A i \in 1..n - 1 : /\ IsAnswer(h, i)' = IsAnswer(h, i + 1)
                          /\ DownId(h, i)' = DownId(h, i + 1)
                          /\ i + 1 \in 1..n
  BY <1>1 DEF IsAnswer, DownId
<1>4. \/ /\ IsAnswer(h, 1)
         /\ \A id \in 1..MaxCalls[h] :
               pending'[h][id] = IF id = first THEN undefined ELSE pending[h][id]
      \/ ~IsAnswer(h, 1) /\ pending' = pending
  <2>1. CASE downlink[h][1] \in Response /\ Settle(h, downlink[h][1])
    <3>1. IsAnswer(h, 1)
      BY <2>1 DEF Response, IsAnswer
    <3>2. first \in 1..MaxCalls[h] /\ pending[h][first] # undefined
      BY <3>1, <1>1, <1>2 DEF CallsInOrder
    <3>3. pending' = [pending EXCEPT ![h] = [pending[h] EXCEPT ![first] = undefined]]
      BY <2>1, <3>2 DEF Settle, DownId
    <3> HIDE DEF first
    <3>4. pending'[h] = [pending[h] EXCEPT ![first] = undefined]
      BY <3>3 DEF LinkTypeOK
    <3> QED BY <3>1, <3>4 DEF LinkTypeOK
  <2>2. CASE downlink[h][1] \in Notification /\ pending' = pending
    BY <2>2 DEF Notification, IsAnswer
  <2> QED BY <2>1, <2>2, ReceiveFacts
<1>5. IsAnswer(h, 1) =>
         /\ \A i \in 2..n : IsAnswer(h, i) => first < DownId(h, i)
         /\ \A j \in 1..Len(uplink[h]) : first < UpId(h, j)
  BY <1>1, <1>2 DEF CallsInOrder
<1> HIDE DEF first
<1>6. CallsInOrder(h)'
  <2>1. \A id \in 1..MaxCalls[h] : nextCallId[h] <= id => pending'[h][id] = undefined
    BY <1>2, <1>4 DEF CallsInOrder
  <2>2. \A i \in 1..Len(uplink[h]) :
           /\ UpId(h, i) \in 1..MaxCalls[h] /\ UpId(h, i) < nextCallId[h]
           /\ pending'[h][UpId(h, i)] = uplink[h][i].request
    <3>1. SUFFICES ASSUME NEW i \in 1..Len(uplink[h])
                   PROVE  /\ UpId(h, i) \in 1..MaxCalls[h]
                          /\ UpId(h, i) < nextCallId[h]
                          /\ pending'[h][UpId(h, i)] = pending[h][UpId(h, i)]
      BY <1>2 DEF CallsInOrder
    <3>2. UpId(h, i) \in 1..MaxCalls[h] /\ UpId(h, i) < nextCallId[h]
      BY <1>2 DEF CallsInOrder
    <3> QED BY <3>2, <1>4, <1>5
  <2>3. ASSUME NEW i \in 1..n - 1, IsAnswer(h, i + 1)
        PROVE  /\ DownId(h, i + 1) \in 1..MaxCalls[h]
               /\ DownId(h, i + 1) < nextCallId[h]
               /\ pending'[h][DownId(h, i + 1)] # undefined
    <3>1. i + 1 \in 2..n /\ i + 1 \in 1..n
      BY <1>1
    <3>2. /\ DownId(h, i + 1) \in 1..MaxCalls[h] /\ DownId(h, i + 1) < nextCallId[h]
          /\ pending[h][DownId(h, i + 1)] # undefined
      BY <2>3, <3>1, <1>2 DEF CallsInOrder
    <3>3. IsAnswer(h, 1) => first < DownId(h, i + 1)
      BY <2>3, <3>1, <1>5
    <3> QED BY <3>2, <3>3, <1>4
  <2>4. \A i, j \in 1..n - 1 :
          IsAnswer(h, i + 1) /\ IsAnswer(h, j + 1) /\ i < j
             => DownId(h, i + 1) < DownId(h, j + 1)
    BY <1>2, <1>3 DEF CallsInOrder
  <2>5. \A i \in 1..n - 1, j \in 1..Len(uplink[h]) :
          IsAnswer(h, i + 1) => DownId(h, i + 1) < UpId(h, j)
    BY <1>2, <1>3 DEF CallsInOrder
  <2>6. \A i \in 1..Len(uplink[h]) : UpId(h, i)' = UpId(h, i)
    BY <1>1 DEF UpId
  <2> QED BY <1>1, <1>2, <1>3, <2>1, <2>2, <2>3, <2>4, <2>5, <2>6 DEF CallsInOrder
<1>7. CallsUnderWay(h)'
  <2>1. SUFFICES ASSUME socket[h] = "open", NEW id \in 1..MaxCalls[h],
                        pending'[h][id] # undefined
                 PROVE  \/ \E i \in 1..Len(uplink[h]) : UpId(h, i)' = id
                        \/ \E i \in 1..n - 1 : IsAnswer(h, i)' /\ DownId(h, i)' = id
    BY <1>1 DEF CallsUnderWay
  <2>2. pending[h][id] # undefined /\ (IsAnswer(h, 1) => id # first)
    BY <2>1, <1>4
  <2>3. ASSUME NEW i \in 1..n, IsAnswer(h, i), DownId(h, i) = id
        PROVE  \E j \in 1..n - 1 : IsAnswer(h, j)' /\ DownId(h, j)' = id
    <3>1. i # 1
      BY <2>2, <2>3 DEF first
    <3>2. i - 1 \in 1..n - 1 /\ (i - 1) + 1 = i
      BY <3>1, <1>1
    <3>3. IsAnswer(h, i - 1)' /\ DownId(h, i - 1)' = id
      BY <3>2, <2>3, <1>3
    <3> QED BY <3>2, <3>3
  <2>4. \A i \in 1..Len(uplink[h]) : UpId(h, i)' = UpId(h, i)
    BY <1>1 DEF UpId
  <2> QED BY <2>1, <2>2, <2>3, <2>4, <1>2 DEF CallsUnderWay
<1> QED BY <1>6, <1>7

LEMMA CallsUnchanged ==
    ASSUME CallsInv, NEW g \in Handles,
           uplink'[g] = uplink[g], downlink'[g] = downlink[g],
           pending'[g] = pending[g], nextCallId'[g] = nextCallId[g],
           socket'[g] = socket[g]
    PROVE  CallsInOrder(g)' /\ CallsUnderWay(g)'
<1>1. CallsInOrder(g) /\ CallsUnderWay(g)
  BY DEF CallsInv
<1>2. CallsInOrder(g)'
  BY <1>1 DEF CallsInOrder, UpId, DownId, IsAnswer
<1>3. CallsUnderWay(g)'
  BY <1>1 DEF CallsUnderWay, UpId, DownId, IsAnswer
<1> QED BY <1>2, <1>3

LEMMA CallsShortened ==
    ASSUME CallsInv, NEW g \in Handles, UNCHANGED <<pending, nextCallId>>,
           \A i \in 1..Len(uplink'[g]) :
              i \in 1..Len(uplink[g]) /\ uplink'[g][i] = uplink[g][i],
           \A i \in 1..Len(downlink'[g]) :
              i \in 1..Len(downlink[g]) /\ downlink'[g][i] = downlink[g][i]
    PROVE  CallsInOrder(g)'
<1>1. CallsInOrder(g)
  BY DEF CallsInv
<1>2. \A i \in 1..Len(uplink'[g]) :
         i \in 1..Len(uplink[g]) /\ UpId(g, i)' = UpId(g, i)
  BY DEF UpId
<1>3. \A i \in 1..Len(downlink'[g]) :
         /\ i \in 1..Len(downlink[g]) /\ DownId(g, i)' = DownId(g, i)
         /\ IsAnswer(g, i)' = IsAnswer(g, i)
  BY DEF DownId, IsAnswer
<1>4. \A id \in 1..MaxCalls[g] : nextCallId'[g] <= id => pending'[g][id] = undefined
  BY <1>1 DEF CallsInOrder
<1>5. ASSUME NEW i \in 1..Len(uplink'[g])
      PROVE  /\ UpId(g, i)' \in 1..MaxCalls[g] /\ UpId(g, i)' < nextCallId'[g]
             /\ pending'[g][UpId(g, i)'] = uplink'[g][i].request
  <2>1. /\ UpId(g, i) \in 1..MaxCalls[g] /\ UpId(g, i) < nextCallId[g]
        /\ pending[g][UpId(g, i)] = uplink[g][i].request
    BY <1>1, <1>2 DEF CallsInOrder
  <2> QED BY <2>1, <1>2
<1>6. \A i, j \in 1..Len(uplink'[g]) : i < j => UpId(g, i)' < UpId(g, j)'
  BY <1>1, <1>2 DEF CallsInOrder
<1>7. \A i \in 1..Len(downlink'[g]) : IsAnswer(g, i)' =>
          /\ DownId(g, i)' \in 1..MaxCalls[g] /\ DownId(g, i)' < nextCallId'[g]
          /\ pending'[g][DownId(g, i)'] # undefined
  BY <1>1, <1>3 DEF CallsInOrder
<1>8. \A i, j \in 1..Len(downlink'[g]) :
          IsAnswer(g, i)' /\ IsAnswer(g, j)' /\ i < j => DownId(g, i)' < DownId(g, j)'
  BY <1>1, <1>3 DEF CallsInOrder
<1>9. \A i \in 1..Len(downlink'[g]), j \in 1..Len(uplink'[g]) :
          IsAnswer(g, i)' => DownId(g, i)' < UpId(g, j)'
  BY <1>1, <1>2, <1>3 DEF CallsInOrder
<1> QED BY <1>4, <1>5, <1>6, <1>7, <1>8, <1>9 DEF CallsInOrder

LEMMA CallsStep ==
    ASSUME LinkTypeOK, TypeOK, TypeOK', SocketsAgree, CallsInv,
           [LinkNext]_linkVars
    PROVE  CallsInv'
<1>1. ASSUME NEW h \in Handles, Serve(h), NEW g \in Handles
      PROVE  CallsInOrder(g)' /\ CallsUnderWay(g)'
  <2>1. CASE g = h
    BY <1>1, <2>1, ServeOrdered
  <2>2. CASE g # h
    <3>1. /\ uplink' = [uplink EXCEPT ![h] = Tail(uplink[h])]
          /\ UNCHANGED <<socket, pending, nextCallId>>
          /\ socket[g] # "open" => downlink'[g] = <<>>
      BY <1>1, ServeFacts
    <3>2. socket[g] = "open" => Lengthened(g, <<>>)
      BY <1>1, <2>2, ServeFacts DEF Answers
    <3>3. uplink'[g] = uplink[g]
      BY <2>2, <3>1 DEF LinkTypeOK
    <3> QED BY <3>1, <3>2, <3>3, CallsUndisturbed
  <2> QED BY <2>1, <2>2
<1>2. ASSUME NEW h \in Handles, Wake(h), NEW g \in Handles
      PROVE  CallsInOrder(g)' /\ CallsUnderWay(g)'
  <2>1. /\ UNCHANGED <<socket, uplink, pending, nextCallId>>
        /\ socket[g] # "open" => downlink'[g] = <<>>
        /\ socket[g] = "open" => Lengthened(g, <<>>)
    BY <1>2, WakeFacts
  <2> QED BY <2>1, CallsUndisturbed
<1>3. ASSUME NEW h \in Handles, Receive(h), NEW g \in Handles
      PROVE  CallsInOrder(g)' /\ CallsUnderWay(g)'
  <2>1. CASE g = h
    BY <1>3, <2>1, ReceiveOrdered
  <2>2. CASE g # h
    <3>1. /\ UNCHANGED <<socket, uplink, nextCallId>>
          /\ downlink' = [downlink EXCEPT ![h] = Tail(downlink[h])]
      BY <1>3, ReceiveFacts
    <3>2. pending'[g] = pending[g]
      BY <1>3, <2>2 DEF Receive, Settle, Notify, callVars, LinkTypeOK
    <3>3. downlink'[g] = downlink[g]
      BY <2>2, <3>1 DEF LinkTypeOK
    <3> QED BY <3>1, <3>2, <3>3, CallsUnchanged
  <2> QED BY <2>1, <2>2
<1>4. ASSUME NEW h \in Handles, NEW q \in Asks[h], Call(h, q), NEW g \in Handles
      PROVE  CallsInOrder(g)' /\ CallsUnderWay(g)'
  <2>1. CASE g = h
    BY <1>4, <2>1, CallOrdered
  <2>2. CASE g # h
    <3>1. UNCHANGED <<socket, downlink>>
      BY <1>4 DEF Call
    <3>2. /\ uplink'[g] = uplink[g] /\ pending'[g] = pending[g]
          /\ nextCallId'[g] = nextCallId[g]
      BY <1>4, <2>2 DEF Call, LinkTypeOK
    <3> QED BY <3>1, <3>2, CallsUnchanged
  <2> QED BY <2>1, <2>2
<1>5. ASSUME NEW h \in Handles, Open(h) \/ Close(h) \/ CloseSeen(h),
             NEW g \in Handles
      PROVE  CallsInOrder(g)' /\ CallsUnderWay(g)'
  <2>1. UNCHANGED <<pending, nextCallId>>
    BY <1>5 DEF Open, Close, CloseSeen, clientVars, callVars
  <2>2. CASE g # h
    <3>1. /\ uplink'[g] = uplink[g] /\ downlink'[g] = downlink[g]
          /\ socket'[g] = socket[g]
      BY <1>5, <2>2 DEF Open, Close, CloseSeen, LinkTypeOK
    <3> QED BY <2>1, <3>1, CallsUnchanged
  <2>3. CASE g = h
    <3>1. /\ uplink'[g] = uplink[g] \/ uplink'[g] = <<>>
          /\ downlink'[g] = downlink[g] \/ downlink'[g] = <<>>
      BY <1>5, <2>3 DEF Open, Close, CloseSeen, LinkTypeOK
    <3>2. CallsInOrder(g) /\ CallsUnderWay(g)
      BY DEF CallsInv
    <3>3. Len(<<>>) = 0 /\ \A k : k \notin 1..0
      OBVIOUS
    <3>4. \A i \in 1..Len(uplink'[g]) :
             i \in 1..Len(uplink[g]) /\ uplink'[g][i] = uplink[g][i]
      BY <3>1, <3>3
    <3>8. \A i \in 1..Len(downlink'[g]) :
             i \in 1..Len(downlink[g]) /\ downlink'[g][i] = downlink[g][i]
      BY <3>1, <3>3
    <3>5. CallsInOrder(g)'
      BY <2>1, <3>4, <3>8, CallsShortened
    <3>6. CASE Open(h)
      <4>1. socket[g] = "none"
        BY <2>3, <3>6 DEF Open, Connect, SocketsAgree
      <4>2. nextCallId[g] = 1 /\ MaxCalls[g] \in Nat
        BY <4>1, CallsAssumption DEF SocketsAgree
      <4>3. \A id \in 1..MaxCalls[g] : pending[g][id] = undefined
        BY <3>2, <4>2 DEF CallsInOrder
      <4>4. CallsUnderWay(g)'
        BY <2>1, <4>3 DEF CallsUnderWay
      <4> QED BY <3>5, <4>4
    <3>7. CASE Close(h) \/ CloseSeen(h)
      <4>1. socket'[g] # "open"
        BY <2>3, <3>7 DEF Close, CloseSeen, LinkTypeOK
      <4> QED BY <3>5, <4>1 DEF CallsUnderWay
    <3> QED BY <1>5, <3>6, <3>7
  <2> QED BY <2>2, <2>3
<1>6. ASSUME PassTime \/ UNCHANGED linkVars, NEW g \in Handles
      PROVE  CallsInOrder(g)' /\ CallsUnderWay(g)'
  BY <1>6, CallsUnchanged DEF PassTime, linkVars, clientVars, callVars
<1>7. \A g \in Handles : (CallsInOrder(g) /\ CallsUnderWay(g))'
  BY <1>1, <1>2, <1>3, <1>4, <1>5, <1>6 DEF LinkNext
<1> QED BY <1>7 DEF CallsInv
-----------------------------------------------------------------------------
(* With the sockets in front of it the broker is still the broker, so what  *)
(* is proved of it holds here.                                              *)
LEMMA LinkInductive ==
    LinkSpec => [](LinkTypeOK /\ SocketsAgree /\ CallsInv /\ TypeOK /\ Short)
<1> DEFINE Inv == LinkTypeOK /\ SocketsAgree /\ CallsInv /\ TypeOK /\ Short
<1>1. LinkInit => Inv
  BY LinkTypeInit, CallsInit, TypeInit DEF LinkInit
<1>2. Inv /\ [LinkNext]_linkVars => Inv'
  <2> SUFFICES ASSUME Inv, [LinkNext]_linkVars PROVE Inv'
    OBVIOUS
  <2>1. TypeOK' /\ Short'
    BY StepOfBroker, TypeStep
  <2>2. \A h \in Handles : \A i \in DOMAIN downlink[h] :
           downlink[h][i].kind = "response" => downlink[h][i].id \in 1..MaxCalls[h]
    <3>1. ASSUME NEW h \in Handles, NEW i \in DOMAIN downlink[h],
                 downlink[h][i].kind = "response"
          PROVE  downlink[h][i].id \in 1..MaxCalls[h]
      <4>1. i \in 1..Len(downlink[h])
        BY <3>1 DEF LinkTypeOK
      <4> QED BY <3>1, <4>1 DEF CallsInv, CallsInOrder, IsAnswer, DownId
    <3> QED BY <3>1
  <2>3. LinkTypeOK'
    BY <2>1, <2>2, LinkTypeStep
  <2> QED BY <2>1, <2>3, SocketsStep, CallsStep
<1> HIDE DEF Inv
<1>3. LinkSpec => []Inv
  BY <1>1, <1>2, PTL DEF LinkSpec
<1> QED BY <1>3 DEF Inv

(* The sockets and queues in front of the broker make it do nothing that    *)
(* its own specification does not allow (ws-server.ts:40-55).               *)
THEOREM LinkImplementsBroker == LinkSpec => Spec
<1>1. LinkInit => Init
  BY DEF LinkInit
<1>2. LinkTypeOK /\ [LinkNext]_linkVars => [Next]_vars
  BY StepOfBroker
<1>3. LinkSpec => []LinkTypeOK
  BY LinkInductive, PTL
<1> QED BY <1>1, <1>2, <1>3, PTL DEF LinkSpec, Spec
-----------------------------------------------------------------------------
(* Each call that waits is under way exactly once: the ids of the requests  *)
(* are all larger than those of the answers, so that no call is in both     *)
(* queues, and each queue is strictly ordered, so that none is there twice. *)
LEMMA Accounted == LinkTypeOK /\ CallsInv => CallsAccounted
<1> SUFFICES ASSUME LinkTypeOK, CallsInv, NEW h \in Handles, socket[h] = "open"
             PROVE  /\ {m.id : m \in Travelling(h)} = Waiting(h)
                    /\ Cardinality(Travelling(h)) = Cardinality(Waiting(h))
  BY DEF CallsAccounted
<1> DEFINE n == Len(uplink[h])
           d == Len(downlink[h])
           Up(i) == [at |-> "up", place |-> i, id |-> UpId(h, i)]
           Down(i) == [at |-> "down", place |-> i, id |-> DownId(h, i)]
           call == [m \in Travelling(h) |-> m.id]
<1>1. CallsInOrder(h) /\ CallsUnderWay(h)
  BY DEF CallsInv
<1>2. /\ DOMAIN uplink[h] = 1..n /\ DOMAIN downlink[h] = 1..d
      /\ n \in Nat /\ d \in Nat
  BY DEF LinkTypeOK
<1>3. \A m : m \in Travelling(h) <=>
         \/ \E i \in 1..n : m = Up(i)
         \/ \E i \in 1..d : IsAnswer(h, i) /\ m = Down(i)
  BY <1>2 DEF Travelling, UpId, DownId, IsAnswer
<1>4. \A i : Up(i).id = UpId(h, i) /\ Down(i).id = DownId(h, i)
  OBVIOUS
<1> HIDE DEF Up, Down
<1>5. ASSUME NEW i \in 1..n
      PROVE  UpId(h, i) \in Waiting(h)
  <2>1. /\ UpId(h, i) \in 1..MaxCalls[h]
        /\ pending[h][UpId(h, i)] = uplink[h][i].request
    BY <1>1 DEF CallsInOrder
  <2>2. uplink[h][i] \in Upward
    BY <1>2, ElementOfSeq DEF LinkTypeOK
  <2>3. uplink[h][i].request # undefined
    BY <2>2, CallsAssumption DEF Upward
  <2> QED BY <2>1, <2>3 DEF Waiting
<1>6. \A i \in 1..d : IsAnswer(h, i) => DownId(h, i) \in Waiting(h)
  BY <1>1 DEF CallsInOrder, Waiting
<1>7. \A i \in 1..n, j \in 1..d : IsAnswer(h, j) => DownId(h, j) # UpId(h, i)
  BY <1>1, <1>5 DEF CallsInOrder, Waiting
<1>8. \A i, j \in 1..n : UpId(h, i) = UpId(h, j) => i = j
  <2>1. \A i, j \in 1..n : i < j \/ j < i \/ i = j
    BY <1>2
  <2>2. \A i \in 1..n : UpId(h, i) \in Int
    BY <1>5 DEF Waiting
  <2> QED BY <2>1, <2>2, <1>1 DEF CallsInOrder
<1>9. \A i, j \in 1..d :
         IsAnswer(h, i) /\ IsAnswer(h, j) /\ DownId(h, i) = DownId(h, j) => i = j
  <2>1. \A i, j \in 1..d : i < j \/ j < i \/ i = j
    BY <1>2
  <2>2. \A i \in 1..d : IsAnswer(h, i) => DownId(h, i) \in Int
    BY <1>6 DEF Waiting
  <2> QED BY <2>1, <2>2, <1>1 DEF CallsInOrder
<1>10. call \in [Travelling(h) -> Waiting(h)]
  BY <1>3, <1>4, <1>5, <1>6
<1>11. \A k, m \in Travelling(h) : k.id = m.id => k = m
  BY <1>3, <1>4, <1>7, <1>8, <1>9
<1>12. \A id \in Waiting(h) : \E m \in Travelling(h) : m.id = id
  <2>1. ASSUME NEW id \in Waiting(h)
        PROVE  \E m \in Travelling(h) : m.id = id
    <3>1. \/ \E i \in 1..n : UpId(h, i) = id
          \/ \E i \in 1..d : IsAnswer(h, i) /\ DownId(h, i) = id
      BY <1>1 DEF CallsUnderWay, Waiting
    <3> QED BY <3>1, <1>3, <1>4
  <2> QED BY <2>1
<1>13. {m.id : m \in Travelling(h)} = Waiting(h)
  <2>1. \A m \in Travelling(h) : m.id \in Waiting(h)
    BY <1>10
  <2> QED BY <2>1, <1>12
<1>14. call \in Injection(Travelling(h), Waiting(h))
  <2>1. \A k, m \in Travelling(h) : call[k] = call[m] => k = m
    BY <1>11
  <2> HIDE DEF call
  <2> QED BY <2>1, <1>10 DEF Injection, IsInjective
<1>15. call \in Surjection(Travelling(h), Waiting(h))
  <2>1. \A id \in Waiting(h) : \E m \in Travelling(h) : call[m] = id
    BY <1>12
  <2> HIDE DEF call
  <2> QED BY <2>1, <1>10 DEF Surjection
<1>16. IsFiniteSet(Waiting(h))
  <2>1. MaxCalls[h] \in Nat
    BY CallsAssumption
  <2>2. IsFiniteSet(1..MaxCalls[h])
    BY <2>1, FS_Interval
  <2>3. Waiting(h) \in SUBSET (1..MaxCalls[h])
    BY DEF Waiting
  <2> QED BY <2>2, <2>3, FS_Subset
<1> HIDE DEF call
<1> QED BY <1>13, <1>14, <1>15, <1>16, FS_Injection

(* Whatever becomes of a call at the broker, exactly one message is under   *)
(* way for it until its caller has the answer (dispatcher.ts:23-25,         *)
(* ws-server.ts:46-51, rpc-client.ts:41-73).                                *)
THEOREM CallsAlwaysAccounted == LinkSpec => []CallsAccounted
  BY LinkInductive, Accounted, PTL
-----------------------------------------------------------------------------
(* The seat a client was told of                                            *)

\* The answer at place i of the queue towards h tells it of a new seat.
Moves(h, i) ==
    /\ IsAnswer(h, i) /\ downlink[h][i].outcome = "ok"
    /\ pending[h][DownId(h, i)].method \in {"join", "leave"}

LastMove(h, i) ==
    Moves(h, i) /\ \A j \in (i + 1)..Len(downlink[h]) : ~Moves(h, j)

SeatTold(h, i) == SeatAfter(h, pending[h][DownId(h, i)], undefined)

\* h sits where the last answer that moves it will say, or, if none is on its
\* way, where it was told.
SeatKnown(h) ==
    socket[h] = "open" =>
        /\ (\A i \in 1..Len(downlink[h]) : ~Moves(h, i)) =>
              membership[h] = toldSeat[h]
        /\ \A i \in 1..Len(downlink[h]) :
              LastMove(h, i) => membership[h] = SeatTold(h, i)

SeatsKnown == \A h \in Handles : SeatKnown(h)

LEMMA SeatsKnownInit == LinkInit => SeatsKnown
  BY DEF LinkInit, SeatsKnown, SeatKnown

LEMMA SeatsKnownAsTold == LinkTypeOK /\ CallsInv /\ SeatsKnown => SeatAsTold
<1> SUFFICES ASSUME LinkTypeOK, CallsInv, SeatsKnown, NEW h \in Handles,
                    socket[h] = "open",
                    \A id \in Waiting(h) : pending[h][id].method \notin {"join", "leave"}
             PROVE  membership[h] = toldSeat[h]
  BY DEF SeatAsTold
<1>1. \A i \in 1..Len(downlink[h]) : ~Moves(h, i)
  BY DEF Moves, CallsInv, CallsInOrder, Waiting
<1> QED BY <1>1 DEF SeatsKnown, SeatKnown

(* Only new answers that move it matter.                                    *)
LEMMA SeatUnmoved ==
    ASSUME LinkTypeOK, SeatsKnown, NEW g \in Handles,
           socket'[g] = socket[g], membership'[g] = membership[g],
           toldSeat'[g] = toldSeat[g],
           Len(downlink'[g]) \in Nat, Len(downlink[g]) <= Len(downlink'[g]),
           \A i \in 1..Len(downlink[g]) :
              /\ downlink'[g][i] = downlink[g][i]
              /\ IsAnswer(g, i) =>
                    pending'[g][DownId(g, i)] = pending[g][DownId(g, i)],
           \A i \in (Len(downlink[g]) + 1)..Len(downlink'[g]) : ~Moves(g, i)'
    PROVE  SeatKnown(g)'
<1> DEFINE before == Len(downlink[g])
           after == Len(downlink'[g])
<1>1. before \in Nat /\ SeatKnown(g)
  BY DEF LinkTypeOK, SeatsKnown
<1>2. \A i \in 1..before : Moves(g, i)' = Moves(g, i)
  BY DEF Moves, IsAnswer, DownId
<1>3. ASSUME NEW i \in 1..before, Moves(g, i)
      PROVE  SeatTold(g, i)' = SeatTold(g, i)
  <2>1. /\ DownId(g, i)' = DownId(g, i)
        /\ pending'[g][DownId(g, i)] = pending[g][DownId(g, i)]
    BY <1>3 DEF Moves, DownId
  <2> QED BY <2>1 DEF SeatTold, SeatAfter
<1>4. \A i \in 1..after : Moves(g, i)' => i \in 1..before /\ Moves(g, i)
  BY <1>1, <1>2
<1>5. ASSUME socket[g] = "open", \A i \in 1..after : ~Moves(g, i)'
      PROVE  membership[g] = toldSeat[g]
  <2>1. \A i \in 1..before : i \in 1..after
    BY <1>1
  <2> QED BY <1>1, <1>2, <1>5, <2>1 DEF SeatKnown
<1>6. ASSUME socket[g] = "open", NEW i \in 1..after, LastMove(g, i)'
      PROVE  membership[g] = SeatTold(g, i)'
  <2>1. i \in 1..before /\ Moves(g, i)
    BY <1>4, <1>6 DEF LastMove
  <2>2. \A j \in (i + 1)..before : j \in (i + 1)..after /\ j \in 1..before
    BY <1>1, <2>1
  <2>3. LastMove(g, i)
    BY <1>2, <1>6, <2>1, <2>2 DEF LastMove
  <2> QED BY <1>1, <1>3, <1>6, <2>1, <2>3 DEF SeatKnown
<1>7. (\A i \in 1..after : ~Moves(g, i)') /\ socket[g] = "open"
         => membership'[g] = toldSeat'[g]
  BY <1>5
<1>8. \A i \in 1..after : socket[g] = "open" /\ LastMove(g, i)'
         => membership'[g] = SeatTold(g, i)'
  BY <1>6
<1> QED BY <1>7, <1>8 DEF SeatKnown

(* The caller of a request that is served: a success that moves it is now   *)
(* the last answer on its way.                                              *)
LEMMA SeatKnownServe ==
    ASSUME LinkTypeOK, TypeOK, TypeOK', SocketsAgree, CallsInv, SeatsKnown,
           NEW h \in Handles, Serve(h), NEW g \in Handles
    PROVE  SeatKnown(g)'
<1> DEFINE before == Len(downlink[g])
           after == Len(downlink'[g])
           q == Head(uplink[h]).request
<1>1. PICK outcome \in Outcomes :
         /\ Execute(h, q, outcome)
         /\ socket[g] = "open" =>
               Lengthened(g, Answers(h, g, <<AnswerTo(Head(uplink[h]), outcome)>>))
  BY ServeFacts
<1>2. /\ UNCHANGED <<socket, pending, toldSeat>>
      /\ uplink[h] # <<>> /\ uplink[h] \in Seq(Upward)
  BY ServeFacts
<1>3. SUFFICES ASSUME socket[g] = "open" PROVE SeatKnown(g)'
  BY <1>2 DEF SeatKnown
<1>4. q \in Requests
  BY ServeFacts DEF Upward
<1>5. /\ \A x \in Handles \ {h} : membership'[x] = membership[x]
      /\ membership'[h] = IF outcome = "ok" THEN SeatAfter(h, q, membership[h])
                          ELSE membership[h]
  BY <1>1, <1>4, ExecuteSeats
<1>6. before \in Nat
  BY DEF LinkTypeOK
<1>7. CASE g # h
  <2>1. Lengthened(g, <<>>)
    BY <1>1, <1>3, <1>7 DEF Answers
  <2>2. /\ after \in Nat /\ before <= after
        /\ \A i \in 1..before : downlink'[g][i] = downlink[g][i]
        /\ \A i \in (before + 1)..after : downlink'[g][i].kind = "room_batch"
    BY <2>1 DEF Lengthened
  <2>3. \A i \in (before + 1)..after : ~Moves(g, i)'
    BY <2>2 DEF Moves, IsAnswer
  <2> QED BY <1>2, <1>5, <1>7, <2>2, <2>3, SeatUnmoved
<1>8. CASE g = h
  <2> DEFINE e == AnswerTo(Head(uplink[h]), outcome)
  <2>1. Lengthened(g, <<e>>)
    BY <1>1, <1>3, <1>8 DEF Answers
  <2>2. e.kind = "response" /\ e.id = UpId(h, 1) /\ e.outcome = outcome
    BY <1>2, SeqHead DEF AnswerTo, UpId
  <2>3. <<e>> # <<>> /\ \A x : <<e>> = <<x>> => x = e
    OBVIOUS
  <2> HIDE DEF e
  <2>4. /\ after \in Nat /\ before < after
        /\ \A i \in 1..before : downlink'[g][i] = downlink[g][i]
        /\ \A i \in (before + 1)..after :
              i # after => downlink'[g][i].kind = "room_batch"
        /\ downlink'[g][after] = e
    BY <1>6, <2>1, <2>3 DEF Lengthened
  <2>5. pending[h][UpId(h, 1)] = q
    <3>1. 1 \in 1..Len(uplink[h]) /\ Head(uplink[h]) = uplink[h][1]
      BY <1>2, SeqHead
    <3> QED BY <3>1 DEF CallsInv, CallsInOrder
  <2>10. PICK last \in Nat : last = after
    BY <2>4
  <2>6. /\ Moves(g, last)' <=> outcome = "ok" /\ q.method \in {"join", "leave"}
        /\ SeatTold(g, last)' = SeatAfter(h, q, undefined)
    <3>1. downlink'[g][last] = e
      BY <2>4, <2>10
    <3>2. /\ IsAnswer(g, last)' /\ downlink'[g][last].outcome = outcome
          /\ DownId(g, last)' = UpId(h, 1)
      BY <3>1, <2>2 DEF IsAnswer, DownId
    <3>3. pending'[g][DownId(g, last)'] = q
      BY <3>2, <1>2, <1>8, <2>5
    <3>4. Moves(g, last)' <=> outcome = "ok" /\ q.method \in {"join", "leave"}
      BY <3>2, <3>3 DEF Moves
    <3>5. SeatTold(g, last)' = SeatAfter(h, q, undefined)
      BY <1>8, <3>3 DEF SeatTold, SeatAfter
    <3> QED BY <3>4, <3>5
  <2>7. \A i \in (before + 1)..last : i # last => ~Moves(g, i)'
    BY <2>4, <2>10 DEF Moves, IsAnswer
  <2>8. CASE Moves(g, last)'
    <3>1. membership'[g] = SeatTold(g, last)'
      BY <1>5, <1>8, <2>6, <2>8 DEF SeatAfter
    <3>2. last \in 1..last
      BY <1>6, <2>4, <2>10
    <3>3. ASSUME NEW i \in 1..last, LastMove(g, i)'
          PROVE  i = last
      <4>1. i < last => last \in (i + 1)..last
        BY <2>10
      <4> QED BY <1>6, <2>8, <2>10, <3>3, <4>1 DEF LastMove
    <3> QED BY <2>8, <2>10, <3>1, <3>2, <3>3 DEF SeatKnown
  <2>9. CASE ~Moves(g, last)'
    <3>1. \A i \in (before + 1)..last : ~Moves(g, i)'
      BY <2>7, <2>9
    <3>2. membership'[g] = membership[g]
      BY <1>5, <1>8, <2>6, <2>9 DEF SeatAfter
    <3> QED BY <1>2, <2>4, <2>10, <3>1, <3>2, SeatUnmoved
  <2> QED BY <2>8, <2>9
<1> QED BY <1>7, <1>8

(* A client that reads an answer learns its seat from it.                   *)
LEMMA SeatKnownReceive ==
    ASSUME LinkTypeOK, SocketsAgree, CallsInv, SeatsKnown,
           NEW h \in Handles, Receive(h)
    PROVE  SeatKnown(h)'
<1> DEFINE n == Len(downlink[h])
           first == DownId(h, 1)
           q == pending[h][first]
<1>1. /\ n \in Nat \ {0} /\ Len(downlink'[h]) = n - 1
      /\ \A i \in 1..n - 1 : downlink'[h][i] = downlink[h][i + 1]
      /\ UNCHANGED <<socket, vars>>
  BY ReceiveFacts
<1>2. membership' = membership
  BY <1>1 DEF vars, connectionVars
<1>3. SUFFICES ASSUME socket[h] = "open" PROVE SeatKnown(h)'
  BY <1>1 DEF SeatKnown
<1>4. CallsInOrder(h) /\ SeatKnown(h)
  BY DEF CallsInv, SeatsKnown
<1>5. /\ IF Moves(h, 1) THEN toldSeat'[h] = SeatTold(h, 1)
         ELSE toldSeat'[h] = toldSeat[h]
      /\ \A i \in 2..n : IsAnswer(h, i) =>
            pending'[h][DownId(h, i)] = pending[h][DownId(h, i)]
  <2>1. CASE downlink[h][1] \in Response /\ Settle(h, downlink[h][1])
    <3>1. IsAnswer(h, 1)
      BY <2>1 DEF Response, IsAnswer
    <3>2. first \in 1..MaxCalls[h] /\ q # undefined
      BY <3>1, <1>1, <1>4 DEF CallsInOrder
    <3>3. /\ pending' = [pending EXCEPT ![h] = [pending[h] EXCEPT ![first] = undefined]]
          /\ toldSeat' =
               [toldSeat EXCEPT ![h] =
                  IF downlink[h][1].outcome # "ok" THEN @
                  ELSE IF q.method = "join"
                  THEN Seat(CHOOSE r \in MayJoin[h] : TRUE, q.name)
                  ELSE IF q.method = "leave" THEN undefined ELSE @]
      BY <2>1, <3>2 DEF Settle, DownId
    <3> HIDE DEF first
    <3>4. pending'[h] = [pending[h] EXCEPT ![first] = undefined]
      BY <3>3 DEF LinkTypeOK
    <3>5. \A i \in 2..n : IsAnswer(h, i) =>
             DownId(h, i) \in 1..MaxCalls[h] /\ first < DownId(h, i)
      BY <1>1, <1>4, <3>1 DEF CallsInOrder, first
    <3>6. \A i \in 2..n : IsAnswer(h, i) =>
             pending'[h][DownId(h, i)] = pending[h][DownId(h, i)]
      BY <3>2, <3>4, <3>5 DEF LinkTypeOK
    <3> HIDE DEF q
    <3>7. toldSeat'[h] =
             IF downlink[h][1].outcome # "ok" THEN toldSeat[h]
             ELSE IF q.method = "join"
             THEN Seat(CHOOSE r \in MayJoin[h] : TRUE, q.name)
             ELSE IF q.method = "leave" THEN undefined ELSE toldSeat[h]
      BY <3>3 DEF LinkTypeOK
    <3>8. /\ Moves(h, 1) <=> /\ downlink[h][1].outcome = "ok"
                             /\ q.method \in {"join", "leave"}
          /\ SeatTold(h, 1) = SeatAfter(h, q, undefined)
      BY <3>1 DEF Moves, SeatTold, first, q
    <3> QED BY <3>6, <3>7, <3>8 DEF SeatAfter
  <2>2. CASE downlink[h][1] \in Notification /\ UNCHANGED <<pending, toldSeat>>
    BY <2>2 DEF Notification, Moves, IsAnswer
  <2> QED BY <2>1, <2>2, ReceiveFacts
<1>6. \A i \in 1..n - 1 :
         /\ i + 1 \in 2..n
         /\ Moves(h, i)' <=> Moves(h, i + 1)
         /\ Moves(h, i + 1) => SeatTold(h, i)' = SeatTold(h, i + 1)
  <2>1. SUFFICES ASSUME NEW i \in 1..n - 1
                 PROVE  /\ i + 1 \in 2..n
                        /\ Moves(h, i)' <=> Moves(h, i + 1)
                        /\ Moves(h, i + 1) => SeatTold(h, i)' = SeatTold(h, i + 1)
    OBVIOUS
  <2>2. i + 1 \in 2..n /\ downlink'[h][i] = downlink[h][i + 1]
    BY <1>1
  <2>3. CASE IsAnswer(h, i + 1)
    <3>1. pending'[h][downlink[h][i + 1].id] = pending[h][downlink[h][i + 1].id]
      BY <1>5, <2>2, <2>3 DEF DownId
    <3> QED BY <2>2, <2>3, <3>1 DEF Moves, IsAnswer, DownId, SeatTold, SeatAfter
  <2>4. CASE ~IsAnswer(h, i + 1)
    BY <2>2, <2>4 DEF Moves, IsAnswer
  <2> QED BY <2>3, <2>4
<1>7. ASSUME \A i \in 1..n - 1 : ~Moves(h, i)'
      PROVE  membership[h] = toldSeat'[h]
  <2>1. ASSUME NEW i \in 2..n PROVE ~Moves(h, i)
    <3>1. i - 1 \in 1..n - 1 /\ (i - 1) + 1 = i
      BY <1>1
    <3>2. Moves(h, i - 1)' <=> Moves(h, (i - 1) + 1)
      BY <1>6, <3>1
    <3> QED BY <1>7, <3>1, <3>2
  <2>2. CASE Moves(h, 1)
    <3>1. LastMove(h, 1)
      BY <2>1, <2>2 DEF LastMove
    <3> QED BY <1>1, <1>3, <1>4, <1>5, <2>2, <3>1 DEF SeatKnown
  <2>3. CASE ~Moves(h, 1)
    <3>1. \A i \in 1..n : ~Moves(h, i)
      BY <1>1, <2>1, <2>3
    <3> QED BY <1>3, <1>4, <1>5, <2>3, <3>1 DEF SeatKnown
  <2> QED BY <2>2, <2>3
<1>8. ASSUME NEW i \in 1..n - 1, LastMove(h, i)'
      PROVE  membership[h] = SeatTold(h, i)'
  <2>1. Moves(h, i + 1) /\ i + 1 \in 1..n
    BY <1>1, <1>6, <1>8 DEF LastMove
  <2>2. ASSUME NEW j \in (i + 2)..n PROVE ~Moves(h, j)
    <3>1. j - 1 \in (i + 1)..(n - 1) /\ j - 1 \in 1..n - 1 /\ (j - 1) + 1 = j
      BY <1>1
    <3>2. ~Moves(h, j - 1)'
      BY <1>1, <1>8, <3>1 DEF LastMove
    <3>3. Moves(h, j - 1)' <=> Moves(h, (j - 1) + 1)
      BY <1>6, <3>1
    <3> QED BY <3>1, <3>2, <3>3
  <2>3. LastMove(h, i + 1)
    BY <2>1, <2>2 DEF LastMove
  <2> QED BY <1>3, <1>4, <1>6, <2>1, <2>3 DEF SeatKnown
<1> QED BY <1>1, <1>2, <1>7, <1>8 DEF SeatKnown

LEMMA SeatsKnownStep ==
    ASSUME LinkTypeOK, TypeOK, TypeOK', SocketsAgree, SeatsAgree, CallsInv,
           SeatsKnown, [LinkNext]_linkVars
    PROVE  SeatsKnown'
<1>0. \A g \in Handles : Len(downlink[g]) \in Nat
  BY DEF LinkTypeOK
<1>1. ASSUME NEW h \in Handles, Serve(h), NEW g \in Handles
      PROVE  SeatKnown(g)'
  BY <1>1, SeatKnownServe
<1>2. ASSUME NEW h \in Handles, Wake(h), NEW g \in Handles
      PROVE  SeatKnown(g)'
  <2>1. /\ UNCHANGED <<socket, pending, toldSeat, membership>>
        /\ socket[g] = "open" => Lengthened(g, <<>>)
    BY <1>2, WakeFacts DEF FlushBatch, connectionVars
  <2>2. CASE socket[g] = "open"
    <3>1. /\ Len(downlink'[g]) \in Nat /\ Len(downlink[g]) <= Len(downlink'[g])
          /\ \A i \in 1..Len(downlink[g]) : downlink'[g][i] = downlink[g][i]
          /\ \A i \in (Len(downlink[g]) + 1)..Len(downlink'[g]) :
                downlink'[g][i].kind = "room_batch"
      BY <2>1, <2>2 DEF Lengthened
    <3>2. \A i \in (Len(downlink[g]) + 1)..Len(downlink'[g]) : ~Moves(g, i)'
      BY <3>1 DEF Moves, IsAnswer
    <3> QED BY <2>1, <3>1, <3>2, SeatUnmoved
  <2>3. CASE socket[g] # "open"
    BY <2>1, <2>3 DEF SeatKnown
  <2> QED BY <2>2, <2>3
<1>3. ASSUME NEW g \in Handles, UNCHANGED <<socket, membership>>,
             downlink'[g] = downlink[g], toldSeat'[g] = toldSeat[g],
             \A i \in 1..Len(downlink[g]) : IsAnswer(g, i) =>
                pending'[g][DownId(g, i)] = pending[g][DownId(g, i)]
      PROVE  SeatKnown(g)'
  <2>1. \A i \in (Len(downlink[g]) + 1)..Len(downlink[g]) : FALSE
    BY <1>0
  <2> QED BY <1>0, <1>3, <2>1, SeatUnmoved
<1>4. ASSUME NEW h \in Handles, Receive(h), NEW g \in Handles
      PROVE  SeatKnown(g)'
  <2>1. CASE g = h
    BY <1>4, <2>1, SeatKnownReceive
  <2>2. CASE g # h
    <3>1. /\ UNCHANGED <<socket, membership>>
          /\ downlink' = [downlink EXCEPT ![h] = Tail(downlink[h])]
      BY <1>4, ReceiveFacts DEF vars, connectionVars
    <3>2. pending'[g] = pending[g] /\ toldSeat'[g] = toldSeat[g]
      BY <1>4, <2>2 DEF Receive, Settle, Notify, callVars, LinkTypeOK
    <3>3. downlink'[g] = downlink[g]
      BY <2>2, <3>1 DEF LinkTypeOK
    <3> QED BY <1>3, <3>1, <3>2, <3>3
  <2> QED BY <2>1, <2>2
<1>5. ASSUME NEW h \in Handles, NEW q \in Asks[h], Call(h, q), NEW g \in Handles
      PROVE  SeatKnown(g)'
  <2>1. /\ UNCHANGED <<socket, membership, downlink, toldSeat>>
        /\ pending' = [pending EXCEPT ![h] =
                          [pending[h] EXCEPT ![nextCallId[h]] = q]]
    BY <1>5, CallFacts DEF vars, connectionVars
  <2>2. ASSUME NEW i \in 1..Len(downlink[g]), IsAnswer(g, i)
        PROVE  pending'[g][DownId(g, i)] = pending[g][DownId(g, i)]
    <3>1. DownId(g, i) \in 1..MaxCalls[g] /\ DownId(g, i) < nextCallId[g]
      BY <2>2 DEF CallsInv, CallsInOrder
    <3>2. DownId(g, i) # nextCallId[g]
      BY <3>1 DEF LinkTypeOK
    <3>3. CASE g = h
      <4>1. pending'[g] = [pending[h] EXCEPT ![nextCallId[h]] = q]
        BY <2>1, <3>3 DEF LinkTypeOK
      <4> QED BY <3>1, <3>2, <3>3, <4>1 DEF LinkTypeOK
    <3>4. CASE g # h
      BY <2>1, <3>4 DEF LinkTypeOK
    <3> QED BY <3>3, <3>4
  <2> QED BY <1>3, <2>1, <2>2
<1>6. ASSUME NEW h \in Handles, Open(h) \/ Close(h) \/ CloseSeen(h),
             NEW g \in Handles
      PROVE  SeatKnown(g)'
  <2>1. UNCHANGED <<pending, toldSeat>>
    BY <1>6 DEF Open, Close, CloseSeen, clientVars, callVars
  <2>2. CASE g # h
    <3>1. /\ downlink'[g] = downlink[g] /\ socket'[g] = socket[g]
      BY <1>6, <2>2 DEF Open, Close, CloseSeen, LinkTypeOK
    <3>2. membership'[g] = membership[g]
      BY <1>6, <2>2 DEF Open, Connect, Close, CloseSeen, Disconnect, ReleaseSeat,
                        Unseat, vars, connectionVars, TypeOK
    <3>3. \A i \in (Len(downlink[g]) + 1)..Len(downlink[g]) : FALSE
      BY <1>0
    <3> QED BY <1>0, <2>1, <3>1, <3>2, <3>3, SeatUnmoved
  <2>3. CASE g = h /\ Open(h)
    <3>1. connections[h] = "new" /\ socket[h] = "none" /\ membership' = membership
      BY <2>3 DEF Open, Connect, SocketsAgree
    <3>2. membership[h] = undefined
      BY <3>1 DEF SeatsAgree
    <3>3. toldSeat[h] = undefined /\ downlink[h] = <<>> /\ downlink' = downlink
      BY <2>3, <3>1 DEF SocketsAgree, Open
    <3>4. \A i : i \notin 1..Len(downlink'[h])
      BY <3>3
    <3> QED BY <2>1, <2>3, <3>1, <3>2, <3>3, <3>4 DEF SeatKnown
  <2>4. CASE g = h /\ (Close(h) \/ CloseSeen(h))
    <3>1. socket'[g] # "open"
      BY <2>4 DEF Close, CloseSeen, LinkTypeOK
    <3> QED BY <3>1 DEF SeatKnown
  <2> QED BY <1>6, <2>2, <2>3, <2>4
<1>7. ASSUME PassTime \/ UNCHANGED linkVars, NEW g \in Handles
      PROVE  SeatKnown(g)'
  <2>1. UNCHANGED <<socket, membership, downlink, toldSeat, pending>>
    BY <1>7 DEF PassTime, Tick, linkVars, clientVars, callVars, vars, connectionVars
  <2> QED BY <1>3, <2>1
<1>8. \A g \in Handles : SeatKnown(g)'
  BY <1>1, <1>2, <1>4, <1>5, <1>6, <1>7 DEF LinkNext
<1> QED BY <1>8 DEF SeatsKnown

(* A client is never wrong about its seat, although its calls overlap and   *)
(* the broker may refuse any of them (rpc-client.ts:41-73,                  *)
(* dispatcher.ts:27-66).                                                    *)
THEOREM SeatAlwaysAsTold == LinkSpec => []SeatAsTold
<1>1. LinkSpec => []SeatsAgree
  BY LinkImplementsBroker, SeatsAlwaysAgree, PTL
<1>2. LinkSpec => []SeatsKnown
  BY <1>1, LinkInductive, SeatsKnownInit, SeatsKnownStep, PTL DEF LinkSpec
<1> QED BY <1>2, LinkInductive, SeatsKnownAsTold, PTL
-----------------------------------------------------------------------------
(* What the broker's end does for one client: nothing, a new message queued *)
(* or sent at once, or a batch sent.                                        *)

\* Only an open connection has anything waiting or sent.
OutboxesOpen ==
    \A h \in Handles :
        /\ pendingBatches[h] # undefined => Batching /\ connections[h] = "open"
        /\ connections[h] # "open" => sent[h] = <<>>

Quiet(g) == pendingBatches'[g] = pendingBatches[g] /\ sent'[g] = sent[g]

\* m is said in this step, in the room where g sits.
NewFor(g, m) ==
    /\ m \in Message /\ membership[g] # undefined /\ m.roomId \in MayJoin[g]
    /\ m.id = nextId[m.roomId] /\ nextId'[m.roomId] = m.id + 1

Enqueues(g) ==
    /\ pendingBatches'[g] # undefined /\ sent'[g] = sent[g] /\ Batching
    /\ connections[g] = "open"
    /\ \E m : NewFor(g, m) /\ Queued(g)' = Append(Queued(g), m)

SendsNew(g) ==
    /\ pendingBatches[g] = undefined /\ pendingBatches'[g] = undefined
    /\ connections[g] = "open"
    /\ \E m : /\ NewFor(g, m)
              /\ sent'[g] = Append(sent[g], [roomId |-> m.roomId, messages |-> <<m>>])

Flushes(g) ==
    /\ pendingBatches[g] # undefined /\ pendingBatches'[g] = undefined
    /\ connections[g] = "open"
    /\ sent'[g] = Append(sent[g], [roomId |-> pendingBatches[g].roomId,
                                   messages |-> Queued(g)])

LEMMA SpeakOutbox ==
    ASSUME TypeOK, SeatsAgree, SeatsAsked, OutboxesOpen,
           NEW h \in Handles, NEW mentions \in MentionSets, Speak(h, mentions)
    PROVE  /\ \A r \in RoomIds : nextId[r] <= nextId'[r]
           /\ \A g \in Handles : Quiet(g) \/ Enqueues(g) \/ SendsNew(g)
<1> DEFINE r == membership[h].roomId
           n == membership[h].name
           m == [id |-> nextId[r], roomId |-> r, from |-> n]
           targets == ResolveTargets(r, n, mentions)
<1>1. /\ r \in RoomIds /\ n \in Names
      /\ nextId' = [nextId EXCEPT ![r] = nextId[r] + 1]
      /\ Push(m, targets)
  BY JoinedFacts DEF Speak, SpeakAdmitted
<1>2. m \in Message /\ m.roomId = r /\ m.id = nextId[r]
  BY <1>1 DEF Message, TypeOK
<1>3. targets \in SUBSET Names
  BY <1>1 DEF ResolveTargets, TypeOK
<1>4. m.id = nextId[m.roomId] /\ nextId'[m.roomId] = m.id + 1
  BY <1>1, <1>2 DEF TypeOK
<1> HIDE DEF m, targets
<1>5. ASSUME NEW g \in Handles, g \in Recipients(m, targets)
      PROVE  NewFor(g, m) /\ connections[g] = "open"
  <2>1. PICK t \in targets : g = memberToHandle[Seat(m.roomId, t)]
    BY <1>5 DEF Recipients
  <2>2. /\ Seat(m.roomId, t) \in Seats /\ Seat(m.roomId, t).roomId = m.roomId
        /\ Seat(m.roomId, t) # undefined
    BY <1>1, <1>2, <1>3, SeatType, BrokerAssumption
  <2>3. membership[g] = Seat(m.roomId, t)
    BY <2>1, <2>2, BrokerAssumption DEF SeatsAgree
  <2>4. connections[g] = "open" /\ m.roomId \in MayJoin[g]
    BY <2>2, <2>3 DEF SeatsAgree, SeatsAsked
  <2> QED BY <1>2, <1>4, <2>2, <2>3, <2>4 DEF NewFor
<1>6. ASSUME NEW g \in Handles
      PROVE  Quiet(g) \/ Enqueues(g) \/ SendsNew(g)
  <2>1. CASE g \notin Recipients(m, targets)
    BY <1>1, <2>1 DEF Push, Quiet
  <2>2. CASE g \in Recipients(m, targets) /\ ~Batching
    <3>1. /\ pendingBatches'[g] = pendingBatches[g] /\ pendingBatches[g] = undefined
          /\ sent'[g] = Append(sent[g], [roomId |-> m.roomId, messages |-> <<m>>])
      BY <1>1, <1>5, <2>2 DEF Push, OutboxesOpen
    <3> QED BY <1>5, <2>2, <3>1 DEF SendsNew
  <2>3. CASE g \in Recipients(m, targets) /\ Batching
    <3>1. pendingBatches'[g] = Enqueued(g, m) /\ sent'[g] = sent[g]
      BY <1>1, <2>3 DEF Push
    <3>2. /\ Enqueued(g, m) \in PendingBatch
          /\ Enqueued(g, m).messages = Append(Queued(g), m)
      <4>1. CASE pendingBatches[g] = undefined
        <5>1. <<m>> \in Seq(Message) /\ Append(<<>>, m) = <<m>>
          BY <1>2
        <5> QED BY <1>1, <1>2, <4>1, <5>1 DEF Enqueued, PendingBatch, Queued
      <4>2. CASE pendingBatches[g] # undefined
        <5>1. /\ pendingBatches[g] \in PendingBatch
              /\ pendingBatches[g].messages \in Seq(Message)
          BY <4>2 DEF TypeOK, PendingBatch
        <5>2. Append(pendingBatches[g].messages, m) \in Seq(Message)
          BY <1>2, <5>1
        <5> QED BY <4>2, <5>1, <5>2 DEF Enqueued, PendingBatch, Queued
      <4> QED BY <4>1, <4>2
    <3>3. pendingBatches'[g] # undefined
      BY <3>1, <3>2, BrokerAssumption
    <3>4. Queued(g)' = Append(Queued(g), m)
      BY <3>1, <3>2, <3>3 DEF Queued
    <3> QED BY <1>5, <2>3, <3>1, <3>3, <3>4 DEF Enqueues
  <2> QED BY <2>1, <2>2, <2>3
<1>7. \A x \in RoomIds : nextId[x] <= nextId'[x]
  BY <1>1 DEF TypeOK
<1> QED BY <1>6, <1>7

LEMMA WakeFlushes ==
    ASSUME LinkTypeOK, TypeOK, TypeOK', OutboxesOpen, NEW h \in Handles, Wake(h)
    PROVE  /\ UNCHANGED <<connections, membership, nextId, history>>
           /\ Flushes(h)
           /\ \A g \in Handles \ {h} : Quiet(g)
<1>1. FlushBatch(h)
  BY WakeFacts
<1>2. /\ pendingBatches[h] # undefined
      /\ pendingBatches' = [pendingBatches EXCEPT ![h] = undefined]
      /\ UNCHANGED <<connections, membership, nextId, history>>
  BY <1>1 DEF FlushBatch, connectionVars, roomVars
<1>3. connections[h] = "open"
  BY <1>2 DEF OutboxesOpen
<1>4. sent' = [sent EXCEPT ![h] =
                 Append(sent[h], [roomId |-> pendingBatches[h].roomId,
                                  messages |-> Queued(h)])]
  BY <1>1, <1>2, <1>3 DEF FlushBatch, Queued
<1>5. Flushes(h)
  BY <1>2, <1>3, <1>4 DEF Flushes, TypeOK
<1>6. \A g \in Handles \ {h} : Quiet(g)
  BY <1>2, <1>4 DEF Quiet, TypeOK
<1> QED BY <1>2, <1>5, <1>6

LEMMA OutboxStep ==
    ASSUME LinkTypeOK, TypeOK, TypeOK', SeatsAgree, SeatsAsked, OutboxesOpen,
           NEW h \in Handles, Serve(h) \/ Wake(h)
    PROVE  /\ connections' = connections
           /\ \A r \in RoomIds : nextId[r] <= nextId'[r]
           /\ \A g \in Handles :
                 Quiet(g) \/ Enqueues(g) \/ SendsNew(g) \/ Flushes(g)
<1>1. \A r \in RoomIds : nextId[r] \in Nat
  BY DEF TypeOK
<1>2. CASE Serve(h)
  <2> DEFINE q == Head(uplink[h]).request
  <2>1. PICK outcome \in Outcomes : Execute(h, q, outcome)
    BY <1>2, ServeFacts
  <2>2. q \in Requests
    BY <1>2, ServeFacts DEF Upward
  <2>3. connections' = connections
    BY <2>1, <2>2, ExecuteSeats
  <2> HIDE DEF q
  <2>4. CASE Speak(h, q.mentions) /\ q.method = "speak"
    <3>1. q.mentions \in MentionSets
      BY <2>2, <2>4, RequestFacts
    <3> QED BY <2>3, <2>4, <3>1, SpeakOutbox
  <2>5. CASE UNCHANGED <<pendingBatches, sent, nextId>>
    BY <1>1, <2>3, <2>5 DEF Quiet
  <2>6. \/ Speak(h, q.mentions) /\ q.method = "speak"
        \/ UNCHANGED <<pendingBatches, sent, nextId>>
    BY <2>1 DEF Execute, Unjoined, Join, JoinRefused, Leave, Unseat,
       SpeakRateLimited, SpeakRoomFull, ReadHistory, ListMembers, vars,
       pushVars, roomVars
  <2> QED BY <2>4, <2>5, <2>6
<1>3. CASE Wake(h)
  BY <1>1, <1>3, WakeFlushes
<1> QED BY <1>2, <1>3

LEMMA OutboxesOpenInit == LinkInit => OutboxesOpen
  BY DEF LinkInit, Init, OutboxesOpen

LEMMA OutboxesOpenStep ==
    ASSUME LinkTypeOK, TypeOK, TypeOK', SeatsAgree, SeatsAsked, OutboxesOpen,
           [LinkNext]_linkVars
    PROVE  OutboxesOpen'
<1>1. ASSUME NEW h \in Handles, Serve(h) \/ Wake(h)
      PROVE  OutboxesOpen'
  <2>1. /\ connections' = connections
        /\ \A g \in Handles :
              Quiet(g) \/ Enqueues(g) \/ SendsNew(g) \/ Flushes(g)
    BY <1>1, OutboxStep
  <2> QED BY <2>1 DEF OutboxesOpen, Quiet, Enqueues, SendsNew, Flushes
<1>2. ASSUME NEW h \in Handles, Open(h)
      PROVE  OutboxesOpen'
  BY <1>2 DEF Open, Connect, pushVars, OutboxesOpen, TypeOK
<1>3. ASSUME NEW h \in Handles, CloseSeen(h)
      PROVE  OutboxesOpen'
  BY <1>3 DEF CloseSeen, Disconnect, OutboxesOpen, TypeOK
<1>4. ASSUME NEW h \in Handles,
             \/ Close(h) \/ Receive(h)
             \/ \E q \in Asks[h] : Call(h, q)
      PROVE  OutboxesOpen'
  BY <1>4 DEF Close, Receive, Call, vars, connectionVars, pushVars, OutboxesOpen
<1>5. CASE PassTime \/ UNCHANGED linkVars
  BY <1>5 DEF PassTime, Tick, linkVars, vars, connectionVars, pushVars, OutboxesOpen
<1> QED BY <1>1, <1>2, <1>3, <1>4, <1>5 DEF LinkNext

\* The queue towards g holds what it held, then the notification of the batch
\* sent in this step if there is one, then answers.
LEMMA NewsStep ==
    ASSUME LinkTypeOK, TypeOK, TypeOK', SeatsAgree, SeatsAsked, OutboxesOpen,
           NEW h \in Handles, Serve(h) \/ Wake(h),
           NEW g \in Handles, socket[g] = "open"
    PROVE  LET before == Len(downlink[g])
               after == Len(downlink'[g])
           IN  /\ before \in Nat /\ after \in Nat /\ before <= after
               /\ \A i \in 1..before : downlink'[g][i] = downlink[g][i]
               /\ \/ /\ Quiet(g) \/ Enqueues(g)
                     /\ \A i \in (before + 1)..after :
                           downlink'[g][i].kind = "response"
                  \/ /\ SendsNew(g) \/ Flushes(g)
                     /\ before + 1 <= after
                     /\ downlink'[g][before + 1].kind = "room_batch"
                     /\ sent'[g] = Append(sent[g], downlink'[g][before + 1].batch)
                     /\ \A i \in (before + 2)..after :
                           downlink'[g][i].kind = "response"
<1> DEFINE before == Len(downlink[g])
           after == Len(downlink'[g])
           notified == Len(sent'[g]) > Len(sent[g])
<1>1. before \in Nat /\ Len(sent[g]) \in Nat /\ sent[g] \in Seq(Batch)
  BY DEF LinkTypeOK, TypeOK
<1>2. PICK answers : /\ Lengthened(g, answers)
                     /\ \A x : answers = <<x>> => x.kind = "response"
  <2>1. CASE Wake(h)
    <3>1. \A x : <<>> # <<x>>
      OBVIOUS
    <3> QED BY <2>1, <3>1, WakeFacts
  <2>2. CASE Serve(h)
    <3>1. PICK outcome \in Outcomes :
             Lengthened(g, Answers(h, g, <<AnswerTo(Head(uplink[h]), outcome)>>))
      BY <2>2, ServeFacts
    <3> DEFINE e == AnswerTo(Head(uplink[h]), outcome)
    <3>2. e.kind = "response"
      BY DEF AnswerTo
    <3> HIDE DEF e
    <3>3. \A x : /\ <<>> # <<x>>
                /\ <<e>> = <<x>> => x.kind = "response"
      BY <3>2
    <3>4. \A x : Answers(h, g, <<e>>) = <<x>> => x.kind = "response"
      BY <3>3 DEF Answers
    <3> QED BY <3>1, <3>4 DEF e
  <2> QED BY <2>1, <2>2
<1>3. /\ after \in Nat /\ before <= after
      /\ \A i \in 1..before : downlink'[g][i] = downlink[g][i]
      /\ notified => /\ before + 1 <= after
                     /\ downlink'[g][before + 1].kind = "room_batch"
      /\ \A i \in (before + 1)..after :
            \/ /\ notified /\ i = before + 1
               /\ downlink'[g][i].batch = sent'[g][Len(sent'[g])]
            \/ answers = <<downlink'[g][i]>>
  BY <1>2 DEF Lengthened
<1>4. \A i \in (before + 1)..after :
         \/ /\ notified /\ i = before + 1
            /\ downlink'[g][i].batch = sent'[g][Len(sent'[g])]
         \/ downlink'[g][i].kind = "response"
  BY <1>2, <1>3
<1>5. CASE Quiet(g) \/ Enqueues(g)
  <2>1. ~notified
    BY <1>1, <1>5 DEF Quiet, Enqueues
  <2> QED BY <1>1, <1>3, <1>4, <1>5, <2>1
<1>6. CASE SendsNew(g) \/ Flushes(g)
  <2>1. PICK batch : sent'[g] = Append(sent[g], batch)
    BY <1>6 DEF SendsNew, Flushes
  <2>2. notified /\ sent'[g][Len(sent'[g])] = batch
    BY <1>1, <2>1
  <2>3. /\ before + 1 \in (before + 1)..after
        /\ downlink'[g][before + 1].kind = "room_batch"
    BY <1>1, <1>3, <2>2
  <2>4. downlink'[g][before + 1].batch = batch
    BY <1>4, <2>2, <2>3
  <2>5. \A i \in (before + 2)..after : downlink'[g][i].kind = "response"
    BY <1>1, <1>4
  <2> HIDE DEF before, after
  <2> QED BY <1>1, <1>3, <1>6, <2>1, <2>3, <2>4, <2>5 DEF before, after
<1> QED BY <1>5, <1>6, OutboxStep
-----------------------------------------------------------------------------
(* No session is woken before it knows that it joined                       *)

\* The answer at place i of the queue towards h says that it joined.
JoinOk(h, i) ==
    /\ IsAnswer(h, i) /\ downlink[h][i].outcome = "ok"
    /\ pending[h][DownId(h, i)].method = "join"

\* h knows, or will from the first n items of its queue, that it joined.
Knows(h, n) == welcomed[h] \/ \E i \in 1..n : JoinOk(h, i)

\* A notification comes after the first n items, or may come after all of them.
Expects(h, n) ==
    IF n = Len(downlink[h])
    THEN membership[h] # undefined \/ pendingBatches[h] # undefined
    ELSE downlink[h][n + 1].kind = "room_batch"

JoinKnown(h) ==
    socket[h] = "open" =>
        \A n \in 0..Len(downlink[h]) : Expects(h, n) => Knows(h, n)

JoinsKnown == \A h \in Handles : JoinKnown(h)

LEMMA JoinsKnownFirst == LinkTypeOK /\ SocketsAgree /\ JoinsKnown => JoinAnsweredFirst
<1> SUFFICES ASSUME LinkTypeOK, SocketsAgree, JoinsKnown,
                    NEW h \in Handles, NEW i \in DOMAIN downlink[h],
                    downlink[h][i].kind = "room_batch"
             PROVE  \/ welcomed[h]
                    \/ \E j \in 1..(i - 1) :
                          /\ downlink[h][j].kind = "response"
                          /\ downlink[h][j].outcome = "ok"
                          /\ pending[h][downlink[h][j].id].method = "join"
  BY DEF JoinAnsweredFirst
<1>1. i \in 1..Len(downlink[h]) /\ Len(downlink[h]) \in Nat
  BY DEF LinkTypeOK
<1>2. socket[h] = "open"
  BY <1>1 DEF SocketsAgree
<1>3. i - 1 \in 0..Len(downlink[h]) /\ i - 1 # Len(downlink[h]) /\ (i - 1) + 1 = i
  BY <1>1
<1>4. Expects(h, i - 1)
  BY <1>3 DEF Expects
<1>5. Knows(h, i - 1)
  BY <1>2, <1>3, <1>4 DEF JoinsKnown, JoinKnown
<1> QED BY <1>5 DEF Knows, JoinOk, IsAnswer, DownId

LEMMA JoinsKnownInit == LinkInit => JoinsKnown
  BY DEF LinkInit, JoinsKnown, JoinKnown

(* Whoever sits or is owed a batch has the answer to its join before that;  *)
(* who has just sat down has it last.                                       *)
LEMMA JoinKnownAnswered ==
    ASSUME LinkTypeOK, TypeOK, TypeOK', SocketsAgree, SeatsAgree, SeatsAsked,
           CallsInv, OutboxesOpen, JoinsKnown,
           NEW h \in Handles, Serve(h) \/ Wake(h), NEW g \in Handles
    PROVE  JoinKnown(g)'
<1> DEFINE before == Len(downlink[g])
<1>1. UNCHANGED <<socket, pending, welcomed>>
  BY ServeFacts, WakeFacts
<1>2. SUFFICES ASSUME socket[g] = "open" PROVE JoinKnown(g)'
  BY <1>1 DEF JoinKnown
<1>3. JoinKnown(g) /\ before \in Nat
  BY DEF JoinsKnown, LinkTypeOK
<1>4. PICK after \in Nat :
         /\ after = Len(downlink'[g]) /\ before <= after
         /\ \A i \in 1..before : downlink'[g][i] = downlink[g][i]
         /\ \/ /\ Quiet(g) \/ Enqueues(g)
               /\ \A i \in (before + 1)..after : downlink'[g][i].kind = "response"
            \/ /\ SendsNew(g) \/ Flushes(g)
               /\ \A i \in (before + 2)..after : downlink'[g][i].kind = "response"
  BY <1>2, NewsStep
<1>5. \A i \in 1..before : JoinOk(g, i) => JoinOk(g, i)'
  BY <1>1, <1>4 DEF JoinOk, IsAnswer, DownId
<1>6. ASSUME NEW k \in 0..before, NEW n \in 0..after, k <= n, Knows(g, k)
      PROVE  Knows(g, n)'
  <2>1. \A i \in 1..k : i \in 1..n /\ i \in 1..before
    BY <1>3, <1>6
  <2> QED BY <1>1, <1>5, <1>6, <2>1 DEF Knows
<1>7. membership[g] # undefined \/ pendingBatches[g] # undefined => Knows(g, before)
  BY <1>2, <1>3 DEF JoinKnown, Expects
<1>8. ASSUME membership'[g] # undefined, membership[g] = undefined
      PROVE  Knows(g, after)'
  <2>1. CASE Wake(h)
    <3>1. membership' = membership
      BY <2>1, WakeFacts DEF FlushBatch, connectionVars
    <3> QED BY <1>8, <3>1
  <2>2. CASE Serve(h)
    <3> DEFINE q == Head(uplink[h]).request
    <3>1. PICK outcome \in Outcomes :
             /\ Execute(h, q, outcome)
             /\ Lengthened(g, Answers(h, g, <<AnswerTo(Head(uplink[h]), outcome)>>))
      BY <1>2, <2>2, ServeFacts
    <3>2. q \in Requests
      BY <2>2, ServeFacts DEF Upward
    <3>3. g = h /\ outcome = "ok" /\ SeatAfter(h, q, undefined) # undefined
      BY <1>8, <3>1, <3>2, ExecuteSeats
    <3>4. q.method = "join"
      BY <3>3 DEF SeatAfter
    <3> DEFINE e == AnswerTo(Head(uplink[h]), outcome)
    <3>5. e.kind = "response" /\ e.id = UpId(h, 1) /\ e.outcome = "ok"
      BY <2>2, <3>3, ServeFacts, SeqHead DEF AnswerTo, UpId
    <3>6. Lengthened(g, <<e>>)
      BY <3>1, <3>3 DEF Answers
    <3>7. <<e>> # <<>> /\ \A x : <<e>> = <<x>> => x = e
      OBVIOUS
    <3> HIDE DEF e
    <3>8. downlink'[g][after] = e /\ after \in 1..after
      BY <1>3, <1>4, <3>6, <3>7 DEF Lengthened
    <3>9. pending[h][UpId(h, 1)] = q
      <4>1. 1 \in 1..Len(uplink[h]) /\ Head(uplink[h]) = uplink[h][1]
        BY <2>2, ServeFacts, SeqHead
      <4> QED BY <4>1 DEF CallsInv, CallsInOrder
    <3>10. JoinOk(g, after)'
      BY <1>1, <3>3, <3>4, <3>5, <3>8, <3>9 DEF JoinOk, IsAnswer, DownId
    <3> QED BY <3>8, <3>10 DEF Knows
  <2> QED BY <2>1, <2>2
<1>9. ASSUME NEW n \in 0..after, n # after, downlink'[g][n + 1].kind = "room_batch"
      PROVE  Knows(g, n)'
  <2>1. CASE n < before
    <3>1. n \in 0..before /\ n # before /\ n + 1 \in 1..before
      BY <1>3, <2>1
    <3>2. Expects(g, n)
      BY <1>4, <1>9, <3>1 DEF Expects
    <3>3. Knows(g, n)
      BY <1>2, <1>3, <3>1, <3>2 DEF JoinKnown
    <3> QED BY <1>6, <3>1, <3>3
  <2>2. CASE n >= before
    <3>1. n = before /\ (SendsNew(g) \/ Flushes(g))
      BY <1>3, <1>4, <1>9, <2>2
    <3>2. Knows(g, before)
      BY <1>7, <3>1 DEF SendsNew, NewFor, Flushes
    <3> QED BY <1>3, <1>6, <3>1, <3>2
  <2> QED BY <1>3, <2>1, <2>2
<1>10. ASSUME membership'[g] # undefined \/ pendingBatches'[g] # undefined
       PROVE  Knows(g, after)'
  <2>1. CASE membership'[g] # undefined /\ membership[g] = undefined
    BY <1>8, <2>1
  <2>2. CASE membership[g] # undefined \/ pendingBatches[g] # undefined
    BY <1>3, <1>4, <1>6, <1>7, <2>2
  <2>3. pendingBatches'[g] # undefined =>
           membership[g] # undefined \/ pendingBatches[g] # undefined
    BY <1>4 DEF Quiet, Enqueues, NewFor, SendsNew, Flushes
  <2> QED BY <1>10, <2>1, <2>2, <2>3
<1>11. \A n \in 0..after : Expects(g, n)' => Knows(g, n)'
  BY <1>4, <1>9, <1>10 DEF Expects
<1> QED BY <1>4, <1>11 DEF JoinKnown

LEMMA JoinKnownReceive ==
    ASSUME LinkTypeOK, CallsInv, JoinsKnown, NEW h \in Handles, Receive(h)
    PROVE  JoinKnown(h)'
<1> DEFINE n == Len(downlink[h])
           first == DownId(h, 1)
           q == pending[h][first]
<1>1. /\ n \in Nat \ {0} /\ Len(downlink'[h]) = n - 1
      /\ \A i \in 1..n - 1 : downlink'[h][i] = downlink[h][i + 1]
      /\ UNCHANGED <<socket, vars>>
  BY ReceiveFacts
<1>2. UNCHANGED <<membership, pendingBatches>>
  BY <1>1 DEF vars, connectionVars, pushVars
<1>3. CallsInOrder(h) /\ JoinKnown(h)
  BY DEF CallsInv, JoinsKnown
<1>4. /\ welcomed[h] \/ JoinOk(h, 1) => welcomed'[h]
      /\ \A i \in 2..n : IsAnswer(h, i) =>
            pending'[h][DownId(h, i)] = pending[h][DownId(h, i)]
  <2>1. CASE downlink[h][1] \in Response /\ Settle(h, downlink[h][1])
    <3>1. IsAnswer(h, 1)
      BY <2>1 DEF Response, IsAnswer
    <3>2. first \in 1..MaxCalls[h] /\ q # undefined
      BY <3>1, <1>1, <1>3 DEF CallsInOrder
    <3>3. /\ pending' = [pending EXCEPT ![h] = [pending[h] EXCEPT ![first] = undefined]]
          /\ welcomed' = [welcomed EXCEPT ![h] =
                            @ \/ (q.method = "join" /\ downlink[h][1].outcome = "ok")]
      BY <2>1, <3>2 DEF Settle, DownId
    <3> HIDE DEF first
    <3>4. pending'[h] = [pending[h] EXCEPT ![first] = undefined]
      BY <3>3 DEF LinkTypeOK
    <3>5. \A i \in 2..n : IsAnswer(h, i) =>
             DownId(h, i) \in 1..MaxCalls[h] /\ first < DownId(h, i)
      BY <1>1, <1>3, <3>1 DEF CallsInOrder, first
    <3>6. \A i \in 2..n : IsAnswer(h, i) =>
             pending'[h][DownId(h, i)] = pending[h][DownId(h, i)]
      BY <3>2, <3>4, <3>5 DEF LinkTypeOK
    <3> HIDE DEF q
    <3>7. welcomed'[h] = (welcomed[h] \/ (q.method = "join"
                                          /\ downlink[h][1].outcome = "ok"))
      BY <3>3 DEF LinkTypeOK
    <3>8. JoinOk(h, 1) <=> downlink[h][1].outcome = "ok" /\ q.method = "join"
      BY <3>1 DEF JoinOk, first, q
    <3> QED BY <3>6, <3>7, <3>8
  <2>2. CASE downlink[h][1] \in Notification /\ UNCHANGED <<pending, welcomed>>
    BY <2>2 DEF Notification, JoinOk, IsAnswer
  <2> QED BY <2>1, <2>2, ReceiveFacts
<1>5. ASSUME NEW i \in 1..n - 1, JoinOk(h, i + 1)
      PROVE  JoinOk(h, i)'
  <2>1. i + 1 \in 2..n /\ downlink'[h][i] = downlink[h][i + 1]
    BY <1>1
  <2>2. pending'[h][downlink[h][i + 1].id] = pending[h][downlink[h][i + 1].id]
    BY <1>4, <1>5, <2>1 DEF JoinOk, DownId
  <2> QED BY <1>5, <2>1, <2>2 DEF JoinOk, IsAnswer, DownId
<1>6. ASSUME NEW k \in 0..n - 1, Knows(h, k + 1)
      PROVE  Knows(h, k)'
  <2>1. CASE welcomed[h] \/ JoinOk(h, 1)
    BY <1>4, <2>1 DEF Knows
  <2>2. ASSUME NEW i \in 1..k + 1, i # 1, JoinOk(h, i)
        PROVE  Knows(h, k)'
    <3>1. i - 1 \in 1..k /\ i - 1 \in 1..n - 1 /\ (i - 1) + 1 = i
      BY <1>1, <2>2
    <3>2. JoinOk(h, i - 1)'
      BY <1>5, <2>2, <3>1
    <3> QED BY <3>1, <3>2 DEF Knows
  <2> QED BY <1>6, <2>1, <2>2 DEF Knows
<1>7. ASSUME NEW k \in 0..n - 1, Expects(h, k)'
      PROVE  Expects(h, k + 1)
  <2>1. CASE k = n - 1
    <3>1. k = Len(downlink'[h]) /\ k + 1 = Len(downlink[h])
      BY <1>1, <2>1
    <3> QED BY <1>2, <1>7, <3>1 DEF Expects
  <2>2. CASE k # n - 1
    <3>1. k # Len(downlink'[h]) /\ k + 1 # Len(downlink[h])
      BY <1>1, <2>2
    <3>2. k + 1 \in 1..n - 1
      BY <1>1, <2>2
    <3>3. downlink'[h][k + 1] = downlink[h][(k + 1) + 1]
      BY <1>1, <3>2
    <3> QED BY <1>7, <3>1, <3>3 DEF Expects
  <2> QED BY <2>1, <2>2
<1>8. \A k \in 0..n - 1 : k + 1 \in 0..n
  BY <1>1
<1> QED BY <1>1, <1>3, <1>6, <1>7, <1>8 DEF JoinKnown

LEMMA JoinsKnownStep ==
    ASSUME LinkTypeOK, TypeOK, TypeOK', SocketsAgree, SeatsAgree, SeatsAsked,
           CallsInv, OutboxesOpen, JoinsKnown, [LinkNext]_linkVars
    PROVE  JoinsKnown'
<1>1. ASSUME NEW h \in Handles, Serve(h) \/ Wake(h), NEW g \in Handles
      PROVE  JoinKnown(g)'
  BY <1>1, JoinKnownAnswered
<1>2. ASSUME NEW g \in Handles, downlink'[g] = downlink[g],
             socket'[g] = socket[g], membership'[g] = membership[g],
             pendingBatches'[g] = pendingBatches[g], welcomed'[g] = welcomed[g],
             \A i \in 1..Len(downlink[g]) : IsAnswer(g, i) =>
                pending'[g][DownId(g, i)] = pending[g][DownId(g, i)]
      PROVE  JoinKnown(g)'
  <2>1. \A i \in 1..Len(downlink[g]) : JoinOk(g, i) => JoinOk(g, i)'
    BY <1>2 DEF JoinOk, IsAnswer, DownId
  <2>2. \A n \in 0..Len(downlink[g]) : \A i \in 1..n : i \in 1..Len(downlink[g])
    BY DEF LinkTypeOK
  <2>3. \A n \in 0..Len(downlink[g]) : Knows(g, n) => Knows(g, n)'
    BY <1>2, <2>1, <2>2 DEF Knows
  <2>4. \A n \in 0..Len(downlink[g]) : Expects(g, n)' => Expects(g, n)
    BY <1>2 DEF Expects
  <2> QED BY <1>2, <2>3, <2>4 DEF JoinsKnown, JoinKnown
<1>3. ASSUME NEW h \in Handles, Receive(h), NEW g \in Handles
      PROVE  JoinKnown(g)'
  <2>1. CASE g = h
    BY <1>3, <2>1, JoinKnownReceive
  <2>2. CASE g # h
    <3>1. /\ UNCHANGED <<socket, membership, pendingBatches>>
          /\ downlink' = [downlink EXCEPT ![h] = Tail(downlink[h])]
      BY <1>3, ReceiveFacts DEF vars, connectionVars, pushVars
    <3>2. pending'[g] = pending[g] /\ welcomed'[g] = welcomed[g]
      BY <1>3, <2>2 DEF Receive, Settle, Notify, callVars, LinkTypeOK
    <3>3. downlink'[g] = downlink[g]
      BY <2>2, <3>1 DEF LinkTypeOK
    <3> QED BY <1>2, <3>1, <3>2, <3>3
  <2> QED BY <2>1, <2>2
<1>4. ASSUME NEW h \in Handles, NEW q \in Asks[h], Call(h, q), NEW g \in Handles
      PROVE  JoinKnown(g)'
  <2>1. /\ UNCHANGED <<socket, membership, pendingBatches, downlink, welcomed>>
        /\ pending' = [pending EXCEPT ![h] =
                          [pending[h] EXCEPT ![nextCallId[h]] = q]]
    BY <1>4, CallFacts DEF vars, connectionVars, pushVars
  <2>2. ASSUME NEW i \in 1..Len(downlink[g]), IsAnswer(g, i)
        PROVE  pending'[g][DownId(g, i)] = pending[g][DownId(g, i)]
    <3>1. DownId(g, i) \in 1..MaxCalls[g] /\ DownId(g, i) < nextCallId[g]
      BY <2>2 DEF CallsInv, CallsInOrder
    <3>2. DownId(g, i) # nextCallId[g]
      BY <3>1 DEF LinkTypeOK
    <3>3. CASE g = h
      <4>1. pending'[g] = [pending[h] EXCEPT ![nextCallId[h]] = q]
        BY <2>1, <3>3 DEF LinkTypeOK
      <4> QED BY <3>1, <3>2, <3>3, <4>1 DEF LinkTypeOK
    <3>4. CASE g # h
      BY <2>1, <3>4 DEF LinkTypeOK
    <3> QED BY <3>3, <3>4
  <2> QED BY <1>2, <2>1, <2>2
<1>5. ASSUME NEW h \in Handles, Open(h) \/ Close(h) \/ CloseSeen(h),
             NEW g \in Handles
      PROVE  JoinKnown(g)'
  <2>1. UNCHANGED <<pending, welcomed>>
    BY <1>5 DEF Open, Close, CloseSeen, clientVars, callVars
  <2>2. CASE g # h
    <3>1. /\ downlink'[g] = downlink[g] /\ socket'[g] = socket[g]
      BY <1>5, <2>2 DEF Open, Close, CloseSeen, LinkTypeOK
    <3>2. membership'[g] = membership[g] /\ pendingBatches'[g] = pendingBatches[g]
      BY <1>5, <2>2 DEF Open, Connect, Close, CloseSeen, Disconnect, ReleaseSeat,
                        Unseat, vars, connectionVars, pushVars, TypeOK
    <3> QED BY <1>2, <2>1, <3>1, <3>2
  <2>3. CASE g = h /\ Open(h)
    <3>1. /\ connections[h] = "new" /\ socket[h] = "none"
          /\ UNCHANGED <<membership, pendingBatches, downlink>>
      BY <2>3 DEF Open, Connect, SocketsAgree, pushVars
    <3>2. membership[h] = undefined /\ pendingBatches[h] = undefined
      BY <3>1 DEF SeatsAgree, OutboxesOpen
    <3>3. Len(downlink'[h]) = 0
      BY <3>1 DEF SocketsAgree
    <3>4. \A n \in 0..0 : n = 0
      OBVIOUS
    <3> QED BY <2>3, <3>1, <3>2, <3>3, <3>4 DEF JoinKnown, Expects
  <2>4. CASE g = h /\ (Close(h) \/ CloseSeen(h))
    <3>1. socket'[g] # "open"
      BY <2>4 DEF Close, CloseSeen, LinkTypeOK
    <3> QED BY <3>1 DEF JoinKnown
  <2> QED BY <1>5, <2>2, <2>3, <2>4
<1>6. ASSUME PassTime \/ UNCHANGED linkVars, NEW g \in Handles
      PROVE  JoinKnown(g)'
  <2>1. UNCHANGED <<socket, membership, pendingBatches, downlink, welcomed, pending>>
    BY <1>6 DEF PassTime, Tick, linkVars, clientVars, callVars, vars,
                connectionVars, pushVars
  <2> QED BY <1>2, <2>1
<1>7. \A g \in Handles : JoinKnown(g)'
  BY <1>1, <1>3, <1>4, <1>5, <1>6 DEF LinkNext
<1> QED BY <1>7 DEF JoinsKnown

(* What the proofs about the messages of a client rest on.                  *)
LEMMA LinkOfBroker ==
    LinkSpec => [](SeatsAgree /\ SeatsAsked /\ RoomsIsolated /\ OutboxesOpen)
<1>1. LinkSpec => [](TypeOK /\ SeatsAgree)
  BY LinkImplementsBroker, BrokerTypeCorrect, SeatsAlwaysAgree, PTL
<1>2. LinkSpec => [](SeatsAsked /\ RoomsIsolated)
  <2>1. LinkInit => SeatsAsked /\ RoomsIsolated
    BY IsolatedInit DEF LinkInit
  <2>2. LinkTypeOK /\ TypeOK /\ SeatsAgree /\ SeatsAsked /\ RoomsIsolated
        /\ [LinkNext]_linkVars => SeatsAsked' /\ RoomsIsolated'
    BY StepOfBroker, IsolatedStep
  <2> QED BY <1>1, <2>1, <2>2, LinkInductive, PTL DEF LinkSpec
<1>3. LinkSpec => []OutboxesOpen
  BY <1>1, <1>2, LinkInductive, OutboxesOpenInit, OutboxesOpenStep, PTL
     DEF LinkSpec
<1> QED BY <1>1, <1>2, <1>3, PTL

(* No notification overtakes the answer to the first join that succeeded,   *)
(* so that no session is woken before it knows that it joined               *)
(* (ws-server.ts:41-51, broker.ts:193-231).                                 *)
THEOREM JoinAlwaysAnsweredFirst == LinkSpec => []JoinAnsweredFirst
<1>1. LinkSpec => []JoinsKnown
  BY LinkInductive, LinkOfBroker, JoinsKnownInit, JoinsKnownStep, PTL DEF LinkSpec
<1> QED BY <1>1, LinkInductive, JoinsKnownFirst, PTL
-----------------------------------------------------------------------------
(* Messages in order                                                        *)

\* The ids of a sequence rise; they are below a bound, or below those of
\* another sequence.
Rising(s) == \A i, j \in DOMAIN s : i < j => s[i].id < s[j].id
Under(s, bound) == \A i \in DOMAIN s : s[i].id < bound
Below(s, t) == \A i \in DOMAIN s, j \in DOMAIN t : s[i].id < t[j].id

LEMMA EmptyOrder ==
    ASSUME NEW s, NEW bound
    PROVE  /\ Rising(<<>>) /\ Under(<<>>, bound)
           /\ Below(<<>>, s) /\ Below(s, <<>>)
<1>1. DOMAIN <<>> = {}
  OBVIOUS
<1> QED BY <1>1 DEF Rising, Under, Below

LEMMA UnderMore ==
    ASSUME NEW s \in Seq(Message), NEW b \in Nat, NEW c \in Nat, b <= c, Under(s, b)
    PROVE  Under(s, c)
<1>1. \A i \in DOMAIN s : s[i] \in Message
  OBVIOUS
<1>2. \A i \in DOMAIN s : s[i].id \in Nat
  BY <1>1 DEF Message
<1> QED BY <1>2 DEF Under

LEMMA AppendOrder ==
    ASSUME NEW s \in Seq(Message), NEW m \in Message, Rising(s), Under(s, m.id)
    PROVE  /\ Append(s, m) \in Seq(Message) /\ Rising(Append(s, m))
           /\ Under(Append(s, m), m.id + 1)
           /\ \A t \in Seq(Message) :
                 Below(t, s) /\ Under(t, m.id) => Below(t, Append(s, m))
<1> DEFINE u == Append(s, m)
           n == Len(s)
<1>1. /\ u \in Seq(Message) /\ DOMAIN s = 1..n /\ DOMAIN u = 1..n + 1 /\ n \in Nat
      /\ u[n + 1] = m /\ \A i \in 1..n : u[i] = s[i]
  OBVIOUS
<1>2. m.id \in Nat /\ \A i \in 1..n : s[i].id \in Nat
  <2>1. \A i \in 1..n : s[i] \in Message
    OBVIOUS
  <2> QED BY <2>1 DEF Message
<1> HIDE DEF u, n
<1>3. \A i \in 1..n + 1 : i \in 1..n \/ i = n + 1
  BY <1>1
<1>4. Rising(u)
  BY <1>1, <1>3 DEF Rising, Under
<1>5. Under(u, m.id + 1)
  BY <1>1, <1>2, <1>3 DEF Under
<1>6. \A t \in Seq(Message) : Below(t, s) /\ Under(t, m.id) => Below(t, u)
  BY <1>1, <1>3 DEF Below, Under
<1> QED BY <1>1, <1>4, <1>5, <1>6 DEF u

LEMMA ConcatOrder ==
    ASSUME NEW s \in Seq(Message), NEW t \in Seq(Message),
           Rising(s), Rising(t), Below(s, t)
    PROVE  /\ Rising(s \o t)
           /\ \A u : Below(s, u) /\ Below(t, u) => Below(s \o t, u)
           /\ \A b : Under(s, b) /\ Under(t, b) => Under(s \o t, b)
<1> DEFINE w == s \o t
           n == Len(s)
           k == Len(t)
<1>1. /\ DOMAIN s = 1..n /\ DOMAIN t = 1..k /\ DOMAIN w = 1..n + k
      /\ n \in Nat /\ k \in Nat
      /\ \A i \in 1..n : w[i] = s[i]
      /\ \A i \in (n + 1)..(n + k) : w[i] = t[i - n]
  OBVIOUS
<1> HIDE DEF w, n, k
<1>2. \A i \in 1..n + k : \/ i \in 1..n /\ w[i] = s[i]
                          \/ i > n /\ i - n \in 1..k /\ w[i] = t[i - n]
  BY <1>1
<1>3. ASSUME NEW i \in 1..n + k, NEW j \in 1..n + k, i < j
      PROVE  w[i].id < w[j].id
  <2>1. CASE j \in 1..n
    <3>1. i \in 1..n
      BY <1>1, <1>3, <2>1
    <3> QED BY <1>1, <1>3, <2>1, <3>1 DEF Rising
  <2>2. CASE i \in 1..n /\ j > n /\ j - n \in 1..k /\ w[j] = t[j - n]
    BY <1>1, <2>2 DEF Below
  <2>3. CASE i > n /\ i - n \in 1..k /\ w[i] = t[i - n]
             /\ j > n /\ j - n \in 1..k /\ w[j] = t[j - n]
    <3>1. i - n < j - n
      BY <1>1, <1>3
    <3> QED BY <1>1, <2>3, <3>1 DEF Rising
  <2> QED BY <1>1, <1>2, <1>3, <2>1, <2>2, <2>3
<1>4. ASSUME NEW u, Below(s, u), Below(t, u)
      PROVE  Below(w, u)
  <2>1. ASSUME NEW i \in DOMAIN w, NEW j \in DOMAIN u
        PROVE  w[i].id < u[j].id
    <3>1. CASE i \in 1..n /\ w[i] = s[i]
      BY <1>1, <1>4, <3>1 DEF Below
    <3>2. CASE i > n /\ i - n \in 1..k /\ w[i] = t[i - n]
      BY <1>1, <1>4, <3>2 DEF Below
    <3> QED BY <1>1, <1>2, <3>1, <3>2
  <2> QED BY <2>1 DEF Below
<1>5. ASSUME NEW b, Under(s, b), Under(t, b)
      PROVE  Under(w, b)
  <2>1. ASSUME NEW i \in DOMAIN w
        PROVE  w[i].id < b
    <3>1. CASE i \in 1..n /\ w[i] = s[i]
      BY <1>1, <1>5, <3>1 DEF Under
    <3>2. CASE i > n /\ i - n \in 1..k /\ w[i] = t[i - n]
      BY <1>1, <1>5, <3>2 DEF Under
    <3> QED BY <1>1, <1>2, <3>1, <3>2
  <2> QED BY <2>1 DEF Under
<1>6. Rising(w)
  BY <1>1, <1>3 DEF Rising
<1> QED BY <1>4, <1>5, <1>6 DEF w
-----------------------------------------------------------------------------
(* From the broker to the agent                                             *)

RoomOf(h) == CHOOSE r \in MayJoin[h] : TRUE

\* The messages in the item at place i of the queue towards h.
Carried(h, i) == IF downlink[h][i].kind = "room_batch"
                 THEN downlink[h][i].batch.messages ELSE <<>>

\* What has been heard by h or is on its way is older than s.
Follows(h, s) ==
    /\ Below(events[h], s)
    /\ \A i \in 1..Len(downlink[h]) : Below(Carried(h, i), s)

\* What h has heard, what is under way, item by item, and what waits at the
\* broker is in this order one rising sequence of messages of the room of h.
StreamInOrder(h) ==
    /\ Rising(events[h]) /\ Under(events[h], nextId[RoomOf(h)])
    /\ OfRooms(events[h], MayJoin[h])
    /\ \A i \in 1..Len(downlink[h]) :
          /\ Rising(Carried(h, i)) /\ Under(Carried(h, i), nextId[RoomOf(h)])
          /\ OfRooms(Carried(h, i), MayJoin[h])
          /\ Below(events[h], Carried(h, i))
    /\ \A i, j \in 1..Len(downlink[h]) : i < j => Below(Carried(h, i), Carried(h, j))
    /\ Rising(Queued(h)) /\ Under(Queued(h), nextId[RoomOf(h)])
    /\ Follows(h, Queued(h))

StreamsInOrder == \A h \in Handles : StreamInOrder(h)

LEMMA StreamType ==
    ASSUME LinkTypeOK, TypeOK, NEW h \in Handles
    PROVE  /\ events[h] \in Seq(Message) /\ Queued(h) \in Seq(Message)
           /\ Len(downlink[h]) \in Nat
           /\ \A i \in 1..Len(downlink[h]) :
                 /\ Carried(h, i) \in Seq(Message)
                 /\ downlink[h][i].kind \in {"response", "room_batch"}
           /\ nextId[RoomOf(h)] \in Nat
<1>1. events[h] \in Seq(Message) /\ Len(downlink[h]) \in Nat
  BY DEF LinkTypeOK
<1>2. Queued(h) \in Seq(Message)
  BY DEF TypeOK, Queued, PendingBatch
<1>3. nextId[RoomOf(h)] \in Nat
  BY RoomOfClient DEF TypeOK, RoomOf
<1>4. ASSUME NEW i \in 1..Len(downlink[h])
      PROVE  /\ Carried(h, i) \in Seq(Message)
             /\ downlink[h][i].kind \in {"response", "room_batch"}
  <2>1. downlink[h][i] \in Response \cup Notification
    BY ElementOfSeq DEF LinkTypeOK
  <2> QED BY <2>1 DEF Carried, Response, Notification, Batch
<1> QED BY <1>1, <1>2, <1>3, <1>4

LEMMA StreamsInit == LinkInit => StreamsInOrder
<1> SUFFICES ASSUME LinkInit, NEW h \in Handles PROVE StreamInOrder(h)
  BY DEF StreamsInOrder
<1>1. /\ events[h] = <<>> /\ downlink[h] = <<>> /\ Queued(h) = <<>>
      /\ Len(<<>>) = 0 /\ DOMAIN <<>> = {}
  BY DEF LinkInit, Init, Queued
<1> QED BY <1>1, EmptyOrder DEF StreamInOrder, Follows, OfRooms

(* A step that lets h keep its place: some messages, if any, are sent, and  *)
(* some wait, in the order of their ids.                                    *)
LEMMA StreamStep ==
    ASSUME LinkTypeOK, TypeOK, StreamsInOrder, NEW g \in Handles,
           NEW new \in Seq(Message), NEW next \in Nat,
           next = nextId'[RoomOf(g)], nextId[RoomOf(g)] <= next,
           events'[g] = events[g],
           Rising(new), Under(new, next), OfRooms(new, MayJoin[g]), Follows(g, new),
           Rising(Queued(g)'), Under(Queued(g)', next), Follows(g, Queued(g)'),
           Below(new, Queued(g)'),
           \A i \in 1..Len(downlink'[g]) :
              \/ i \in 1..Len(downlink[g]) /\ Carried(g, i)' = Carried(g, i)
              \/ i = Len(downlink[g]) + 1 /\ Carried(g, i)' = new
              \/ Carried(g, i)' = <<>>
    PROVE  StreamInOrder(g)'
<1> DEFINE before == Len(downlink[g])
           rooms == MayJoin[g]
<1>1. StreamInOrder(g)
  BY DEF StreamsInOrder
<1>2. /\ before \in Nat /\ events[g] \in Seq(Message)
      /\ \A i \in 1..before : Carried(g, i) \in Seq(Message)
      /\ nextId[RoomOf(g)] \in Nat
  BY StreamType
<1>3. Rising(events[g]) /\ Under(events[g], next) /\ OfRooms(events[g], rooms)
  BY <1>1, <1>2, UnderMore DEF StreamInOrder
<1>4. OfRooms(<<>>, rooms)
  BY DEF OfRooms
<1>5. ASSUME NEW i \in 1..Len(downlink'[g])
      PROVE  /\ Rising(Carried(g, i)') /\ Under(Carried(g, i)', next)
             /\ OfRooms(Carried(g, i)', rooms)
             /\ Below(events[g], Carried(g, i)')
             /\ Below(Carried(g, i)', Queued(g)')
  <2>1. CASE i \in 1..before /\ Carried(g, i)' = Carried(g, i)
    <3>1. Rising(Carried(g, i)) /\ Under(Carried(g, i), next)
      BY <1>1, <1>2, <2>1, UnderMore DEF StreamInOrder
    <3>2. /\ OfRooms(Carried(g, i), rooms)
          /\ Below(events[g], Carried(g, i)) /\ Below(Carried(g, i), Queued(g)')
      BY <1>1, <2>1 DEF StreamInOrder, Follows
    <3> QED BY <2>1, <3>1, <3>2
  <2>2. CASE Carried(g, i)' = new
    BY <2>2 DEF Follows
  <2>3. CASE Carried(g, i)' = <<>>
    BY <1>4, <2>3, EmptyOrder
  <2> QED BY <2>1, <2>2, <2>3
<1>6. ASSUME NEW i \in 1..Len(downlink'[g]), NEW j \in 1..Len(downlink'[g]), i < j
      PROVE  Below(Carried(g, i)', Carried(g, j)')
  <2>1. CASE Carried(g, i)' = <<>> \/ Carried(g, j)' = <<>>
    BY <2>1, EmptyOrder
  <2>2. CASE /\ i \in 1..before /\ Carried(g, i)' = Carried(g, i)
             /\ j \in 1..before /\ Carried(g, j)' = Carried(g, j)
    BY <1>1, <1>6, <2>2 DEF StreamInOrder
  <2>3. CASE /\ i \in 1..before /\ Carried(g, i)' = Carried(g, i)
             /\ Carried(g, j)' = new
    BY <2>3 DEF Follows
  <2>4. ~(i = before + 1 /\ j \in 1..before + 1)
    BY <1>2, <1>6
  <2> QED BY <1>2, <2>1, <2>2, <2>3, <2>4
<1>7. Below(events[g], Queued(g)')
  BY DEF Follows
<1> HIDE DEF before
<1> QED BY <1>3, <1>5, <1>6, <1>7 DEF StreamInOrder, Follows

\* What the broker's end sends to g in a step, and what it leaves waiting.
LEMMA OutboxOrdered ==
    ASSUME LinkTypeOK, TypeOK, TypeOK', SeatsAgree, SeatsAsked, RoomsIsolated,
           OutboxesOpen, StreamsInOrder,
           NEW h \in Handles, Serve(h) \/ Wake(h), NEW g \in Handles
    PROVE  \E new \in Seq(Message) :
              /\ nextId[RoomOf(g)] <= nextId'[RoomOf(g)]
              /\ Rising(new) /\ Under(new, nextId'[RoomOf(g)])
              /\ OfRooms(new, MayJoin[g]) /\ Follows(g, new)
              /\ Rising(Queued(g)') /\ Under(Queued(g)', nextId'[RoomOf(g)])
              /\ Follows(g, Queued(g)') /\ Below(new, Queued(g)')
              /\ Quiet(g) \/ Enqueues(g) => new = <<>>
              /\ SendsNew(g) \/ Flushes(g) =>
                    \E batch \in Batch : /\ sent'[g] = Append(sent[g], batch)
                                        /\ batch.messages = new
<1> DEFINE r == RoomOf(g)
           Q == Queued(g)
<1>1. /\ Q \in Seq(Message) /\ events[g] \in Seq(Message)
      /\ \A i \in 1..Len(downlink[g]) : Carried(g, i) \in Seq(Message)
      /\ nextId[r] \in Nat
  BY StreamType
<1>2. r \in RoomIds /\ MayJoin[g] = {r}
  BY RoomOfClient DEF RoomOf
<1>3. nextId[r] <= nextId'[r] /\ nextId'[r] \in Nat
  BY <1>2, OutboxStep DEF TypeOK
<1>4. StreamInOrder(g)
  BY DEF StreamsInOrder
<1>5. /\ Rising(Q) /\ Under(Q, nextId'[r]) /\ Follows(g, Q)
  BY <1>1, <1>3, <1>4, UnderMore DEF StreamInOrder
<1>6. /\ Rising(<<>>) /\ Under(<<>>, nextId'[r]) /\ Follows(g, <<>>)
      /\ OfRooms(<<>>, MayJoin[g]) /\ \A t : Below(<<>>, t) /\ Below(t, <<>>)
      /\ <<>> \in Seq(Message)
  <2>1. /\ Rising(<<>>) /\ Under(<<>>, nextId'[r])
        /\ \A t : Below(<<>>, t) /\ Below(t, <<>>)
    BY EmptyOrder
  <2>2. OfRooms(<<>>, MayJoin[g]) /\ <<>> \in Seq(Message)
    BY DEF OfRooms
  <2> QED BY <2>1, <2>2 DEF Follows
<1>7. /\ sent[g] \in Seq(Batch)
      /\ pendingBatches[g] # undefined => pendingBatches[g] \in PendingBatch
  BY DEF TypeOK
<1>8. ASSUME NEW m, NewFor(g, m), NEW s \in Seq(Message),
             Rising(s), Under(s, nextId[r]), Follows(g, s)
      PROVE  /\ m \in Message /\ m.roomId \in MayJoin[g]
             /\ Rising(Append(s, m)) /\ Under(Append(s, m), nextId'[r])
             /\ Follows(g, Append(s, m))
  <2>1. /\ m \in Message /\ m.roomId = r /\ m.roomId \in MayJoin[g]
        /\ m.id = nextId[r] /\ nextId'[r] = m.id + 1
    BY <1>2, <1>8 DEF NewFor
  <2>2. /\ Rising(Append(s, m)) /\ Under(Append(s, m), nextId'[r])
        /\ \A t \in Seq(Message) :
              Below(t, s) /\ Under(t, m.id) => Below(t, Append(s, m))
    BY <1>8, <2>1, AppendOrder
  <2>3. Follows(g, Append(s, m))
    BY <1>1, <1>4, <1>8, <2>1, <2>2 DEF Follows, StreamInOrder
  <2> QED BY <2>1, <2>2, <2>3
<1>9. CASE Quiet(g)
  <2>1. Queued(g)' = Q
    BY <1>9 DEF Quiet, Queued
  <2>2. Quiet(g) => ~SendsNew(g) /\ ~Flushes(g)
    <3>1. \A b : Append(sent[g], b) # sent[g]
      BY <1>7
    <3> QED BY <3>1 DEF Quiet, SendsNew, Flushes
  <2> QED BY <1>3, <1>5, <1>6, <1>9, <2>1, <2>2
<1>10. CASE Enqueues(g)
  <2>1. PICK m : NewFor(g, m) /\ Queued(g)' = Append(Q, m)
    BY <1>10 DEF Enqueues
  <2>2. /\ Rising(Append(Q, m)) /\ Under(Append(Q, m), nextId'[r])
        /\ Follows(g, Append(Q, m))
    BY <1>1, <1>4, <1>8, <2>1 DEF StreamInOrder
  <2>3. ~SendsNew(g) /\ ~Flushes(g)
    BY <1>10 DEF Enqueues, SendsNew, Flushes
  <2> QED BY <1>3, <1>6, <2>1, <2>2, <2>3
<1>11. CASE SendsNew(g)
  <2>1. PICK m : /\ NewFor(g, m)
                 /\ sent'[g] = Append(sent[g], [roomId |-> m.roomId,
                                                 messages |-> <<m>>])
    BY <1>11 DEF SendsNew
  <2>2. Q = <<>> /\ Queued(g)' = <<>>
    BY <1>11 DEF SendsNew, Queued
  <2>3. Under(<<>>, nextId[r]) /\ Append(<<>>, m) = <<m>>
    BY EmptyOrder
  <2>4. /\ m \in Message /\ m.roomId \in MayJoin[g]
        /\ Rising(<<m>>) /\ Under(<<m>>, nextId'[r]) /\ Follows(g, <<m>>)
    BY <1>6, <1>8, <2>1, <2>3
  <2>5. <<m>> \in Seq(Message) /\ OfRooms(<<m>>, MayJoin[g])
    BY <2>4 DEF OfRooms
  <2>6. m.roomId \in RoomIds
    BY <2>4 DEF Message
  <2> DEFINE batch == [roomId |-> m.roomId, messages |-> <<m>>]
  <2>7. batch \in Batch /\ batch.messages = <<m>>
    BY <2>5, <2>6 DEF Batch
  <2>8. ~Quiet(g) /\ ~Enqueues(g)
    <3>1. \A b : Append(sent[g], b) # sent[g]
      BY <1>7
    <3> QED BY <1>11, <2>1, <3>1 DEF Quiet, Enqueues, SendsNew
  <2> HIDE DEF batch
  <2>9. sent'[g] = Append(sent[g], batch)
    BY <2>1 DEF batch
  <2> QED BY <1>3, <1>6, <2>2, <2>4, <2>5, <2>7, <2>8, <2>9
<1>12. CASE Flushes(g)
  <2> DEFINE batch == [roomId |-> pendingBatches[g].roomId, messages |-> Q]
  <2>1. /\ sent'[g] = Append(sent[g], batch) /\ Queued(g)' = <<>>
    BY <1>12 DEF Flushes, Queued
  <2>2. batch \in Batch /\ batch.messages = Q
    BY <1>1, <1>7, <1>12 DEF Flushes, Batch, PendingBatch
  <2>3. OfRooms(Q, MayJoin[g])
    BY DEF RoomsIsolated, OfRooms
  <2>4. ~Quiet(g) /\ ~Enqueues(g)
    BY <1>12 DEF Flushes, Quiet, Enqueues
  <2> HIDE DEF batch, Q
  <2> QED BY <1>1, <1>3, <1>5, <1>6, <2>1, <2>2, <2>3, <2>4
<1> QED BY <1>9, <1>10, <1>11, <1>12, OutboxStep

LEMMA CarriedStep ==
    ASSUME LinkTypeOK, TypeOK, TypeOK', SeatsAgree, SeatsAsked, OutboxesOpen,
           NEW h \in Handles, Serve(h) \/ Wake(h),
           NEW g \in Handles, socket[g] = "open", NEW new,
           Quiet(g) \/ Enqueues(g) => new = <<>>,
           SendsNew(g) \/ Flushes(g) =>
              \E batch \in Batch : /\ sent'[g] = Append(sent[g], batch)
                                  /\ batch.messages = new
    PROVE  /\ \A i \in 1..Len(downlink'[g]) :
                 \/ i \in 1..Len(downlink[g]) /\ Carried(g, i)' = Carried(g, i)
                 \/ i = Len(downlink[g]) + 1 /\ Carried(g, i)' = new
                 \/ Carried(g, i)' = <<>>
           /\ \A i \in 1..Len(downlink[g]) :
                 i \in 1..Len(downlink'[g]) /\ Carried(g, i)' = Carried(g, i)
           /\ new # <<>> => \E i \in 1..Len(downlink'[g]) : Carried(g, i)' = new
           /\ new # <<>> => Len(downlink[g]) + 1 \in 1..Len(downlink'[g])
           /\ \A i \in 1..Len(downlink'[g]) :
                 i = Len(downlink[g]) + 1 => Carried(g, i)' = new
<1> DEFINE before == Len(downlink[g])
           after == Len(downlink'[g])
<1>1. /\ before \in Nat /\ after \in Nat /\ before <= after
      /\ \A i \in 1..before : downlink'[g][i] = downlink[g][i]
  BY NewsStep
<1>2. \A i \in 1..before : i \in 1..after /\ Carried(g, i)' = Carried(g, i)
  BY <1>1 DEF Carried
<1>3. \A i \in 1..after : downlink'[g][i].kind = "response" => Carried(g, i)' = <<>>
  BY DEF Carried
<1>4. \A i \in 1..after : \/ i \in 1..before \/ i = before + 1
                           \/ i \in (before + 2)..after
  BY <1>1
<1>5. CASE /\ Quiet(g) \/ Enqueues(g)
           /\ \A i \in (before + 1)..after : downlink'[g][i].kind = "response"
  <2>1. new = <<>>
    BY <1>5
  <2>2. \A i \in 1..after : i \in 1..before \/ i \in (before + 1)..after
    BY <1>1
  <2> QED BY <1>2, <1>3, <1>5, <2>1, <2>2
<1>6. CASE /\ SendsNew(g) \/ Flushes(g)
           /\ before + 1 <= after
           /\ downlink'[g][before + 1].kind = "room_batch"
           /\ sent'[g] = Append(sent[g], downlink'[g][before + 1].batch)
           /\ \A i \in (before + 2)..after : downlink'[g][i].kind = "response"
  <2>1. PICK batch \in Batch :
           sent'[g] = Append(sent[g], batch) /\ batch.messages = new
    BY <1>6
  <2>2. downlink'[g][before + 1].batch = batch
    <3> DEFINE carried == downlink'[g][before + 1].batch
    <3>1. sent[g] \in Seq(Batch)
      BY DEF TypeOK
    <3>2. Append(sent[g], carried) = Append(sent[g], batch)
      BY <1>6, <2>1
    <3> HIDE DEF carried
    <3>3. carried = batch
      BY <3>1, <3>2, AppendedSame
    <3> QED BY <3>3 DEF carried
  <2>3. PICK place \in 1..after : place = before + 1
    BY <1>1, <1>6
  <2>4. Carried(g, place)' = new
    BY <1>6, <2>1, <2>2, <2>3 DEF Carried
  <2> QED BY <1>2, <1>3, <1>4, <1>6, <2>3, <2>4
<1> QED BY <1>5, <1>6, NewsStep

LEMMA StreamBroker ==
    ASSUME LinkTypeOK, TypeOK, TypeOK', SeatsAgree, SeatsAsked, RoomsIsolated,
           OutboxesOpen, StreamsInOrder,
           NEW h \in Handles, Serve(h) \/ Wake(h), NEW g \in Handles
    PROVE  StreamInOrder(g)'
<1>1. PICK new \in Seq(Message) :
         /\ nextId[RoomOf(g)] <= nextId'[RoomOf(g)]
         /\ Rising(new) /\ Under(new, nextId'[RoomOf(g)])
         /\ OfRooms(new, MayJoin[g]) /\ Follows(g, new)
         /\ Rising(Queued(g)') /\ Under(Queued(g)', nextId'[RoomOf(g)])
         /\ Follows(g, Queued(g)') /\ Below(new, Queued(g)')
         /\ Quiet(g) \/ Enqueues(g) => new = <<>>
         /\ SendsNew(g) \/ Flushes(g) =>
               \E batch \in Batch : /\ sent'[g] = Append(sent[g], batch)
                                   /\ batch.messages = new
  BY OutboxOrdered
<1>2. events' = events
  BY ServeFacts, WakeFacts
<1>3. \A i \in 1..Len(downlink'[g]) :
         \/ i \in 1..Len(downlink[g]) /\ Carried(g, i)' = Carried(g, i)
         \/ i = Len(downlink[g]) + 1 /\ Carried(g, i)' = new
         \/ Carried(g, i)' = <<>>
  <2>1. CASE socket[g] = "open"
    BY <1>1, <2>1, CarriedStep
  <2>2. CASE socket[g] # "open"
    <3>1. downlink'[g] = <<>>
      BY <2>2, ServeFacts, WakeFacts
    <3>2. \A i : i \notin 1..Len(downlink'[g])
      BY <3>1
    <3> QED BY <3>2
  <2> QED BY <2>1, <2>2
<1>4. PICK next \in Nat : next = nextId'[RoomOf(g)]
  BY RoomOfClient DEF RoomOf, TypeOK
<1> QED BY <1>1, <1>2, <1>3, <1>4, StreamStep

\* An agent hears what the oldest item of its queue carries.
LEMMA Hears ==
    ASSUME LinkTypeOK, TypeOK, NEW h \in Handles, Receive(h)
    PROVE  /\ events'[h] = events[h] \o Carried(h, 1)
           /\ \A g \in Handles \ {h} : events'[g] = events[g]
           /\ \A i \in 1..Len(downlink'[h]) :
                 i + 1 \in 1..Len(downlink[h]) /\ Carried(h, i)' = Carried(h, i + 1)
<1>1. /\ Len(downlink[h]) \in Nat \ {0}
      /\ Len(downlink'[h]) = Len(downlink[h]) - 1
      /\ \A i \in 1..Len(downlink[h]) - 1 : downlink'[h][i] = downlink[h][i + 1]
  BY ReceiveFacts
<1>2. \A i \in 1..Len(downlink'[h]) :
         i + 1 \in 1..Len(downlink[h]) /\ Carried(h, i)' = Carried(h, i + 1)
  BY <1>1 DEF Carried
<1>3. CASE downlink[h][1] \in Response /\ UNCHANGED events
  <2>1. Carried(h, 1) = <<>>
    BY <1>3 DEF Response, Carried
  <2>2. events[h] \o <<>> = events[h]
    BY StreamType
  <2> QED BY <1>2, <1>3, <2>1, <2>2
<1>4. CASE downlink[h][1] \in Notification /\ Notify(h, downlink[h][1].batch)
  <2>1. Carried(h, 1) = downlink[h][1].batch.messages
    BY <1>4 DEF Notification, Carried
  <2>2. events' = [events EXCEPT ![h] = events[h] \o Carried(h, 1)]
    BY <1>4, <2>1 DEF Notify, PassedOn
  <2> QED BY <1>2, <2>2 DEF LinkTypeOK
<1> QED BY <1>3, <1>4, ReceiveFacts

LEMMA StreamReceive ==
    ASSUME LinkTypeOK, TypeOK, StreamsInOrder, NEW h \in Handles, Receive(h)
    PROVE  StreamInOrder(h)'
<1> DEFINE n == Len(downlink[h])
           first == Carried(h, 1)
           bound == nextId[RoomOf(h)]
<1>1. /\ n \in Nat \ {0} /\ Len(downlink'[h]) = n - 1
      /\ UNCHANGED <<pendingBatches, nextId>>
  BY ReceiveFacts DEF vars, pushVars, roomVars
<1>2. /\ events'[h] = events[h] \o first
      /\ \A i \in 1..n - 1 : i + 1 \in 1..n /\ Carried(h, i)' = Carried(h, i + 1)
  BY <1>1, Hears
<1>3. StreamInOrder(h) /\ 1 \in 1..n
  BY <1>1 DEF StreamsInOrder
<1>4. /\ events[h] \in Seq(Message) /\ first \in Seq(Message)
      /\ Queued(h)' = Queued(h)
  BY <1>1, <1>3, StreamType DEF Queued
<1>5. /\ Rising(events[h]) /\ Rising(first) /\ Below(events[h], first)
      /\ Under(events[h], bound) /\ Under(first, bound)
      /\ OfRooms(events[h], MayJoin[h]) /\ OfRooms(first, MayJoin[h])
      /\ Below(events[h], Queued(h)) /\ Below(first, Queued(h))
  BY <1>3 DEF StreamInOrder, Follows
<1>6. \A i \in 1..n - 1 : /\ Below(events[h], Carried(h, i + 1))
                          /\ Below(first, Carried(h, i + 1))
  <2>1. \A i \in 1..n - 1 : i + 1 \in 1..n /\ 1 < i + 1
    BY <1>1
  <2> QED BY <1>3, <2>1 DEF StreamInOrder
<1>7. /\ Rising(events'[h]) /\ Under(events'[h], bound)
      /\ Below(events'[h], Queued(h))
      /\ \A i \in 1..n - 1 : Below(events'[h], Carried(h, i)')
  BY <1>2, <1>4, <1>5, <1>6, ConcatOrder
<1>8. OfRooms(events'[h], MayJoin[h])
  <2>1. \A i \in DOMAIN (events[h] \o first) :
           \/ i \in DOMAIN events[h] /\ (events[h] \o first)[i] = events[h][i]
           \/ /\ i - Len(events[h]) \in DOMAIN first
              /\ (events[h] \o first)[i] = first[i - Len(events[h])]
    BY <1>4
  <2> QED BY <1>2, <1>5, <2>1 DEF OfRooms
<1>9. ASSUME NEW i \in 1..n - 1
      PROVE  /\ Rising(Carried(h, i)') /\ Under(Carried(h, i)', bound)
             /\ OfRooms(Carried(h, i)', MayJoin[h])
             /\ Below(Carried(h, i)', Queued(h))
  BY <1>2, <1>3 DEF StreamInOrder, Follows
<1>10. ASSUME NEW i \in 1..n - 1, NEW j \in 1..n - 1, i < j
       PROVE  Below(Carried(h, i)', Carried(h, j)')
  <2>1. i + 1 \in 1..n /\ j + 1 \in 1..n /\ i + 1 < j + 1
    BY <1>1, <1>10
  <2>2. Below(Carried(h, i + 1), Carried(h, j + 1))
    BY <1>3, <2>1 DEF StreamInOrder
  <2> QED BY <1>2, <2>2
<1>11. nextId'[RoomOf(h)] = bound /\ Rising(Queued(h)) /\ Under(Queued(h), bound)
  BY <1>1, <1>3 DEF StreamInOrder
<1> HIDE DEF n, bound, first
<1>12. Len(downlink'[h]) = n - 1
  BY <1>1
<1> QED BY <1>4, <1>7, <1>8, <1>9, <1>10, <1>11, <1>12 DEF StreamInOrder, Follows

LEMMA StreamsStep ==
    ASSUME LinkTypeOK, TypeOK, TypeOK', SocketsAgree, SeatsAgree, SeatsAsked,
           RoomsIsolated, OutboxesOpen, StreamsInOrder, [LinkNext]_linkVars
    PROVE  StreamsInOrder'
<1>1. ASSUME NEW h \in Handles, Serve(h) \/ Wake(h), NEW g \in Handles
      PROVE  StreamInOrder(g)'
  BY <1>1, StreamBroker
<1>2. ASSUME NEW g \in Handles, nextId' = nextId, events'[g] = events[g],
             Queued(g)' = Queued(g) \/ Queued(g)' = <<>>,
             \A i \in 1..Len(downlink'[g]) :
                i \in 1..Len(downlink[g]) /\ downlink'[g][i] = downlink[g][i]
      PROVE  StreamInOrder(g)'
  <2>1. PICK next \in Nat : next = nextId[RoomOf(g)]
    BY StreamType
  <2>2. \A s : /\ Rising(<<>>) /\ Under(<<>>, next)
              /\ Below(<<>>, s) /\ Below(s, <<>>)
    BY EmptyOrder
  <2>3. <<>> \in Seq(Message) /\ OfRooms(<<>>, MayJoin[g]) /\ Follows(g, <<>>)
    BY <2>2 DEF OfRooms, Follows
  <2>4. /\ Rising(Queued(g)') /\ Under(Queued(g)', next) /\ Follows(g, Queued(g)')
    BY <1>2, <2>1, <2>2, <2>3 DEF StreamsInOrder, StreamInOrder
  <2>5. \A i \in 1..Len(downlink'[g]) :
           i \in 1..Len(downlink[g]) /\ Carried(g, i)' = Carried(g, i)
    BY <1>2 DEF Carried
  <2>6. next = nextId'[RoomOf(g)] /\ nextId[RoomOf(g)] <= next
    BY <1>2, <2>1
  <2> QED BY <1>2, <2>2, <2>3, <2>4, <2>5, <2>6, StreamStep
<1>3. ASSUME NEW h \in Handles, Receive(h), NEW g \in Handles
      PROVE  StreamInOrder(g)'
  <2>1. CASE g = h
    BY <1>3, <2>1, StreamReceive
  <2>2. CASE g # h
    <3>1. /\ UNCHANGED <<nextId, pendingBatches>>
          /\ downlink' = [downlink EXCEPT ![h] = Tail(downlink[h])]
      BY <1>3, ReceiveFacts DEF vars, pushVars, roomVars
    <3>2. downlink'[g] = downlink[g] /\ events'[g] = events[g]
      BY <1>3, <2>2, <3>1, Hears DEF LinkTypeOK
    <3>3. Queued(g)' = Queued(g)
      BY <3>1 DEF Queued
    <3> QED BY <1>2, <3>1, <3>2, <3>3
  <2> QED BY <2>1, <2>2
<1>4. ASSUME NEW h \in Handles, Open(h) \/ Close(h) \/ CloseSeen(h),
             NEW g \in Handles
      PROVE  StreamInOrder(g)'
  <2>1. UNCHANGED <<nextId, events>>
    BY <1>4 DEF Open, Connect, Close, CloseSeen, Disconnect, ReleaseSeat, Unseat,
                clientVars, vars, roomVars
  <2>2. pendingBatches'[g] = pendingBatches[g] \/ pendingBatches'[g] = undefined
    BY <1>4 DEF Open, Connect, Close, CloseSeen, Disconnect, vars, pushVars, TypeOK
  <2>3. Queued(g)' = Queued(g) \/ Queued(g)' = <<>>
    BY <2>2 DEF Queued
  <2>4. downlink'[g] = downlink[g] \/ downlink'[g] = <<>>
    BY <1>4 DEF Open, Close, CloseSeen, LinkTypeOK
  <2>5. \A i : i \notin 1..Len(<<>>)
    OBVIOUS
  <2>6. \A i \in 1..Len(downlink'[g]) :
           i \in 1..Len(downlink[g]) /\ downlink'[g][i] = downlink[g][i]
    BY <2>4, <2>5
  <2> QED BY <1>2, <2>1, <2>3, <2>6
<1>5. ASSUME NEW g \in Handles,
             \/ \E h \in Handles : \E q \in Asks[h] : Call(h, q)
             \/ PassTime \/ UNCHANGED linkVars
      PROVE  StreamInOrder(g)'
  <2>1. UNCHANGED <<nextId, events, pendingBatches, downlink>>
    BY <1>5 DEF Call, PassTime, Tick, linkVars, clientVars, vars, pushVars, roomVars
  <2>2. Queued(g)' = Queued(g)
    BY <2>1 DEF Queued
  <2> QED BY <1>2, <2>1, <2>2
<1>6. \A g \in Handles : StreamInOrder(g)'
  BY <1>1, <1>3, <1>4, <1>5 DEF LinkNext
<1> QED BY <1>6 DEF StreamsInOrder

LEMMA StreamsAlwaysInOrder == LinkSpec => []StreamsInOrder
  BY LinkInductive, LinkOfBroker, StreamsInit, StreamsStep, PTL DEF LinkSpec

(* An agent hears nothing that was not said in the room of its project      *)
(* (broker.ts:193-231, server.ts:135-149).                                  *)
THEOREM AgentsAlwaysIsolated == LinkSpec => []AgentsIsolated
<1>1. StreamsInOrder => AgentsIsolated
  BY DEF StreamsInOrder, StreamInOrder, OfRooms, AgentsIsolated
<1> QED BY <1>1, StreamsAlwaysInOrder, PTL

(* An agent hears each message of its room at most once and in the order in *)
(* which they were said, through batches, timers, refused calls and rejoins *)
(* (broker.ts:193-231, room.ts:118-127, server.ts:135-149).                 *)
THEOREM AlwaysHeardInOrder == LinkSpec => []HeardInOrder
<1>1. StreamsInOrder => HeardInOrder
  BY DEF StreamsInOrder, StreamInOrder, Rising, HeardInOrder
<1> QED BY <1>1, StreamsAlwaysInOrder, PTL
-----------------------------------------------------------------------------
(* Nothing sent is lost before it is heard                                  *)

Elements(s) == {s[i] : i \in DOMAIN s}

\* On an open socket, what was sent is what was heard or is under way.
SentHeard(h) ==
    socket[h] = "open" =>
        \A m : (\E k \in DOMAIN sent[h] : m \in Elements(sent[h][k].messages))
                 <=> \/ m \in Elements(events[h])
                     \/ \E i \in 1..Len(downlink[h]) : m \in Elements(Carried(h, i))

AllSentHeard == \A h \in Handles : SentHeard(h)

LEMMA SentHeardMeans == LinkTypeOK /\ AllSentHeard => SentIsHeard
<1> SUFFICES ASSUME LinkTypeOK, AllSentHeard, NEW h \in Handles, socket[h] = "open"
             PROVE  MessagesOf(sent[h]) =
                      {events[h][i] : i \in DOMAIN events[h]}
                        \cup UNION {{b.messages[i] : i \in DOMAIN b.messages} :
                                      b \in Arriving(h)}
  BY DEF SentIsHeard
<1>1. \A m : m \in MessagesOf(sent[h]) <=>
              \E k \in DOMAIN sent[h] : m \in Elements(sent[h][k].messages)
  BY DEF MessagesOf, Elements
<1>2. DOMAIN downlink[h] = 1..Len(downlink[h])
  BY DEF LinkTypeOK
<1>3. \A m : (\E i \in 1..Len(downlink[h]) : m \in Elements(Carried(h, i))) <=>
              \E b \in Arriving(h) : m \in Elements(b.messages)
  <2>1. \A m : m \notin Elements(<<>>)
    BY DEF Elements
  <2>2. \A i \in 1..Len(downlink[h]) : downlink[h][i].kind # "room_batch" =>
           Carried(h, i) = <<>>
    BY DEF Carried
  <2>3. \A i \in 1..Len(downlink[h]) : downlink[h][i].kind = "room_batch" =>
           /\ Carried(h, i) = downlink[h][i].batch.messages
           /\ downlink[h][i].batch \in Arriving(h)
    BY <1>2 DEF Carried, Arriving
  <2>4. \A b \in Arriving(h) : \E i \in 1..Len(downlink[h]) :
           Carried(h, i) = b.messages
    BY <1>2 DEF Carried, Arriving
  <2> QED BY <2>1, <2>2, <2>3, <2>4
<1>4. \A m : (\E b \in Arriving(h) : m \in Elements(b.messages)) <=>
              m \in UNION {{b.messages[i] : i \in DOMAIN b.messages} : b \in Arriving(h)}
  BY DEF Elements
<1>5. SentHeard(h)
  BY DEF AllSentHeard
<1>6. \A m : m \in Elements(events[h]) <=> m \in {events[h][i] : i \in DOMAIN events[h]}
  BY DEF Elements
<1> QED BY <1>1, <1>3, <1>4, <1>5, <1>6 DEF SentHeard

LEMMA SentHeardInit == LinkInit => AllSentHeard
  BY DEF LinkInit, AllSentHeard, SentHeard

LEMMA SentHeardBroker ==
    ASSUME LinkTypeOK, TypeOK, TypeOK', SeatsAgree, SeatsAsked, RoomsIsolated,
           OutboxesOpen, StreamsInOrder, AllSentHeard,
           NEW h \in Handles, Serve(h) \/ Wake(h), NEW g \in Handles
    PROVE  SentHeard(g)'
<1>1. UNCHANGED <<socket, events>>
  BY ServeFacts, WakeFacts
<1>2. SUFFICES ASSUME socket[g] = "open" PROVE SentHeard(g)'
  BY <1>1 DEF SentHeard
<1>3. PICK new \in Seq(Message) :
         /\ Quiet(g) \/ Enqueues(g) => new = <<>>
         /\ SendsNew(g) \/ Flushes(g) =>
               \E batch \in Batch : /\ sent'[g] = Append(sent[g], batch)
                                   /\ batch.messages = new
  BY OutboxOrdered
<1>4. /\ \A i \in 1..Len(downlink'[g]) :
               \/ i \in 1..Len(downlink[g]) /\ Carried(g, i)' = Carried(g, i)
               \/ Carried(g, i)' = new
               \/ Carried(g, i)' = <<>>
      /\ \A i \in 1..Len(downlink[g]) :
               i \in 1..Len(downlink'[g]) /\ Carried(g, i)' = Carried(g, i)
      /\ new # <<>> => \E i \in 1..Len(downlink'[g]) : Carried(g, i)' = new
  BY <1>2, <1>3, CarriedStep
<1>5. \A m : m \notin Elements(<<>>)
  BY DEF Elements
<1>6. \A m : (\E i \in 1..Len(downlink'[g]) : m \in Elements(Carried(g, i)'))
         <=> \/ \E i \in 1..Len(downlink[g]) : m \in Elements(Carried(g, i))
             \/ m \in Elements(new)
  BY <1>4, <1>5
<1>7. \A m : (\E k \in DOMAIN sent'[g] : m \in Elements(sent'[g][k].messages))
         <=> \/ \E k \in DOMAIN sent[g] : m \in Elements(sent[g][k].messages)
             \/ m \in Elements(new)
  <2>1. CASE Quiet(g) \/ Enqueues(g)
    <3>1. sent'[g] = sent[g] /\ new = <<>>
      BY <1>3, <2>1 DEF Quiet, Enqueues
    <3> QED BY <1>5, <3>1
  <2>2. CASE SendsNew(g) \/ Flushes(g)
    <3>1. PICK batch \in Batch :
             sent'[g] = Append(sent[g], batch) /\ batch.messages = new
      BY <1>3, <2>2
    <3>2. sent[g] \in Seq(Batch) /\ Len(sent[g]) \in Nat
      BY DEF TypeOK
    <3>3. /\ \A k \in DOMAIN sent[g] :
                 k \in DOMAIN sent'[g] /\ sent'[g][k] = sent[g][k]
          /\ \A k \in DOMAIN sent'[g] :
                 \/ k \in DOMAIN sent[g] /\ sent'[g][k] = sent[g][k]
                 \/ sent'[g][k] = batch
          /\ \E k \in DOMAIN sent'[g] : sent'[g][k] = batch
      <4>1. /\ DOMAIN sent[g] = 1..Len(sent[g])
            /\ DOMAIN sent'[g] = 1..(Len(sent[g]) + 1)
            /\ sent'[g][Len(sent[g]) + 1] = batch
            /\ \A k \in 1..Len(sent[g]) : sent'[g][k] = sent[g][k]
        BY <3>1, <3>2
      <4> QED BY <3>2, <4>1
    <3> QED BY <3>1, <3>3
  <2> QED BY <2>1, <2>2, OutboxStep
<1>8. \A m : (\E k \in DOMAIN sent[g] : m \in Elements(sent[g][k].messages))
         <=> \/ m \in Elements(events[g])
             \/ \E i \in 1..Len(downlink[g]) : m \in Elements(Carried(g, i))
  BY <1>2 DEF AllSentHeard, SentHeard
<1>9. \A m : (\E k \in DOMAIN sent'[g] : m \in Elements(sent'[g][k].messages))
         <=> \/ m \in Elements(events[g])
             \/ \E i \in 1..Len(downlink'[g]) : m \in Elements(Carried(g, i)')
  BY <1>6, <1>7, <1>8
<1> QED BY <1>1, <1>9 DEF SentHeard

LEMMA SentHeardReceive ==
    ASSUME LinkTypeOK, TypeOK, AllSentHeard, NEW h \in Handles, Receive(h)
    PROVE  SentHeard(h)'
<1> DEFINE n == Len(downlink[h])
           first == Carried(h, 1)
<1>1. /\ n \in Nat \ {0} /\ Len(downlink'[h]) = n - 1
      /\ UNCHANGED <<socket, sent>>
  BY ReceiveFacts DEF vars, pushVars
<1>2. /\ events'[h] = events[h] \o first
      /\ \A i \in 1..n - 1 : i + 1 \in 1..n /\ Carried(h, i)' = Carried(h, i + 1)
  BY <1>1, Hears
<1>3. events[h] \in Seq(Message) /\ first \in Seq(Message)
  <2>1. 1 \in 1..n
    BY <1>1
  <2> QED BY <2>1, StreamType
<1>4. \A m : m \in Elements(events[h] \o first)
              <=> m \in Elements(events[h]) \/ m \in Elements(first)
  <2> DEFINE e == events[h]
             w == e \o first
  <2>1. /\ DOMAIN e = 1..Len(e) /\ DOMAIN first = 1..Len(first)
        /\ DOMAIN w = 1..(Len(e) + Len(first))
        /\ Len(e) \in Nat /\ Len(first) \in Nat
        /\ \A i \in 1..Len(e) : w[i] = e[i]
        /\ \A i \in (Len(e) + 1)..(Len(e) + Len(first)) : w[i] = first[i - Len(e)]
    BY <1>3
  <2> HIDE DEF e, w, first
  <2>2. \A i \in DOMAIN w : \/ i \in DOMAIN e /\ w[i] = e[i]
                            \/ /\ i - Len(e) \in DOMAIN first
                               /\ w[i] = first[i - Len(e)]
    BY <2>1
  <2>3. \A i \in DOMAIN first : /\ i + Len(e) \in DOMAIN w
                                /\ w[i + Len(e)] = first[i]
    <3>1. ASSUME NEW i \in DOMAIN first
          PROVE  /\ i + Len(e) \in DOMAIN w /\ w[i + Len(e)] = first[i]
      <4>1. /\ i + Len(e) \in (Len(e) + 1)..(Len(e) + Len(first))
            /\ (i + Len(e)) - Len(e) = i
        BY <2>1, <3>1
      <4> QED BY <2>1, <4>1
    <3> QED BY <3>1
  <2>4. \A i \in DOMAIN e : i \in DOMAIN w /\ w[i] = e[i]
    BY <2>1
  <2>5. \A m : m \in Elements(w) <=> m \in Elements(e) \/ m \in Elements(first)
    BY <2>2, <2>3, <2>4 DEF Elements
  <2> QED BY <2>5 DEF e, w
<1>5. \A m : (\E i \in 1..n : m \in Elements(Carried(h, i)))
         <=> \/ m \in Elements(first)
             \/ \E i \in 1..n - 1 : m \in Elements(Carried(h, i)')
  <2>1. 1 \in 1..n
    BY <1>1
  <2>2. \A i \in 1..n : i = 1 \/ (i - 1 \in 1..n - 1 /\ (i - 1) + 1 = i)
    BY <1>1
  <2>3. \A i \in 1..n : i = 1 \/ \E j \in 1..n - 1 : Carried(h, j)' = Carried(h, i)
    <3>1. ASSUME NEW i \in 1..n, i # 1
          PROVE  \E j \in 1..n - 1 : Carried(h, j)' = Carried(h, i)
      <4>1. PICK j \in 1..n - 1 : j + 1 = i
        BY <2>2, <3>1
      <4> QED BY <1>2, <4>1
    <3> QED BY <3>1
  <2> QED BY <1>2, <2>1, <2>3
<1>6. CASE socket[h] = "open"
  <2>1. \A m : (\E k \in DOMAIN sent[h] : m \in Elements(sent[h][k].messages))
           <=> \/ m \in Elements(events[h])
               \/ \E i \in 1..n : m \in Elements(Carried(h, i))
    BY <1>6 DEF AllSentHeard, SentHeard
  <2>2. \A m : (\E k \in DOMAIN sent[h] : m \in Elements(sent[h][k].messages))
           <=> \/ m \in Elements(events'[h])
               \/ \E i \in 1..n - 1 : m \in Elements(Carried(h, i)')
    BY <1>2, <1>4, <1>5, <2>1
  <2> QED BY <1>1, <2>2 DEF SentHeard
<1>7. CASE socket[h] # "open"
  BY <1>1, <1>7 DEF SentHeard
<1> QED BY <1>6, <1>7

LEMMA SentHeardStep ==
    ASSUME LinkTypeOK, TypeOK, TypeOK', SocketsAgree, SeatsAgree, SeatsAsked,
           RoomsIsolated, OutboxesOpen, StreamsInOrder, AllSentHeard,
           [LinkNext]_linkVars
    PROVE  AllSentHeard'
<1>1. ASSUME NEW h \in Handles, Serve(h) \/ Wake(h), NEW g \in Handles
      PROVE  SentHeard(g)'
  BY <1>1, SentHeardBroker
<1>2. ASSUME NEW g \in Handles, sent'[g] = sent[g], events'[g] = events[g],
             downlink'[g] = downlink[g], socket'[g] = socket[g]
      PROVE  SentHeard(g)'
  <2>1. SentHeard(g)
    BY DEF AllSentHeard
  <2>2. \A i : Carried(g, i)' = Carried(g, i)
    BY <1>2 DEF Carried
  <2> QED BY <1>2, <2>1, <2>2 DEF SentHeard
<1>3. ASSUME NEW h \in Handles, Receive(h), NEW g \in Handles
      PROVE  SentHeard(g)'
  <2>1. CASE g = h
    BY <1>3, <2>1, SentHeardReceive
  <2>2. CASE g # h
    <3>1. /\ UNCHANGED <<sent, socket>>
          /\ downlink' = [downlink EXCEPT ![h] = Tail(downlink[h])]
      BY <1>3, ReceiveFacts DEF vars, pushVars
    <3>2. downlink'[g] = downlink[g] /\ events'[g] = events[g]
      BY <1>3, <2>2, <3>1, Hears DEF LinkTypeOK
    <3> QED BY <1>2, <3>1, <3>2
  <2> QED BY <2>1, <2>2
<1>4. ASSUME NEW h \in Handles, Open(h) \/ Close(h) \/ CloseSeen(h),
             NEW g \in Handles
      PROVE  SentHeard(g)'
  <2>1. CASE g # h
    <3>1. /\ events' = events /\ sent'[g] = sent[g] /\ socket'[g] = socket[g]
          /\ downlink'[g] = downlink[g]
      BY <1>4, <2>1 DEF Open, Connect, Close, CloseSeen, Disconnect, clientVars,
                        vars, pushVars, LinkTypeOK, TypeOK
    <3> QED BY <1>2, <3>1
  <2>2. CASE g = h /\ Open(h)
    <3>1. /\ connections[h] = "new" /\ socket[h] = "none"
          /\ UNCHANGED <<sent, downlink, events>>
      BY <2>2 DEF Open, Connect, pushVars, clientVars, SocketsAgree
    <3>2. /\ sent'[g] = <<>> /\ downlink'[g] = <<>> /\ events'[g] = <<>>
      BY <2>2, <3>1 DEF OutboxesOpen, SocketsAgree
    <3>3. DOMAIN <<>> = {} /\ Len(<<>>) = 0 /\ \A m : m \notin Elements(<<>>)
      BY DEF Elements
    <3>4. \A i : i \notin 1..0
      OBVIOUS
    <3> QED BY <3>2, <3>3, <3>4 DEF SentHeard
  <2>3. CASE g = h /\ (Close(h) \/ CloseSeen(h))
    <3>1. socket'[g] # "open"
      BY <2>3 DEF Close, CloseSeen, LinkTypeOK
    <3> QED BY <3>1 DEF SentHeard
  <2> QED BY <1>4, <2>1, <2>2, <2>3
<1>5. ASSUME NEW g \in Handles,
             \/ \E h \in Handles : \E q \in Asks[h] : Call(h, q)
             \/ PassTime \/ UNCHANGED linkVars
      PROVE  SentHeard(g)'
  <2>1. UNCHANGED <<sent, events, downlink, socket>>
    BY <1>5 DEF Call, PassTime, Tick, linkVars, clientVars, vars, pushVars
  <2> QED BY <1>2, <2>1
<1>6. \A g \in Handles : SentHeard(g)'
  BY <1>1, <1>3, <1>4, <1>5 DEF LinkNext
<1> QED BY <1>6 DEF AllSentHeard

(* Between the broker's `send` and the agent nothing is lost, and nothing   *)
(* is heard that was not sent, as long as the socket is open                *)
(* (ws-server.ts:41-45, rpc-client.ts:49-79, server.ts:135-149).            *)
THEOREM AlwaysSentIsHeard == LinkSpec => []SentIsHeard
<1>1. LinkSpec => []AllSentHeard
  BY LinkInductive, LinkOfBroker, StreamsAlwaysInOrder, SentHeardInit,
     SentHeardStep, PTL DEF LinkSpec
<1> QED BY <1>1, LinkInductive, SentHeardMeans, PTL
-----------------------------------------------------------------------------
(* The chat from end to end                                                 *)

\* t is found in s behind its first k messages.
Holds(s, k, t) ==
    k + Len(t) <= Len(s) /\ \A i \in 1..Len(t) : s[k + i] = t[i]

\* What is owed to h, if it may still be owed something, starts with what its
\* agent has heard.
HeardOfOwed(h) == connections[h] # "closed" => Holds(owed[h], 0, events[h])

\* Behind that, on an open socket, comes what each item of the queue towards h
\* carries, item i at place at[i], and at last what waits at the broker.
LaidAt(h, at) ==
    LET n == Len(downlink[h])
    IN  /\ at[1] = Len(events[h])
        /\ \A i \in 1..n + 1 : at[i] \in Nat
        /\ \A i \in 1..n : /\ at[i + 1] = at[i] + Len(Carried(h, i))
                           /\ Holds(owed[h], at[i], Carried(h, i))
        /\ Len(owed[h]) = at[n + 1] + Len(Queued(h))
        /\ Holds(owed[h], at[n + 1], Queued(h))

Laid(h) == socket[h] = "open" => \E at : LaidAt(h, at)

OwedInv ==
    /\ owed \in [Handles -> Seq(Message)]
    /\ \A h \in Handles : /\ connections[h] # "open" => owed[h] = <<>>
                          /\ HeardOfOwed(h)
                          /\ Laid(h)

LEMMA HoldsMore ==
    ASSUME NEW s \in Seq(Message), NEW k \in Nat, NEW t \in Seq(Message),
           Holds(s, k, t), NEW e \in Message
    PROVE  Holds(Append(s, e), k, t)
<1>1. /\ Len(Append(s, e)) = Len(s) + 1
      /\ \A j \in 1..Len(s) : Append(s, e)[j] = s[j]
  OBVIOUS
<1>2. \A i \in 1..Len(t) : k + i \in 1..Len(s)
  BY DEF Holds
<1> QED BY <1>1, <1>2 DEF Holds

LEMMA HoldsAppended ==
    ASSUME NEW s \in Seq(Message), NEW k \in Nat, NEW t \in Seq(Message),
           Len(s) = k + Len(t), Holds(s, k, t), NEW e \in Message
    PROVE  /\ Len(Append(s, e)) = k + Len(Append(t, e))
           /\ Holds(Append(s, e), k, Append(t, e))
<1> DEFINE a == Append(s, e)
           b == Append(t, e)
           n == Len(t)
<1>1. /\ n \in Nat /\ Len(a) = Len(s) + 1 /\ Len(b) = n + 1
      /\ \A j \in 1..Len(s) : a[j] = s[j]
      /\ \A j \in 1..n : b[j] = t[j]
      /\ a[Len(s) + 1] = e /\ b[n + 1] = e
  OBVIOUS
<1> HIDE DEF a, b, n
<1>2. ASSUME NEW i \in 1..n + 1
      PROVE  a[k + i] = b[i]
  <2>1. CASE i = n + 1
    <3>1. k + i = Len(s) + 1
      BY <1>1, <2>1 DEF n
    <3> QED BY <1>1, <2>1, <3>1
  <2>2. CASE i \in 1..n
    <3>1. k + i \in 1..Len(s) /\ s[k + i] = t[i]
      BY <1>1, <2>2 DEF Holds, n
    <3> QED BY <1>1, <2>2, <3>1
  <2> QED BY <1>1, <2>1, <2>2
<1>3. Len(a) = k + Len(b)
  BY <1>1 DEF n
<1>4. Holds(a, k, b)
  BY <1>1, <1>2, <1>3 DEF Holds
<1> QED BY <1>3, <1>4 DEF a, b

LEMMA HoldsNothing ==
    ASSUME NEW s \in Seq(Message), NEW k \in Nat, k <= Len(s)
    PROVE  Holds(s, k, <<>>)
  BY DEF Holds

LEMMA EmptyHolds ==
    <<>> \in Seq(Message) /\ Len(<<>>) = 0 /\ Holds(<<>>, 0, <<>>)
<1>1. <<>> \in Seq(Message) /\ Len(<<>>) = 0
  OBVIOUS
<1> QED BY <1>1 DEF Holds

\* A sequence that starts with e is e and the rest of it.
LEMMA HoldsSplit ==
    ASSUME NEW s \in Seq(Message), NEW e \in Seq(Message), Holds(s, 0, e)
    PROVE  e \o SubSeq(s, Len(e) + 1, Len(s)) = s
<1> DEFINE n == Len(e)
           k == Len(s)
           rest == SubSeq(s, n + 1, k)
           w == e \o rest
<1>1. n \in Nat /\ k \in Nat /\ n <= k /\ \A i \in 1..n : s[i] = e[i]
  BY DEF Holds
<1>2. /\ rest \in Seq(Message) /\ Len(rest) = k - n
      /\ \A i \in 1..k - n : rest[i] = s[n + i]
  <2>1. \A i \in n + 1..k : s[i] \in Message
    BY <1>1, ElementOfSeq
  <2> QED BY <1>1, <2>1, SubSeqProperties
<1> HIDE DEF rest, n, k
<1>3. /\ w \in Seq(Message) /\ Len(w) = k
      /\ \A i \in 1..k : w[i] = IF i <= n THEN e[i] ELSE rest[i - n]
  BY <1>1, <1>2, ConcatProperties DEF n
<1>4. ASSUME NEW i \in 1..k
      PROVE  w[i] = s[i]
  <2>1. CASE i <= n
    BY <1>1, <1>3, <2>1
  <2>2. CASE ~(i <= n)
    <3>1. i - n \in 1..k - n /\ n + (i - n) = i
      BY <1>1, <2>2
    <3> QED BY <1>2, <1>3, <2>2, <3>1
  <2> QED BY <2>1, <2>2
<1>5. w = s
  BY <1>3, <1>4, SeqEqual DEF k
<1> QED BY <1>5 DEF rest, n, k

\* Concatenated messages are found where the second followed the first.
LEMMA HoldsConcat ==
    ASSUME NEW s \in Seq(Message), NEW t \in Seq(Message), NEW u \in Seq(Message),
           Holds(s, 0, t), Holds(s, Len(t), u)
    PROVE  Holds(s, 0, t \o u)
<1>1. /\ Len(t) \in Nat /\ Len(u) \in Nat /\ Len(t \o u) = Len(t) + Len(u)
      /\ \A i \in 1..Len(t) + Len(u) :
            (t \o u)[i] = IF i <= Len(t) THEN t[i] ELSE u[i - Len(t)]
  BY ConcatProperties
<1>2. ASSUME NEW i \in 1..Len(t) + Len(u)
      PROVE  s[0 + i] = (t \o u)[i]
  <2>1. CASE i <= Len(t)
    BY <1>1, <2>1 DEF Holds
  <2>2. CASE ~(i <= Len(t))
    <3>1. i - Len(t) \in 1..Len(u) /\ Len(t) + (i - Len(t)) = i /\ 0 + i = i
      BY <1>1, <2>2
    <3> QED BY <1>1, <2>2, <3>1 DEF Holds
  <2> QED BY <2>1, <2>2
<1> QED BY <1>1, <1>2 DEF Holds

(* A step that lets what is owed to g lie as it lay: some messages, if any, *)
(* are sent, and some wait behind them.                                     *)
LEMMA LaidBehind ==
    ASSUME LinkTypeOK, TypeOK, TypeOK', NEW g \in Handles, NEW at, LaidAt(g, at),
           NEW new \in Seq(Message), owed'[g] \in Seq(Message),
           events'[g] = events[g],
           Len(downlink'[g]) \in Nat, Len(downlink[g]) <= Len(downlink'[g]),
           \A i \in 1..Len(downlink[g]) : Carried(g, i)' = Carried(g, i),
           new # <<>> => Len(downlink[g]) + 1 \in 1..Len(downlink'[g]),
           \A i \in 1..Len(downlink'[g]) :
              /\ i = Len(downlink[g]) + 1 => Carried(g, i)' = new
              /\ i > Len(downlink[g]) + 1 => Carried(g, i)' = <<>>,
           \A k \in Nat, t \in Seq(Message) :
              Holds(owed[g], k, t) => Holds(owed'[g], k, t),
           Holds(owed'[g], at[Len(downlink[g]) + 1], new),
           Len(owed'[g]) =
              (at[Len(downlink[g]) + 1] + Len(new)) + Len(Queued(g)'),
           Holds(owed'[g], at[Len(downlink[g]) + 1] + Len(new), Queued(g)')
    PROVE  \E to : LaidAt(g, to)'
<1> DEFINE n == Len(downlink[g])
           after == Len(downlink'[g])
           k == at[n + 1]
           l == k + Len(new)
           to == [i \in 1..after + 1 |-> IF i <= n + 1 THEN at[i] ELSE l]
<1>1. /\ n \in Nat /\ after \in Nat /\ n <= after
      /\ \A i \in 1..n : Carried(g, i) \in Seq(Message)
  BY StreamType
<1>2. /\ at[1] = Len(events[g])
      /\ \A i \in 1..n + 1 : at[i] \in Nat
      /\ \A i \in 1..n : /\ at[i + 1] = at[i] + Len(Carried(g, i))
                         /\ Holds(owed[g], at[i], Carried(g, i))
  BY DEF LaidAt
<1>3. k \in Nat /\ l \in Nat /\ Len(new) \in Nat
  BY <1>1, <1>2
<1>4. Queued(g)' \in Seq(Message)
  BY DEF TypeOK, Queued, PendingBatch
<1>5. l <= Len(owed'[g])
  BY <1>3, <1>4
<1>6. new = <<>> => l = k
  BY <1>3
<1>7. /\ to[1] = at[1] /\ to[after + 1] = l
      /\ \A i \in 1..after + 1 : to[i] \in Nat
  <2>1. CASE after = n
    <3>1. new = <<>> /\ after + 1 = n + 1 /\ 1 \in 1..n + 1
      BY <1>1, <2>1
    <3>2. \A i \in 1..n + 1 : to[i] = at[i]
      BY <1>1, <3>1
    <3>3. to[after + 1] = at[n + 1] /\ l = at[n + 1]
      BY <1>1, <1>6, <3>1, <3>2
    <3> QED BY <1>2, <3>1, <3>2, <3>3
  <2>2. CASE after # n
    <3>1. 1 \in 1..after + 1 /\ 1 <= n + 1 /\ after + 1 \in 1..after + 1
          /\ ~(after + 1 <= n + 1)
      BY <1>1, <2>2
    <3>2. \A i \in 1..after + 1 : i <= n + 1 => i \in 1..n + 1
      BY <1>1
    <3> HIDE DEF l
    <3>3. \A i \in 1..after + 1 : to[i] = IF i <= n + 1 THEN at[i] ELSE l
      OBVIOUS
    <3> HIDE DEF to
    <3> QED BY <1>2, <1>3, <3>1, <3>2, <3>3
  <2> QED BY <2>1, <2>2
<1>8. ASSUME NEW i \in 1..after
      PROVE  /\ to[i + 1] = to[i] + Len(Carried(g, i)')
             /\ Holds(owed'[g], to[i], Carried(g, i)')
  <2>1. CASE i \in 1..n
    <3>1. to[i] = at[i] /\ to[i + 1] = at[i + 1]
      BY <1>1, <2>1
    <3>2. /\ Carried(g, i)' = Carried(g, i) /\ Carried(g, i) \in Seq(Message)
          /\ at[i] \in Nat
      BY <1>1, <1>2, <2>1
    <3>3. /\ at[i + 1] = at[i] + Len(Carried(g, i))
          /\ Holds(owed'[g], at[i], Carried(g, i))
      BY <1>2, <2>1, <3>2
    <3> QED BY <3>1, <3>2, <3>3
  <2>2. CASE i = n + 1
    <3>1. to[i] = k /\ to[i + 1] = l /\ Carried(g, i)' = new
      BY <1>1, <2>2
    <3> QED BY <3>1
  <2>3. CASE i > n + 1
    <3>1. to[i] = l /\ to[i + 1] = l /\ Carried(g, i)' = <<>>
      BY <1>1, <2>3
    <3>2. Holds(owed'[g], l, <<>>)
      BY <1>3, <1>5, HoldsNothing
    <3> QED BY <1>3, <3>1, <3>2
  <2> QED BY <1>1, <2>1, <2>2, <2>3
<1>9. Len(owed'[g]) = to[after + 1] + Len(Queued(g)')
  BY <1>7
<1>10. Holds(owed'[g], to[after + 1], Queued(g)')
  BY <1>7
<1>11. to[1] = Len(events'[g])
  BY <1>2, <1>7
<1> HIDE DEF to, l, k
<1> QED BY <1>7, <1>8, <1>9, <1>10, <1>11 DEF LaidAt

\* The message that h says next.
Said(h) == LET r == membership[h].roomId
           IN  [id |-> Len(history[r]) + 1, roomId |-> r, from |-> membership[h].name]

\* m is queued for g, or sent to it at once.
Taken(g, m) ==
    \/ /\ pendingBatches'[g] # undefined /\ sent'[g] = sent[g]
       /\ Queued(g)' = Append(Queued(g), m)
    \/ /\ pendingBatches[g] = undefined /\ pendingBatches'[g] = undefined
       /\ sent'[g] = Append(sent[g], [roomId |-> m.roomId, messages |-> <<m>>])

(* What is said is a message taken on for those it is for and nobody else.  *)
LEMMA SpeakReaches ==
    ASSUME TypeOK, SeatsAgree, HistoryNumbered, OutboxesOpen,
           NEW h \in Handles, NEW mentions \in MentionSets, Speak(h, mentions)
    PROVE  /\ Joined(h) /\ membership[h].roomId \in RoomIds
           /\ Said(h) \in Message
           /\ Len(history[membership[h].roomId]) < HardCap
           /\ history' = [history EXCEPT ![membership[h].roomId] =
                             Append(history[membership[h].roomId], Said(h))]
           /\ UNCHANGED connectionVars
           /\ \A g \in Handles :
                 /\ IsFor(h, mentions, g) => connections[g] = "open"
                 /\ IF IsFor(h, mentions, g) THEN Taken(g, Said(h)) ELSE Quiet(g)
<1> DEFINE r == membership[h].roomId
           n == membership[h].name
           m == Said(h)
           targets == ResolveTargets(r, n, mentions)
<1>1. Joined(h) /\ r \in RoomIds /\ n \in Names
  BY JoinedFacts DEF Speak, SpeakAdmitted
<1>2. nextId[r] = Len(history[r]) + 1
  BY <1>1 DEF HistoryNumbered
<1>3. m = [id |-> nextId[r], roomId |-> r, from |-> n]
  BY <1>2 DEF Said
<1>4. /\ Len(history[r]) < HardCap
      /\ history' = [history EXCEPT ![r] = Append(history[r], m)]
      /\ UNCHANGED connectionVars
      /\ Push(m, targets)
  BY <1>3 DEF Speak
<1>5. m \in Message /\ m.roomId = r
  BY <1>1, <1>3 DEF Message, TypeOK
<1> HIDE DEF m, targets
<1>6. ASSUME NEW g \in Handles
      PROVE  /\ g \in Recipients(m, targets) <=> IsFor(h, mentions, g)
             /\ IsFor(h, mentions, g) => connections[g] = "open"
  BY <1>1, <1>5, RightRecipients DEF targets
<1>7. ASSUME NEW g \in Handles, ~IsFor(h, mentions, g)
      PROVE  Quiet(g)
  <2>1. g \notin Recipients(m, targets)
    BY <1>6, <1>7
  <2> QED BY <1>4, <2>1 DEF Push, Quiet
<1>8. ASSUME NEW g \in Handles, IsFor(h, mentions, g)
      PROVE  Taken(g, m)
  <2>1. g \in Recipients(m, targets) /\ connections[g] = "open"
    BY <1>6, <1>8
  <2>2. CASE ~Batching
    <3>1. /\ pendingBatches'[g] = pendingBatches[g] /\ pendingBatches[g] = undefined
          /\ sent'[g] = Append(sent[g], [roomId |-> m.roomId, messages |-> <<m>>])
      BY <1>4, <2>1, <2>2 DEF Push, OutboxesOpen
    <3> QED BY <3>1 DEF Taken
  <2>3. CASE Batching
    <3>1. pendingBatches'[g] = Enqueued(g, m) /\ sent'[g] = sent[g]
      BY <1>4, <2>1, <2>3 DEF Push
    <3>2. /\ Enqueued(g, m) \in PendingBatch
          /\ Enqueued(g, m).messages = Append(Queued(g), m)
      <4>1. CASE pendingBatches[g] = undefined
        <5>1. <<m>> \in Seq(Message) /\ Append(<<>>, m) = <<m>>
          BY <1>5
        <5> QED BY <1>1, <1>5, <4>1, <5>1 DEF Enqueued, PendingBatch, Queued
      <4>2. CASE pendingBatches[g] # undefined
        <5>1. /\ pendingBatches[g] \in PendingBatch
              /\ pendingBatches[g].messages \in Seq(Message)
          BY <4>2 DEF TypeOK, PendingBatch
        <5>2. Append(pendingBatches[g].messages, m) \in Seq(Message)
          BY <1>5, <5>1
        <5> QED BY <4>2, <5>1, <5>2 DEF Enqueued, PendingBatch, Queued
      <4> QED BY <4>1, <4>2
    <3>3. pendingBatches'[g] # undefined
      BY <3>1, <3>2, BrokerAssumption
    <3>4. Queued(g)' = Append(Queued(g), m)
      BY <3>1, <3>2, <3>3 DEF Queued
    <3> QED BY <3>1, <3>3, <3>4 DEF Taken
  <2> QED BY <2>2, <2>3
<1> QED BY <1>1, <1>4, <1>5, <1>6, <1>7, <1>8 DEF m

(* A request that is served says nothing and pushes nothing, or is a speak  *)
(* that owes what it says to those it is for.                               *)
LEMMA ServeOwes ==
    ASSUME LinkTypeOK, TypeOK, TypeOK', SeatsAgree, HistoryNumbered, OutboxesOpen,
           NEW h \in Handles, ServeAndOwe(h), owed \in [Handles -> Seq(Message)]
    PROVE  \/ UNCHANGED <<pushVars, history, owed>>
           \/ \E mentions \in MentionSets :
                 /\ Speak(h, mentions)
                 /\ owed' = [g \in Handles |-> IF IsFor(h, mentions, g)
                                               THEN Append(owed[g], Said(h))
                                               ELSE owed[g]]
<1> DEFINE q == Head(uplink[h]).request
           r == membership[h].roomId
           m == history'[r][Len(history'[r])]
<1>1. /\ Serve(h)
      /\ owed' = [g \in Handles |->
                    IF history' # history /\ IsFor(h, q.mentions, g)
                    THEN Append(owed[g], m) ELSE owed[g]]
  BY DEF ServeAndOwe
<1>2. PICK outcome \in Outcomes : Execute(h, q, outcome)
  BY <1>1, ServeFacts
<1>3. q \in Requests
  BY <1>1, ServeFacts DEF Upward
<1>4. \/ Speak(h, q.mentions) /\ q.method = "speak"
      \/ UNCHANGED <<pushVars, history>>
  BY <1>2 DEF Execute, Unjoined, Join, JoinRefused, Leave, Unseat,
     SpeakRateLimited, SpeakRoomFull, ReadHistory, ListMembers, vars,
     pushVars, roomVars
<1>5. CASE UNCHANGED <<pushVars, history>>
  <2>1. owed' = [g \in Handles |-> owed[g]]
    BY <1>1, <1>5
  <2> QED BY <1>5, <2>1
<1>6. CASE Speak(h, q.mentions) /\ q.method = "speak"
  <2>1. q.mentions \in MentionSets
    BY <1>3, <1>6, RequestFacts
  <2>2. /\ r \in RoomIds /\ Said(h) \in Message
        /\ history' = [history EXCEPT ![r] = Append(history[r], Said(h))]
    BY <1>6, <2>1, SpeakReaches
  <2>3. history[r] \in Seq(Message) /\ history'[r] = Append(history[r], Said(h))
    BY <2>2 DEF TypeOK
  <2>4. /\ m = Said(h) /\ Len(history'[r]) = Len(history[r]) + 1
    BY <2>2, <2>3
  <2>5. history' # history
    BY <2>3, <2>4
  <2> HIDE DEF m, q
  <2>6. owed' = [g \in Handles |-> IF IsFor(h, q.mentions, g)
                                   THEN Append(owed[g], Said(h)) ELSE owed[g]]
    BY <1>1, <2>4, <2>5
  <2> QED BY <1>6, <2>1, <2>6
<1> QED BY <1>4, <1>5, <1>6

\* What a step of the broker's end makes of g: nothing, a message that is
\* owed and taken on, or a batch sent.
Owes(g) ==
    \/ owed'[g] = owed[g] /\ Quiet(g)
    \/ owed'[g] = owed[g] /\ Flushes(g)
    \/ \E m \in Message : /\ owed'[g] = Append(owed[g], m) /\ Taken(g, m)
                          /\ connections[g] = "open"

LEMMA OwedCases ==
    ASSUME LinkTypeOK, TypeOK, TypeOK', SeatsAgree, SeatsAsked, HistoryNumbered,
           OutboxesOpen, owed \in [Handles -> Seq(Message)], NEW h \in Handles,
           ServeAndOwe(h) \/ (Wake(h) /\ UNCHANGED owed)
    PROVE  /\ UNCHANGED <<socket, events, connections>>
           /\ owed' = [g \in Handles |-> owed'[g]]
           /\ \A g \in Handles : Owes(g)
<1>1. Serve(h) \/ Wake(h)
  BY DEF ServeAndOwe
<1>2. UNCHANGED <<socket, events, connections>>
  BY <1>1, ServeFacts, WakeFacts, OutboxStep
<1>3. CASE Wake(h) /\ UNCHANGED owed
  <2>1. \A g \in Handles : Quiet(g) \/ Flushes(g)
    BY <1>3, WakeFlushes
  <2> QED BY <1>2, <1>3, <2>1 DEF Owes
<1>4. CASE ServeAndOwe(h)
  <2>1. CASE UNCHANGED <<pushVars, history, owed>>
    <3>1. \A g \in Handles : Quiet(g)
      BY <2>1 DEF pushVars, Quiet
    <3> QED BY <1>2, <2>1, <3>1 DEF Owes
  <2>2. CASE \E mentions \in MentionSets :
                /\ Speak(h, mentions)
                /\ owed' = [g \in Handles |-> IF IsFor(h, mentions, g)
                                              THEN Append(owed[g], Said(h))
                                              ELSE owed[g]]
    <3>1. PICK mentions \in MentionSets :
             /\ Speak(h, mentions)
             /\ owed' = [g \in Handles |-> IF IsFor(h, mentions, g)
                                           THEN Append(owed[g], Said(h))
                                           ELSE owed[g]]
      BY <2>2
    <3>2. /\ Said(h) \in Message
          /\ \A g \in Handles :
                /\ IsFor(h, mentions, g) => connections[g] = "open"
                /\ IF IsFor(h, mentions, g) THEN Taken(g, Said(h)) ELSE Quiet(g)
      BY <3>1, SpeakReaches
    <3> QED BY <1>2, <3>1, <3>2 DEF Owes
  <2> QED BY <1>4, <2>1, <2>2, ServeOwes
<1> QED BY <1>3, <1>4

LEMMA LaidBroker ==
    ASSUME LinkTypeOK, TypeOK, TypeOK', SeatsAgree, SeatsAsked, HistoryNumbered,
           OutboxesOpen, OwedInv, NEW h \in Handles,
           ServeAndOwe(h) \/ (Wake(h) /\ UNCHANGED owed),
           NEW g \in Handles, socket[g] = "open", owed'[g] \in Seq(Message)
    PROVE  \E to : LaidAt(g, to)'
<1> DEFINE n == Len(downlink[g])
<1>1. /\ Serve(h) \/ Wake(h)
      /\ events'[g] = events[g] /\ Owes(g)
  BY OwedCases DEF ServeAndOwe, OwedInv
<1>2. PICK at : LaidAt(g, at)
  BY DEF OwedInv, Laid
<1>3. n \in Nat /\ Queued(g) \in Seq(Message)
  BY StreamType
<1>4. PICK k \in Nat : k = at[n + 1]
  BY <1>2, <1>3 DEF LaidAt
<1>5. Len(owed[g]) = k + Len(Queued(g)) /\ Holds(owed[g], k, Queued(g))
  BY <1>2, <1>4 DEF LaidAt
<1>6. owed[g] \in Seq(Message) /\ sent[g] \in Seq(Batch)
  BY DEF OwedInv, TypeOK
<1>7. /\ n <= Len(downlink'[g]) /\ Len(downlink'[g]) \in Nat
  BY <1>1, NewsStep
<1>8. ASSUME NEW new \in Seq(Message),
             Quiet(g) \/ Enqueues(g) => new = <<>>,
             SendsNew(g) \/ Flushes(g) =>
                \E batch \in Batch : /\ sent'[g] = Append(sent[g], batch)
                                    /\ batch.messages = new,
             \A j \in Nat, t \in Seq(Message) :
                Holds(owed[g], j, t) => Holds(owed'[g], j, t),
             Holds(owed'[g], k, new),
             Len(owed'[g]) = (k + Len(new)) + Len(Queued(g)'),
             Holds(owed'[g], k + Len(new), Queued(g)')
      PROVE  \E to : LaidAt(g, to)'
  <2>1. /\ \A i \in 1..Len(downlink'[g]) :
              \/ i \in 1..n /\ Carried(g, i)' = Carried(g, i)
              \/ i = n + 1 /\ Carried(g, i)' = new
              \/ Carried(g, i)' = <<>>
        /\ \A i \in 1..n :
              i \in 1..Len(downlink'[g]) /\ Carried(g, i)' = Carried(g, i)
        /\ new # <<>> => n + 1 \in 1..Len(downlink'[g])
        /\ \A i \in 1..Len(downlink'[g]) : i = n + 1 => Carried(g, i)' = new
    BY <1>1, <1>8, CarriedStep
  <2>2. \A i \in 1..Len(downlink'[g]) :
           /\ i = n + 1 => Carried(g, i)' = new
           /\ i > n + 1 => Carried(g, i)' = <<>>
    <3>1. \A i \in 1..Len(downlink'[g]) :
             i > n + 1 => i \notin 1..n /\ i # n + 1
      BY <1>3, <1>7
    <3> QED BY <2>1, <3>1
  <2> QED BY <1>1, <1>2, <1>4, <1>7, <1>8, <2>1, <2>2, LaidBehind
<1>9. Quiet(g) \/ Enqueues(g) => sent'[g] = sent[g]
  BY DEF Quiet, Enqueues
<1>10. SendsNew(g) \/ Flushes(g) => sent'[g] # sent[g]
  <2>1. \A b : Len(Append(sent[g], b)) # Len(sent[g])
    BY <1>6
  <2> QED BY <2>1 DEF SendsNew, Flushes
<1>11. CASE owed'[g] = owed[g] /\ Quiet(g)
  <2>1. <<>> \in Seq(Message) /\ Len(<<>>) = 0 /\ k + 0 = k
    BY <1>4
  <2>2. Queued(g)' = Queued(g)
    BY <1>11 DEF Quiet, Queued
  <2>3. k <= Len(owed[g])
    BY <1>3, <1>4, <1>5
  <2>4. Holds(owed[g], k, <<>>)
    BY <1>4, <1>6, <2>3, HoldsNothing
  <2>5. ~SendsNew(g) /\ ~Flushes(g)
    BY <1>9, <1>10, <1>11
  <2> QED BY <1>5, <1>8, <1>11, <2>1, <2>2, <2>4, <2>5
<1>12. CASE owed'[g] = owed[g] /\ Flushes(g)
  <2> DEFINE batch == [roomId |-> pendingBatches[g].roomId, messages |-> Queued(g)]
  <2>1. pendingBatches[g] \in PendingBatch
    BY <1>12 DEF Flushes, TypeOK
  <2>2. batch \in Batch /\ batch.messages = Queued(g)
    BY <1>3, <2>1 DEF Batch, PendingBatch
  <2>3. sent'[g] = Append(sent[g], batch) /\ pendingBatches'[g] = undefined
    BY <1>12 DEF Flushes
  <2> HIDE DEF batch
  <2>4. Queued(g)' = <<>> /\ Len(<<>>) = 0
    BY <2>3 DEF Queued
  <2>5. /\ k + Len(Queued(g)) \in Nat
        /\ Len(owed[g]) = (k + Len(Queued(g))) + 0
    BY <1>3, <1>4, <1>5
  <2>6. Holds(owed[g], k + Len(Queued(g)), <<>>)
    BY <1>5, <1>6, <2>5, HoldsNothing
  <2>7. ~Quiet(g) /\ ~Enqueues(g)
    BY <1>9, <1>10, <1>12
  <2> QED BY <1>3, <1>5, <1>8, <1>12, <2>2, <2>3, <2>4, <2>5, <2>6, <2>7
<1>13. ASSUME NEW m \in Message, owed'[g] = Append(owed[g], m), Taken(g, m)
       PROVE  \E to : LaidAt(g, to)'
  <2>1. /\ Len(owed'[g]) = k + Len(Append(Queued(g), m))
        /\ Holds(owed'[g], k, Append(Queued(g), m))
    <3> DEFINE s == owed[g]
               t == Queued(g)
    <3>1. s \in Seq(Message) /\ t \in Seq(Message) /\ Len(s) = k + Len(t) /\ Holds(s, k, t)
      BY <1>3, <1>5, <1>6
    <3> HIDE DEF s, t
    <3>2. /\ Len(Append(s, m)) = k + Len(Append(t, m))
          /\ Holds(Append(s, m), k, Append(t, m))
      BY <3>1, HoldsAppended
    <3> QED BY <1>13, <3>2 DEF s, t
  <2>2. \A j \in Nat, t \in Seq(Message) :
           Holds(owed[g], j, t) => Holds(owed'[g], j, t)
    BY <1>6, <1>13, HoldsMore
  <2>3. CASE /\ sent'[g] = sent[g]
             /\ Queued(g)' = Append(Queued(g), m)
    <3>1. <<>> \in Seq(Message) /\ Len(<<>>) = 0 /\ k + 0 = k
      BY <1>4
    <3>2. k <= Len(owed'[g])
      BY <1>3, <1>4, <2>1
    <3>3. Holds(owed'[g], k, <<>>)
      BY <1>4, <3>2, HoldsNothing
    <3>4. ~SendsNew(g) /\ ~Flushes(g)
      BY <1>10, <2>3
    <3> QED BY <1>8, <2>1, <2>2, <2>3, <3>1, <3>3, <3>4
  <2>4. CASE /\ pendingBatches[g] = undefined /\ pendingBatches'[g] = undefined
             /\ sent'[g] = Append(sent[g], [roomId |-> m.roomId, messages |-> <<m>>])
    <3> DEFINE batch == [roomId |-> m.roomId, messages |-> <<m>>]
    <3>1. batch \in Batch /\ batch.messages = <<m>> /\ <<m>> \in Seq(Message)
      BY DEF Batch, Message
    <3>2. sent'[g] = Append(sent[g], batch)
      BY <2>4
    <3> HIDE DEF batch
    <3>3. Queued(g) = <<>> /\ Queued(g)' = <<>> /\ Len(<<>>) = 0
      BY <2>4 DEF Queued
    <3>4. Append(Queued(g), m) = <<m>> /\ Len(<<m>>) = 1
      BY <3>3
    <3>5. k + Len(<<m>>) \in Nat /\ Len(owed'[g]) = (k + Len(<<m>>)) + 0
      BY <1>4, <2>1, <3>4
    <3>6. Holds(owed'[g], k + Len(<<m>>), <<>>)
      BY <3>5, HoldsNothing
    <3>7. ~Quiet(g) /\ ~Enqueues(g)
      <4>1. Len(Append(sent[g], batch)) # Len(sent[g])
        BY <1>6
      <4> QED BY <1>9, <3>2, <4>1
    <3>8. Holds(owed'[g], k, <<m>>)
      BY <2>1, <3>4
    <3> QED BY <1>8, <2>2, <3>1, <3>2, <3>3, <3>5, <3>6, <3>7, <3>8
  <2> QED BY <1>13, <2>3, <2>4 DEF Taken
<1> QED BY <1>1, <1>11, <1>12, <1>13 DEF Owes

LEMMA OwedBroker ==
    ASSUME LinkTypeOK, TypeOK, TypeOK', SocketsAgree, SeatsAgree, SeatsAsked,
           HistoryNumbered, OutboxesOpen, OwedInv, NEW h \in Handles,
           ServeAndOwe(h) \/ (Wake(h) /\ UNCHANGED owed)
    PROVE  OwedInv'
<1>1. /\ UNCHANGED <<socket, events, connections>>
      /\ owed' = [g \in Handles |-> owed'[g]]
      /\ \A g \in Handles : Owes(g)
  BY OwedCases DEF OwedInv
<1>2. ASSUME NEW g \in Handles
      PROVE  /\ owed'[g] \in Seq(Message)
             /\ connections[g] # "open" => owed'[g] = owed[g]
             /\ Holds(owed[g], 0, events[g]) => Holds(owed'[g], 0, events[g])
  <2>1. owed[g] \in Seq(Message) /\ events[g] \in Seq(Message)
    BY DEF OwedInv, LinkTypeOK
  <2>2. CASE owed'[g] = owed[g]
    BY <2>1, <2>2
  <2>3. ASSUME NEW m \in Message, owed'[g] = Append(owed[g], m),
               connections[g] = "open"
        PROVE  /\ owed'[g] \in Seq(Message)
               /\ connections[g] # "open" => owed'[g] = owed[g]
               /\ Holds(owed[g], 0, events[g]) => Holds(owed'[g], 0, events[g])
    BY <2>1, <2>3, HoldsMore
  <2> QED BY <1>1, <2>2, <2>3 DEF Owes
<1>3. owed' \in [Handles -> Seq(Message)]
  BY <1>1, <1>2
<1>4. ASSUME NEW g \in Handles
      PROVE  /\ connections'[g] # "open" => owed'[g] = <<>>
             /\ HeardOfOwed(g)'
             /\ Laid(g)'
  <2>1. connections[g] # "open" => owed[g] = <<>>
    BY DEF OwedInv
  <2>2. HeardOfOwed(g)
    BY DEF OwedInv
  <2>3. HeardOfOwed(g)'
    BY <1>1, <1>2, <2>2 DEF HeardOfOwed
  <2>4. CASE socket[g] = "open"
    <3>1. \E to : LaidAt(g, to)'
      BY <1>2, <2>4, LaidBroker
    <3> QED BY <1>1, <1>2, <2>1, <2>3, <3>1 DEF Laid
  <2>5. CASE socket[g] # "open"
    BY <1>1, <1>2, <2>1, <2>3, <2>5 DEF Laid
  <2> QED BY <2>4, <2>5
<1> QED BY <1>3, <1>4 DEF OwedInv

(* What an agent hears next is what it is owed next.                        *)
LEMMA OwedReceive ==
    ASSUME LinkTypeOK, TypeOK, SocketsAgree, OwedInv,
           NEW h \in Handles, Receive(h), UNCHANGED owed
    PROVE  HeardOfOwed(h)' /\ Laid(h)'
<1> DEFINE n == Len(downlink[h])
           first == Carried(h, 1)
<1>1. /\ n \in Nat \ {0} /\ Len(downlink'[h]) = n - 1
      /\ UNCHANGED <<socket, connections, pendingBatches>>
  BY ReceiveFacts DEF vars, connectionVars, pushVars
<1>2. /\ events'[h] = events[h] \o first
      /\ \A i \in 1..n - 1 : i + 1 \in 1..n /\ Carried(h, i)' = Carried(h, i + 1)
  BY <1>1, Hears
<1>3. socket[h] = "open" /\ connections[h] = "open"
  BY <1>1 DEF SocketsAgree
<1>4. PICK at : LaidAt(h, at)
  BY <1>3 DEF OwedInv, Laid
<1>5. /\ events[h] \in Seq(Message) /\ first \in Seq(Message)
      /\ owed[h] \in Seq(Message) /\ Queued(h)' = Queued(h)
  <2>1. 1 \in 1..n
    BY <1>1
  <2> QED BY <1>1, <2>1, StreamType DEF OwedInv, Queued
<1>6. /\ at[1] = Len(events[h]) /\ at[2] = at[1] + Len(first)
      /\ Holds(owed[h], at[1], first)
      /\ \A i \in 1..n + 1 : at[i] \in Nat
      /\ \A i \in 1..n : /\ at[i + 1] = at[i] + Len(Carried(h, i))
                         /\ Holds(owed[h], at[i], Carried(h, i))
      /\ Len(owed[h]) = at[n + 1] + Len(Queued(h))
      /\ Holds(owed[h], at[n + 1], Queued(h))
  <2>1. 1 \in 1..n /\ 1 + 1 = 2
    BY <1>1
  <2> QED BY <1>4, <2>1 DEF LaidAt
<1>7. Holds(owed'[h], 0, events'[h])
  <2>1. Holds(owed[h], 0, events[h])
    BY <1>3 DEF OwedInv, HeardOfOwed
  <2>2. Holds(owed[h], Len(events[h]), first)
    BY <1>6
  <2>3. Holds(owed[h], 0, events[h] \o first)
    BY <1>5, <2>1, <2>2, HoldsConcat
  <2> QED BY <1>2, <2>3
<1>8. PICK to : to = [i \in 1..n |-> at[i + 1]]
  OBVIOUS
<1>9. /\ to[1] = Len(events'[h])
      /\ to[n] = at[n + 1]
      /\ \A i \in 1..n : to[i] \in Nat
      /\ \A i \in 1..n - 1 : /\ to[i + 1] = to[i] + Len(Carried(h, i)')
                             /\ Holds(owed'[h], to[i], Carried(h, i)')
  <2>1. 1 \in 1..n /\ n \in 1..n /\ 1 + 1 = 2
    BY <1>1
  <2>2. to[1] = Len(events'[h])
    <3>1. Len(events'[h]) = Len(events[h]) + Len(first)
      BY <1>2, <1>5
    <3> QED BY <1>6, <1>8, <2>1, <3>1
  <2>3. \A i \in 1..n : i + 1 \in 1..n + 1
    BY <1>1
  <2>4. \A i \in 1..n - 1 : i \in 1..n /\ i + 1 \in 1..n
    BY <1>1
  <2> HIDE DEF n
  <2>5. \A i \in 1..n - 1 :
           /\ to[i] = at[i + 1] /\ to[i + 1] = at[(i + 1) + 1]
           /\ at[(i + 1) + 1] = at[i + 1] + Len(Carried(h, i + 1))
           /\ Holds(owed[h], at[i + 1], Carried(h, i + 1))
    BY <1>6, <1>8, <2>4
  <2> QED BY <1>2, <1>6, <1>8, <2>1, <2>2, <2>3, <2>5
<1>10. (n - 1) + 1 = n
  BY <1>1
<1> HIDE DEF n
<1>11. LaidAt(h, to)'
  <2>1. /\ to[1] = Len(events'[h])
        /\ \A i \in 1..(n - 1) + 1 : to[i] \in Nat
        /\ \A i \in 1..n - 1 : /\ to[i + 1] = to[i] + Len(Carried(h, i)')
                               /\ Holds(owed'[h], to[i], Carried(h, i)')
        /\ Len(owed'[h]) = to[(n - 1) + 1] + Len(Queued(h)')
        /\ Holds(owed'[h], to[(n - 1) + 1], Queued(h)')
    BY <1>5, <1>6, <1>9, <1>10
  <2>2. Len(downlink'[h]) = n - 1
    BY <1>1 DEF n
  <2> QED BY <2>1, <2>2 DEF LaidAt
<1> QED BY <1>1, <1>7, <1>11 DEF HeardOfOwed, Laid

LEMMA OwedInit == EndToEndInit => OwedInv
<1> SUFFICES ASSUME EndToEndInit PROVE OwedInv
  OBVIOUS
<1>1. /\ owed = [h \in Handles |-> <<>>]
      /\ \A h \in Handles : events[h] = <<>> /\ socket[h] = "none"
  BY DEF EndToEndInit, LinkInit
<1>2. <<>> \in Seq(Message) /\ Holds(<<>>, 0, <<>>)
  BY EmptyHolds
<1>3. \A h \in Handles : HeardOfOwed(h)
  BY <1>1, <1>2 DEF HeardOfOwed
<1> QED BY <1>1, <1>2, <1>3 DEF OwedInv, Laid

LEMMA OwedStep ==
    ASSUME LinkTypeOK, TypeOK, TypeOK', SocketsAgree, SeatsAgree, SeatsAsked,
           HistoryNumbered, OutboxesOpen, OwedInv, [EndToEndNext]_endToEndVars
    PROVE  OwedInv'
<1>1. ASSUME NEW h \in Handles,
             ServeAndOwe(h) \/ (Wake(h) /\ UNCHANGED owed)
      PROVE  OwedInv'
  BY <1>1, OwedBroker
\* Who is not concerned is owed, hears and has under way what was.
<1>2. ASSUME NEW g \in Handles, owed'[g] = owed[g], events'[g] = events[g],
             connections'[g] = connections[g],
             \/ socket'[g] # "open"
             \/ /\ socket'[g] = socket[g] /\ downlink'[g] = downlink[g]
                /\ pendingBatches'[g] = pendingBatches[g]
      PROVE  /\ connections'[g] # "open" => owed'[g] = <<>>
             /\ HeardOfOwed(g)'
             /\ Laid(g)'
  <2>1. (connections[g] # "open" => owed[g] = <<>>) /\ HeardOfOwed(g) /\ Laid(g)
    BY DEF OwedInv
  <2>2. HeardOfOwed(g)'
    BY <1>2, <2>1 DEF HeardOfOwed
  <2>3. CASE socket'[g] # "open"
    BY <1>2, <2>1, <2>2, <2>3 DEF Laid
  <2>4. CASE /\ socket'[g] = socket[g] /\ downlink'[g] = downlink[g]
             /\ pendingBatches'[g] = pendingBatches[g]
    <3>1. \A i : Carried(g, i)' = Carried(g, i)
      BY <2>4 DEF Carried
    <3>2. Queued(g)' = Queued(g)
      BY <2>4 DEF Queued
    <3>3. \A at : LaidAt(g, at) => LaidAt(g, at)'
      BY <1>2, <2>4, <3>1, <3>2 DEF LaidAt
    <3>4. Laid(g)'
      BY <2>1, <2>4, <3>3 DEF Laid
    <3> QED BY <1>2, <2>1, <2>2, <3>4
  <2> QED BY <1>2, <2>3, <2>4
<1>3. ASSUME NEW h \in Handles, Receive(h), UNCHANGED owed
      PROVE  OwedInv'
  <2>1. /\ UNCHANGED <<connections, pendingBatches, socket>>
        /\ downlink' = [downlink EXCEPT ![h] = Tail(downlink[h])]
    BY <1>3, ReceiveFacts DEF vars, connectionVars, pushVars
  <2>2. HeardOfOwed(h)' /\ Laid(h)'
    BY <1>3, OwedReceive
  <2>3. \A g \in Handles \ {h} : downlink'[g] = downlink[g] /\ events'[g] = events[g]
    BY <1>3, <2>1, Hears DEF LinkTypeOK
  <2>4. \A g \in Handles : HeardOfOwed(g)' /\ Laid(g)'
    BY <1>2, <1>3, <2>1, <2>2, <2>3
  <2> QED BY <1>3, <2>1, <2>4 DEF OwedInv
<1>4. ASSUME NEW h \in Handles, Open(h), UNCHANGED owed
      PROVE  OwedInv'
  <2>1. /\ connections[h] = "new" /\ socket[h] = "none"
        /\ connections' = [connections EXCEPT ![h] = "open"]
        /\ socket' = [socket EXCEPT ![h] = "open"]
        /\ UNCHANGED <<pendingBatches, downlink, events>>
    BY <1>4 DEF Open, Connect, pushVars, clientVars, SocketsAgree
  <2>2. /\ owed'[h] = <<>> /\ events'[h] = <<>> /\ downlink'[h] = <<>>
        /\ pendingBatches'[h] = undefined
    BY <1>4, <2>1 DEF OwedInv, SocketsAgree, OutboxesOpen
  <2>3. /\ Holds(<<>>, 0, <<>>) /\ Len(<<>>) = 0
        /\ <<>> \in Seq(Message)
    BY EmptyHolds
  <2>4. HeardOfOwed(h)'
    BY <2>2, <2>3 DEF HeardOfOwed
  <2>5. Queued(h)' = <<>>
    BY <2>2 DEF Queued
  <2>6. Laid(h)'
    <3>1. PICK at : at = [i \in {1} |-> 0]
      OBVIOUS
    <3>2. at[1] = 0 /\ 0 + 1 = 1 /\ \A i \in 1..1 : i = 1
      BY <3>1
    <3>3. \A i : i \notin 1..0
      OBVIOUS
    <3>4. LaidAt(h, at)'
      BY <2>2, <2>3, <2>5, <3>2, <3>3 DEF LaidAt
    <3> QED BY <3>4 DEF Laid
  <2>7. ASSUME NEW g \in Handles \ {h}
        PROVE  /\ connections'[g] # "open" => owed'[g] = <<>>
               /\ HeardOfOwed(g)' /\ Laid(g)'
    BY <1>2, <1>4, <2>1 DEF LinkTypeOK, TypeOK
  <2> QED BY <1>4, <2>2, <2>4, <2>6, <2>7 DEF OwedInv
<1>5. ASSUME NEW h \in Handles, Close(h), UNCHANGED owed
      PROVE  OwedInv'
  <2>1. /\ socket' = [socket EXCEPT ![h] = "closed"]
        /\ downlink' = [downlink EXCEPT ![h] = <<>>]
        /\ UNCHANGED <<connections, pendingBatches, events>>
    BY <1>5 DEF Close, vars, connectionVars, pushVars, clientVars
  <2>2. \A g \in Handles : \/ socket'[g] # "open"
                           \/ socket'[g] = socket[g] /\ downlink'[g] = downlink[g]
    BY <2>1 DEF LinkTypeOK
  <2> QED BY <1>2, <1>5, <2>1, <2>2 DEF OwedInv
<1>6. ASSUME NEW h \in Handles, CloseSeenAndForget(h)
      PROVE  OwedInv'
  <2>1. /\ socket[h] = "closed" /\ owed' = [owed EXCEPT ![h] = <<>>]
        /\ connections' = [connections EXCEPT ![h] = "closed"]
        /\ pendingBatches' = [pendingBatches EXCEPT ![h] = undefined]
        /\ UNCHANGED <<socket, downlink, events>>
    BY <1>6 DEF CloseSeenAndForget, CloseSeen, Disconnect, clientVars
  <2>2. /\ owed'[h] = <<>> /\ connections'[h] = "closed" /\ <<>> \in Seq(Message)
        /\ socket'[h] # "open"
    BY <2>1 DEF OwedInv, TypeOK
  <2>3. HeardOfOwed(h)' /\ Laid(h)'
    BY <2>2 DEF HeardOfOwed, Laid
  <2>4. ASSUME NEW g \in Handles \ {h}
        PROVE  /\ connections'[g] # "open" => owed'[g] = <<>>
               /\ HeardOfOwed(g)' /\ Laid(g)'
    <3>1. owed'[g] = owed[g] /\ connections'[g] = connections[g]
          /\ pendingBatches'[g] = pendingBatches[g]
      BY <2>1 DEF OwedInv, TypeOK
    <3> QED BY <1>2, <2>1, <3>1
  <2>5. owed' \in [Handles -> Seq(Message)]
    BY <2>1, <2>2 DEF OwedInv
  <2> QED BY <2>2, <2>3, <2>4, <2>5 DEF OwedInv
<1>7. ASSUME UNCHANGED owed,
             \/ \E h \in Handles : \E q \in Asks[h] : Call(h, q)
             \/ PassTime \/ UNCHANGED linkVars
      PROVE  OwedInv'
  <2>1. UNCHANGED <<connections, socket, events, pendingBatches, downlink>>
    BY <1>7 DEF Call, PassTime, Tick, linkVars, clientVars, vars, pushVars,
                connectionVars
  <2> QED BY <1>2, <1>7, <2>1 DEF OwedInv
<1> QED BY <1>1, <1>3, <1>4, <1>5, <1>6, <1>7 DEF EndToEndNext, endToEndVars
-----------------------------------------------------------------------------
(* The steps of the abstract chat                                           *)

\* The variables of the chat, as the two ends have them.
AllDue == [h \in Handles |-> IF h \in Gone THEN <<>> ELSE HeardAndOwed(h)]
AllHanded == [h \in Handles |-> IF h \in Gone THEN 0 ELSE Len(events[h])]

\* What is due is what is owed.
LEMMA DueIsOwed == LinkTypeOK /\ OwedInv => AllDue = owed
<1> SUFFICES ASSUME LinkTypeOK, OwedInv PROVE AllDue = owed
  OBVIOUS
<1>1. ASSUME NEW h \in Handles
      PROVE  AllDue[h] = owed[h]
  <2>1. /\ connections[h] # "open" => owed[h] = <<>>
        /\ HeardOfOwed(h)
        /\ owed[h] \in Seq(Message) /\ events[h] \in Seq(Message)
    BY DEF OwedInv, LinkTypeOK
  <2>2. CASE h \in Gone
    BY <2>1, <2>2 DEF AllDue, Gone
  <2>3. CASE h \notin Gone
    <3>1. HeardAndOwed(h) = owed[h]
      BY <2>1, <2>3, HoldsSplit DEF HeardOfOwed, HeardAndOwed, Gone
    <3> QED BY <2>3, <3>1 DEF AllDue
  <2> QED BY <2>2, <2>3
<1> QED BY <1>1 DEF AllDue, OwedInv

LEMMA AgentsChatInit == EndToEndInit => Chat!Init
<1> SUFFICES ASSUME EndToEndInit PROVE Chat!Init
  OBVIOUS
<1>1. /\ membership = [h \in Handles |-> undefined]
      /\ history = [r \in RoomIds |-> <<>>]
      /\ Gone = {}
      /\ \A h \in Handles : events[h] = <<>>
  BY DEF EndToEndInit, LinkInit, Init, Gone
<1>2. AllDue = [h \in Handles |-> <<>>]
  <2>1. LinkTypeOK /\ OwedInv
    BY LinkTypeInit, OwedInit DEF EndToEndInit
  <2> QED BY <2>1, DueIsOwed DEF EndToEndInit
<1>3. AllHanded = [h \in Handles |-> 0]
  BY <1>1 DEF AllHanded
<1> QED BY <1>1, <1>2, <1>3 DEF Chat!Init, AllDue, AllHanded

\* What the chat sees of a step that neither says nor hands over anything.
LEMMA ChatStutters ==
    ASSUME AllDue' = AllDue, UNCHANGED <<membership, history, events, Gone>>
    PROVE  UNCHANGED Chat!vars
<1>1. AllHanded' = AllHanded
  BY DEF AllHanded
<1> QED BY <1>1 DEF Chat!vars, AllDue, AllHanded

LEMMA AgentSays ==
    ASSUME TypeOK, SeatsAgree, HistoryNumbered, OutboxesOpen,
           AllDue = owed, AllDue' = owed', events' = events,
           NEW h \in Handles, NEW mentions \in MentionSets, Speak(h, mentions),
           owed' = [g \in Handles |-> IF IsFor(h, mentions, g)
                                      THEN Append(owed[g], Said(h)) ELSE owed[g]]
    PROVE  Chat!Say(h, mentions)
<1> DEFINE r == membership[h].roomId
           m == [id |-> Len(history[r]) + 1, roomId |-> r, from |-> membership[h].name]
<1>1. /\ Joined(h) /\ Len(history[r]) < HardCap
      /\ history' = [history EXCEPT ![r] = Append(history[r], m)]
      /\ UNCHANGED connectionVars
  BY SpeakReaches DEF Said
<1>2. h \in Chat!Sitting
  BY <1>1 DEF Joined, Chat!Sitting
<1>3. ASSUME NEW g \in Handles
      PROVE  g \in Chat!Audience(h, mentions) <=> IsFor(h, mentions, g)
  BY DEF Chat!Audience, Chat!Sitting, IsFor
<1>4. AllDue' = [g \in Handles |-> IF g \in Chat!Audience(h, mentions)
                                   THEN Append(AllDue[g], m) ELSE AllDue[g]]
  BY <1>3 DEF Said
<1>5. UNCHANGED <<membership, Gone, AllHanded>>
  BY <1>1 DEF connectionVars, Gone, AllHanded
<1> HIDE DEF m
<1>6. /\ h \in Chat!Sitting /\ Len(history[r]) < HardCap
      /\ history' = [history EXCEPT ![r] = Append(history[r], m)]
  BY <1>1, <1>2
<1> USE DEF m
<1> QED BY <1>4, <1>5, <1>6 DEF Chat!Say, AllDue, AllHanded

LEMMA AgentTakesSeat ==
    ASSUME TypeOK, SeatsAgree, AllDue' = AllDue, events' = events,
           NEW h \in Handles, NEW r \in RoomIds, NEW n \in Names, Join(h, r, n)
    PROVE  Chat!TakeSeat(h, r, n)
<1>1. /\ connections[h] = "open" /\ membership[h] = undefined
      /\ n \notin members[r]
      /\ membership' = [membership EXCEPT ![h] = Seat(r, n)]
      /\ UNCHANGED <<connections, history>>
  BY DEF Join, JoinReaches, RoomRefuses
<1>2. /\ h \notin Gone \cup Chat!Sitting
      /\ UNCHANGED <<Gone, AllHanded>>
  BY <1>1 DEF Gone, Chat!Sitting, AllHanded
<1>3. ASSUME NEW d \in Chat!Sitting
      PROVE  membership[d].roomId # r \/ membership[d].name # n
  <2>1. d \in Handles /\ membership[d] # undefined /\ membership[d] \in Seats
    BY DEF Chat!Sitting, TypeOK
  <2>2. memberToHandle[membership[d]] = d /\ d # undefined
    BY <2>1, BrokerAssumption DEF SeatsAgree
  <2>3. membership[d].name \in members[membership[d].roomId]
    BY <2>1, <2>2 DEF SeatsAgree
  <2> QED BY <1>1, <2>3
<1> QED BY <1>1, <1>2, <1>3 DEF Chat!TakeSeat, AllDue, AllHanded, Seat

LEMMA AgentGivesUpSeat ==
    ASSUME AllDue' = AllDue, events' = events, NEW h \in Handles, Leave(h)
    PROVE  Chat!GiveUpSeat(h)
<1>1. /\ h \in Chat!Sitting
      /\ membership' = [membership EXCEPT ![h] = undefined]
      /\ UNCHANGED <<connections, history>>
  BY DEF Leave, Unseat, Chat!Sitting
<1>2. UNCHANGED <<Gone, AllHanded>>
  BY <1>1 DEF Gone, AllHanded
<1> QED BY <1>1, <1>2 DEF Chat!GiveUpSeat, AllDue, AllHanded

LEMMA AgentVanishes ==
    ASSUME TypeOK, AllDue = owed, AllDue' = owed', NEW h \in Handles,
           CloseSeenAndForget(h)
    PROVE  Chat!Vanish(h)
<1>1. /\ Disconnect(h) /\ events' = events
      /\ owed' = [owed EXCEPT ![h] = <<>>]
  BY DEF CloseSeenAndForget, CloseSeen, clientVars
<1>2. /\ membership' = [membership EXCEPT ![h] = undefined]
      /\ history' = history
  BY <1>1 DEF Disconnect, ReleaseSeat, Unseat, roomVars, TypeOK
<1>3. h \notin Gone /\ Gone' = Gone \cup {h}
  BY <1>1 DEF Disconnect, Gone, TypeOK
<1>4. AllHanded' = [AllHanded EXCEPT ![h] = 0]
  BY <1>1, <1>3 DEF AllHanded
<1>5. AllDue' = [AllDue EXCEPT ![h] = <<>>]
  BY <1>1
<1> QED BY <1>2, <1>3, <1>4, <1>5 DEF Chat!Vanish, AllDue, AllHanded

(* What an agent hears of a batch is handed over; an answer is nothing.     *)
LEMMA AgentHears ==
    ASSUME LinkTypeOK, TypeOK, TypeOK', SocketsAgree, OwedInv, OwedInv',
           AllDue = owed, AllDue' = owed', NEW h \in Handles, Receive(h),
           UNCHANGED owed
    PROVE  Chat!HandOver(h) \/ UNCHANGED Chat!vars
<1> DEFINE first == Carried(h, 1)
<1>1. /\ UNCHANGED <<membership, history, connections, socket>>
      /\ Len(downlink[h]) \in Nat \ {0}
  BY ReceiveFacts DEF vars, connectionVars, roomVars
<1>2. Gone' = Gone
  BY <1>1 DEF Gone
<1>3. h \notin Gone
  BY <1>1 DEF SocketsAgree, Gone
<1>4. /\ events'[h] = events[h] \o first
      /\ \A g \in Handles \ {h} : events'[g] = events[g]
  BY Hears
<1>5. events[h] \in Seq(Message) /\ first \in Seq(Message) /\ owed[h] \in Seq(Message)
  <2>1. 1 \in 1..Len(downlink[h])
    BY <1>1
  <2> QED BY <2>1, StreamType DEF OwedInv
<1>6. /\ Len(events'[h]) = Len(events[h]) + Len(first)
      /\ Len(events[h]) \in Nat /\ Len(first) \in Nat
  BY <1>4, <1>5
<1>7. Len(events'[h]) <= Len(owed[h])
  <2>1. connections'[h] # "closed"
    BY <1>1, <1>3 DEF Gone
  <2>2. Holds(owed'[h], 0, events'[h])
    BY <2>1 DEF OwedInv, HeardOfOwed
  <2> QED BY <1>6, <2>2 DEF Holds
<1>8. AllHanded' = [AllHanded EXCEPT ![h] = Len(events'[h])]
  BY <1>2, <1>3, <1>4 DEF AllHanded
<1>9. CASE Len(first) = 0
  <2>1. Len(events'[h]) = AllHanded[h]
    BY <1>3, <1>6, <1>9 DEF AllHanded
  <2>2. AllHanded' = AllHanded
    BY <1>8, <2>1 DEF AllHanded
  <2> QED BY <1>1, <1>2, <2>2 DEF Chat!vars, AllDue, AllHanded
<1>10. CASE Len(first) # 0
  <2>1. Len(events'[h]) \in (AllHanded[h] + 1)..Len(AllDue[h])
    BY <1>3, <1>5, <1>6, <1>7, <1>10 DEF AllHanded
  <2>2. \E k \in (AllHanded[h] + 1)..Len(AllDue[h]) :
           AllHanded' = [AllHanded EXCEPT ![h] = k]
    BY <1>8, <2>1
  <2>3. AllDue' = AllDue
    OBVIOUS
  <2> QED BY <1>1, <1>2, <2>2, <2>3 DEF Chat!HandOver, AllDue, AllHanded
<1> QED BY <1>9, <1>10

(* A request that is served takes a seat, gives one up, says something, or  *)
(* is nothing to the chat, a refused one among them.                        *)
LEMMA AgentServed ==
    ASSUME LinkTypeOK, TypeOK, TypeOK', SeatsAgree, HistoryNumbered, OutboxesOpen,
           OwedInv, AllDue = owed, AllDue' = owed', NEW h \in Handles,
           ServeAndOwe(h)
    PROVE  Chat!Next \/ UNCHANGED Chat!vars
<1> DEFINE q == Head(uplink[h]).request
<1>1. Serve(h) /\ events' = events /\ owed \in [Handles -> Seq(Message)]
  BY ServeFacts DEF ServeAndOwe, OwedInv
<1>2. PICK outcome \in Outcomes : Execute(h, q, outcome)
  BY <1>1, ServeFacts
<1>3. q \in Requests
  BY <1>1, ServeFacts DEF Upward
<1>4. connections' = connections
  BY <1>1, ServeSeats
<1> HIDE DEF q
<1>5. ASSUME NEW mentions \in MentionSets, Speak(h, mentions),
             owed' = [g \in Handles |-> IF IsFor(h, mentions, g)
                                        THEN Append(owed[g], Said(h)) ELSE owed[g]]
      PROVE  Chat!Next
  <2>1. Chat!Say(h, mentions)
    BY <1>1, <1>5, AgentSays
  <2> QED BY <2>1 DEF Chat!Next
<1>6. ASSUME UNCHANGED <<pushVars, history, owed>>
      PROVE  Chat!Next \/ UNCHANGED Chat!vars
  <2>1. AllDue' = AllDue
    BY <1>6
  <2>2. ASSUME q.method = "join", \E r \in MayJoin[h] : Join(h, r, q.name)
        PROVE  Chat!Next
    <3>1. PICK r \in MayJoin[h] : Join(h, r, q.name)
      BY <2>2
    <3>2. r \in RoomIds
      BY RoomOfClient
    <3>3. q.name \in Names
      BY <1>3, <2>2, <3>1, RequestFacts DEF Join, RoomRefuses
    <3>4. Chat!TakeSeat(h, r, q.name)
      BY <1>1, <2>1, <3>1, <3>2, <3>3, AgentTakesSeat
    <3> QED BY <3>2, <3>3, <3>4 DEF Chat!Next
  <2>3. ASSUME Leave(h)
        PROVE  Chat!Next
    <3>1. Chat!GiveUpSeat(h)
      BY <1>1, <2>1, <2>3, AgentGivesUpSeat
    <3> QED BY <3>1 DEF Chat!Next
  <2>4. ASSUME membership' = membership
        PROVE  UNCHANGED Chat!vars
    <3>1. Gone' = Gone
      BY <1>4 DEF Gone
    <3> QED BY <1>1, <1>6, <2>1, <2>4, <3>1, ChatStutters
  <2>5. \/ q.method = "join" /\ \E r \in MayJoin[h] : Join(h, r, q.name)
        \/ Leave(h)
        \/ membership' = membership
    BY <1>2 DEF Execute, Unjoined, JoinRefused, Speak, SpeakRateLimited,
       SpeakRoomFull, ReadHistory, ListMembers, vars, connectionVars
  <2> QED BY <2>2, <2>3, <2>4, <2>5
<1> QED BY <1>1, <1>5, <1>6, ServeOwes

LEMMA AgentsChatStep ==
    ASSUME LinkTypeOK, TypeOK, TypeOK', SocketsAgree, SeatsAgree,
           HistoryNumbered, OutboxesOpen, OwedInv, OwedInv',
           AllDue = owed, AllDue' = owed', [EndToEndNext]_endToEndVars
    PROVE  [Chat!Next]_(Chat!vars)
<1>1. ASSUME UNCHANGED <<membership, history, events, Gone, owed>>
      PROVE  UNCHANGED Chat!vars
  BY <1>1, ChatStutters
<1>2. ASSUME NEW h \in Handles, ServeAndOwe(h)
      PROVE  Chat!Next \/ UNCHANGED Chat!vars
  BY <1>2, AgentServed
<1>3. ASSUME NEW h \in Handles, Receive(h), UNCHANGED owed
      PROVE  Chat!Next \/ UNCHANGED Chat!vars
  BY <1>3, AgentHears DEF Chat!Next
<1>4. ASSUME NEW h \in Handles, CloseSeenAndForget(h)
      PROVE  Chat!Next
  <2>1. Chat!Vanish(h)
    BY <1>4, AgentVanishes
  <2> QED BY <2>1 DEF Chat!Next
<1>5. ASSUME NEW h \in Handles, Wake(h), UNCHANGED owed
      PROVE  UNCHANGED Chat!vars
  <2>1. UNCHANGED <<membership, history, connections, events>>
    BY <1>5, WakeFacts, WakeFlushes
  <2> QED BY <1>1, <1>5, <2>1 DEF Gone
<1>6. ASSUME NEW h \in Handles, Open(h), UNCHANGED owed
      PROVE  UNCHANGED Chat!vars
  <2>1. /\ UNCHANGED <<membership, history, events>>
        /\ connections[h] = "new"
        /\ connections' = [connections EXCEPT ![h] = "open"]
    BY <1>6 DEF Open, Connect, clientVars, roomVars
  <2>2. Gone' = Gone
    BY <2>1 DEF Gone, TypeOK
  <2> QED BY <1>1, <1>6, <2>1, <2>2
<1>7. ASSUME UNCHANGED owed,
             \/ \E h \in Handles : Close(h) \/ \E q \in Asks[h] : Call(h, q)
             \/ PassTime \/ UNCHANGED linkVars
      PROVE  UNCHANGED Chat!vars
  <2>1. UNCHANGED <<membership, history, connections, events>>
    BY <1>7 DEF Close, Call, PassTime, Tick, linkVars, clientVars, vars,
                connectionVars, roomVars
  <2> QED BY <1>1, <1>7, <2>1 DEF Gone
<1> QED BY <1>2, <1>3, <1>4, <1>5, <1>6, <1>7 DEF EndToEndNext, endToEndVars
-----------------------------------------------------------------------------
LEMMA LinkObserved == EndToEndSpec => LinkSpec
<1>1. EndToEndInit => LinkInit
  BY DEF EndToEndInit
<1>2. [EndToEndNext]_endToEndVars => [LinkNext]_linkVars
  BY DEF EndToEndNext, endToEndVars, LinkNext, CloseSeenAndForget, ServeAndOwe
<1> QED BY <1>1, <1>2, PTL DEF EndToEndSpec, LinkSpec

\* What the steps of the chat rest on.
EndToEndInv == /\ LinkTypeOK /\ TypeOK /\ SocketsAgree /\ SeatsAgree /\ SeatsAsked
               /\ HistoryNumbered /\ OutboxesOpen /\ OwedInv
               /\ AllDue = owed

LEMMA EndToEndInductive == EndToEndSpec => []EndToEndInv
<1>1. LinkSpec => []HistoryNumbered
  BY LinkImplementsBroker, HistoryAlwaysNumbered, PTL
<1>2. EndToEndSpec => [](LinkTypeOK /\ TypeOK /\ SocketsAgree /\ SeatsAgree
                         /\ SeatsAsked /\ HistoryNumbered /\ OutboxesOpen)
  BY <1>1, LinkObserved, LinkInductive, LinkOfBroker, PTL
<1>3. LinkTypeOK /\ TypeOK /\ TypeOK' /\ SocketsAgree /\ SeatsAgree /\ SeatsAsked
      /\ HistoryNumbered /\ OutboxesOpen /\ OwedInv
      /\ [EndToEndNext]_endToEndVars => OwedInv'
  BY OwedStep
<1> QED BY <1>2, <1>3, OwedInit, DueIsOwed, PTL DEF EndToEndSpec, EndToEndInv

(* The agents at the far ends of their sockets have the abstract chat: what *)
(* is said in a room is due at once to whoever it mentions, and what an     *)
(* agent hears is what is due to it, in order, each message once and none   *)
(* left out, whatever was refused, batched, delayed or under way when a     *)
(* socket closed (room.ts:118-127, broker.ts:193-231, ws-server.ts:40-55,   *)
(* rpc-client.ts:41-79, server.ts:135-149).                                 *)
THEOREM AgentsHaveChat == EndToEndSpec => AgentsChat
<1>1. EndToEndInv /\ EndToEndInv' /\ [EndToEndNext]_endToEndVars
        => [Chat!Next]_(Chat!vars)
  BY AgentsChatStep DEF EndToEndInv
<1> QED BY <1>1, EndToEndInductive, AgentsChatInit, PTL
        DEF EndToEndSpec, AgentsChat, Chat!Spec
=============================================================================
