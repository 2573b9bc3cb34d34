----------------------------- MODULE Connection -----------------------------
(* A channel server's calls on the broker: RpcClient at one end, the        *)
(* WebSocket server and the dispatcher at the other, and between them a     *)
(* socket that keeps order and may close at any moment. A handle stands for *)
(* one channel server, its socket and its connection at the broker.         *)
EXTENDS Broker

CONSTANTS MaxCalls,       \* bound on the calls a client makes
          Asks            \* the requests its agent may make

\* What the tools make of an agent's request, with good arguments or bad. The
\* channel server adds its room and token to a join itself.
Requests == [method : {"join"}, name : Names \cup BadNames]
              \cup [method : {"speak"}, mentions : MentionSets]
              \cup [method : {"leave", "list_members", "read_history", "invalid"}]

ASSUME CallsAssumption == /\ MaxCalls \in [Handles -> Nat]
                          /\ Asks \in [Handles -> SUBSET Requests]
                          /\ \A h \in Handles : \E r \in RoomIds : MayJoin[h] = {r}
                          /\ undefined \notin Requests

VARIABLES socket,         \* the WebSocket, as its client sees it
          uplink,         \* requests on their way to the broker
          downlink,       \* responses and notifications on their way back
          pending,        \* RpcClient.#pending: the call behind each id
          nextCallId,     \* RpcClient.#nextId
          toldSeat,       \* history: where the answers to the joins and leaves
                          \* of a client say that it sits
          welcomed,       \* history: a join of the client was answered ok
          events          \* history: messages passed on to the agent

callVars == <<pending, nextCallId, toldSeat, welcomed>>
clientVars == <<callVars, events>>
linkVars == <<vars, socket, uplink, downlink, clientVars>>

LinkInit ==
    /\ Init
    /\ socket = [h \in Handles |-> "none"]
    /\ uplink = [h \in Handles |-> <<>>]
    /\ downlink = [h \in Handles |-> <<>>]
    /\ pending = [h \in Handles |-> [id \in 1..MaxCalls[h] |-> undefined]]
    /\ nextCallId = [h \in Handles |-> 1]
    /\ toldSeat = [h \in Handles |-> undefined]
    /\ welcomed = [h \in Handles |-> FALSE]
    /\ events = [h \in Handles |-> <<>>]
-----------------------------------------------------------------------------
(* The broker's end *)

\* A mutation: a request that fails is dropped without an answer.
RepliesToSuccess(id, outcome) ==
    IF outcome = "error" THEN <<>>
    ELSE <<[kind |-> "response", id |-> id, outcome |-> outcome]>>

\* dispatch turns every outcome of a request, errors too, into one response.
Replies(id, outcome) ==
    <<[kind |-> "response", id |-> id, outcome |-> outcome]>>

\* The notification of a batch handed to g's `send` in this step.
Notifications(g) ==
    IF Len(sent'[g]) > Len(sent[g])
    THEN <<[kind |-> "room_batch", batch |-> sent'[g][Len(sent'[g])]]>>
    ELSE <<>>

\* A mutation: notifications are sent ahead of what is already queued.
Ahead(queue, notifications, replies) == notifications \o queue \o replies

\* ws.send, in the order of the calls: what the handler pushes, its response.
Queue(queue, notifications, replies) == queue \o notifications \o replies

\* Everything this step sends; a socket that is gone swallows it.
Transmit(h, replies) ==
    downlink' = [g \in Handles |->
                   IF socket[g] = "open"
                   THEN Queue(downlink[g], Notifications(g),
                              IF g = h THEN replies ELSE <<>>)
                   ELSE <<>>]

Unjoined(h) == membership[h] = undefined /\ UNCHANGED vars

\* executeMethod: request q of h comes to this outcome. A join refused for its
\* description does what one refused for its name does, and one refused for its
\* token what an invalid request does; they have no requests of their own.
Execute(h, q, outcome) ==
    \/ /\ q.method = "join" /\ outcome = "ok"
       /\ \E r \in MayJoin[h] : Join(h, r, q.name)
    \/ /\ q.method = "join" /\ outcome = "error"
       /\ \/ \E r \in MayJoin[h] : JoinRefused(h, r, q.name, TRUE)
          \/ membership[h] # undefined /\ UNCHANGED vars
    \/ /\ q.method = "leave" /\ outcome = "ok"
       /\ Leave(h) \/ Unjoined(h)
    \/ /\ q.method = "speak"
       /\ \/ outcome = "ok" /\ Speak(h, q.mentions)
          \/ outcome = "rate_limited" /\ SpeakRateLimited(h)
          \/ outcome = "error" /\ (SpeakRoomFull(h) \/ Unjoined(h))
    \/ /\ q.method = "read_history"
       /\ \/ outcome = "ok" /\ ReadHistory(h)
          \/ outcome = "error" /\ Unjoined(h)
    \/ /\ q.method = "list_members"
       /\ \/ outcome = "ok" /\ ListMembers(h)
          \/ outcome = "error" /\ Unjoined(h)
    \/ q.method = "invalid" /\ outcome = "error" /\ UNCHANGED vars

\* The message handler of the WebSocket server, for the next request.
Serve(h) ==
    /\ connections[h] = "open"
    /\ uplink[h] # <<>>
    /\ \E outcome \in {"ok", "rate_limited", "error"} :
          /\ Execute(h, Head(uplink[h]).request, outcome)
          /\ Transmit(h, Replies(Head(uplink[h]).id, outcome))
    /\ uplink' = [uplink EXCEPT ![h] = Tail(@)]
    /\ UNCHANGED <<socket, clientVars>>

\* A batch timer fires.
Wake(h) ==
    /\ FlushBatch(h)
    /\ Transmit(h, <<>>)
    /\ UNCHANGED <<socket, uplink, clientVars>>

\* The close handler. Requests that have not been read by now are lost.
CloseSeen(h) ==
    /\ socket[h] = "closed"
    /\ Disconnect(h)
    /\ uplink' = [uplink EXCEPT ![h] = <<>>]
    /\ UNCHANGED <<socket, downlink, clientVars>>
-----------------------------------------------------------------------------
(* The client's end *)

Open(h) ==
    /\ Connect(h)
    /\ socket' = [socket EXCEPT ![h] = "open"]
    /\ UNCHANGED <<uplink, downlink, clientVars>>

\* A mutation: ids are reused as calls settle.
CallIdReused(h) ==
    Cardinality({i \in 1..MaxCalls[h] : pending[h][i] # undefined}) + 1

CallId(h) == nextCallId[h]

\* RpcClient.call. On a socket that has closed, send discards the request.
Call(h, q) ==
    LET id == CallId(h)
    IN  /\ socket[h] # "none"
        /\ nextCallId[h] <= MaxCalls[h]
        /\ nextCallId' = [nextCallId EXCEPT ![h] = @ + 1]
        /\ pending' = [pending EXCEPT ![h][id] = q]
        /\ uplink' = IF socket[h] = "open"
                     THEN [uplink EXCEPT ![h] =
                             Append(@, [id |-> id, request |-> q])]
                     ELSE uplink
        /\ UNCHANGED <<vars, socket, downlink, toldSeat, welcomed, events>>

\* onMessage for a response. One that no call waits for is ignored.
Settle(h, response) ==
    LET q == pending[h][response.id]
    IN  IF q = undefined
        THEN UNCHANGED callVars
        ELSE /\ pending' = [pending EXCEPT ![h][response.id] = undefined]
             /\ toldSeat' =
                  [toldSeat EXCEPT ![h] =
                     IF response.outcome # "ok" THEN @
                     ELSE IF q.method = "join"
                     THEN Seat(CHOOSE r \in MayJoin[h] : TRUE, q.name)
                     ELSE IF q.method = "leave" THEN undefined ELSE @]
             /\ welcomed' = [welcomed EXCEPT ![h] =
                               @ \/ (q.method = "join"
                                     /\ response.outcome = "ok")]
             /\ UNCHANGED nextCallId

\* A mutation: a batch of one message is taken for an empty one.
PassedOnIfSeveral(batch) ==
    IF Len(batch.messages) <= 1 THEN <<>> ELSE batch.messages

\* onNotification: one channel event with the messages of the batch, none if
\* there are none.
PassedOn(batch) == batch.messages

Notify(h, batch) ==
    /\ events' = [events EXCEPT ![h] = @ \o PassedOn(batch)]
    /\ UNCHANGED callVars

\* onMessage.
Receive(h) ==
    /\ downlink[h] # <<>>
    /\ \/ /\ Head(downlink[h]).kind = "response"
          /\ Settle(h, Head(downlink[h]))
          /\ UNCHANGED events
       \/ /\ Head(downlink[h]).kind = "room_batch"
          /\ Notify(h, Head(downlink[h]).batch)
    /\ downlink' = [downlink EXCEPT ![h] = Tail(@)]
    /\ UNCHANGED <<vars, socket, uplink>>

\* The socket closes for its client: the session ends, the daemon stops, the
\* connection breaks. Nothing more arrives; the close listener only logs.
Close(h) ==
    /\ socket[h] = "open"
    /\ socket' = [socket EXCEPT ![h] = "closed"]
    /\ downlink' = [downlink EXCEPT ![h] = <<>>]
    /\ UNCHANGED <<vars, uplink, clientVars>>

\* The clock of the daemon moves on.
PassTime == Tick /\ UNCHANGED <<socket, uplink, downlink, clientVars>>
-----------------------------------------------------------------------------
LinkNext ==
    \/ \E h \in Handles :
          \/ Open(h) \/ Close(h) \/ CloseSeen(h)
          \/ \E q \in Asks[h] : Call(h, q)
          \/ Serve(h) \/ Wake(h) \/ Receive(h)
    \/ PassTime

LinkSpec == LinkInit /\ [][LinkNext]_linkVars

\* Both ends read what has arrived, timers fire, and a closed socket is
\* noticed. Agents owe nobody a call, and sockets need not close.
LinkFairness ==
    \A h \in Handles : /\ WF_linkVars(Serve(h))
                       /\ WF_linkVars(Receive(h))
                       /\ WF_linkVars(Wake(h))
                       /\ WF_linkVars(CloseSeen(h))

FairLinkSpec == LinkSpec /\ LinkFairness
-----------------------------------------------------------------------------
Waiting(h) == {id \in 1..MaxCalls[h] : pending[h][id] # undefined}

\* The messages under way for the calls of h, each at its place in its queue.
Travelling(h) ==
    {[at |-> "up", place |-> i, id |-> uplink[h][i].id] : i \in DOMAIN uplink[h]}
      \cup {[at |-> "down", place |-> i, id |-> downlink[h][i].id] :
              i \in {j \in DOMAIN downlink[h] : downlink[h][j].kind = "response"}}

(* dispatcher.ts:23-25, every error is mapped to a response: on an open     *)
(* socket each call that waits has exactly one message under way, its       *)
(* request or its response, whatever the broker makes of the call.          *)
CallsAccounted ==
    \A h \in Handles : socket[h] = "open" =>
        /\ {m.id : m \in Travelling(h)} = Waiting(h)
        /\ Cardinality(Travelling(h)) = Cardinality(Waiting(h))

(* The client is never wrong about its seat: with no join or leave under    *)
(* way it sits at the broker where the answers it got say, although calls   *)
(* may be pipelined and some refused.                                       *)
SeatAsTold ==
    \A h \in Handles :
        (/\ socket[h] = "open"
         /\ \A id \in Waiting(h) : pending[h][id].method \notin {"join", "leave"})
            => membership[h] = toldSeat[h]

(* A session is not woken before it knows that it joined: a notification is *)
(* never ahead of the answer to the client's first successful join.         *)
JoinAnsweredFirst ==
    \A h \in Handles : \A i \in DOMAIN downlink[h] :
        downlink[h][i].kind = "room_batch" =>
            \/ welcomed[h]
            \/ \E j \in 1..(i - 1) :
                  /\ downlink[h][j].kind = "response"
                  /\ downlink[h][j].outcome = "ok"
                  /\ pending[h][downlink[h][j].id].method = "join"

\* The messages of all the batches in a sequence of them.
MessagesOf(batches) ==
    UNION {{batches[k].messages[i] : i \in DOMAIN batches[k].messages} :
             k \in DOMAIN batches}

\* The batches on their way to h.
Arriving(h) == {downlink[h][i].batch :
                  i \in {j \in DOMAIN downlink[h] :
                           downlink[h][j].kind = "room_batch"}}

(* "Messages never cross room boundaries" (README.md:142), from end to end: *)
(* an agent hears nothing that was not said in the room of its project,     *)
(* whatever its name and whoever bears it elsewhere.                        *)
AgentsIsolated ==
    \A h \in Handles : \A i \in DOMAIN events[h] :
        events[h][i].roomId \in MayJoin[h]

(* What an agent hears of its room, it hears once and in the order in which *)
(* it was said, whatever shared a batch, waited for a timer, or was under   *)
(* way when the agent left and came back.                                   *)
HeardInOrder ==
    \A h \in Handles : \A i, j \in DOMAIN events[h] :
        i < j => events[h][i].id < events[h][j].id

(* Nothing is lost or made up between the broker's `send` and the agent: on *)
(* an open socket every message sent was heard or is under way.             *)
SentIsHeard ==
    \A h \in Handles : socket[h] = "open" =>
        MessagesOf(sent[h]) =
          {events[h][i] : i \in DOMAIN events[h]}
            \cup UNION {{b.messages[i] : i \in DOMAIN b.messages} :
                          b \in Arriving(h)}

(* Every call is answered as long as its socket stays open.                 *)
AnsweredUnlessCut ==
    \A h \in Handles : \A id \in 1..MaxCalls[h] :
        (pending[h][id] # undefined)
            ~> (pending[h][id] = undefined \/ socket[h] = "closed")

\* Messages the broker has taken on for h, waiting or handed to its socket.
TakenOn(h) ==
    (IF pendingBatches[h] = undefined THEN {}
     ELSE {pendingBatches[h].messages[i] : i \in DOMAIN pendingBatches[h].messages})
      \cup MessagesOf(sent[h])

(* "The other window wakes up on its own" (README.md:55): from the batch    *)
(* through the timer, the socket and the client, a message for a session    *)
(* reaches its agent, unless the socket closes. (The room of h is one, so   *)
(* an id names the message.)                                                *)
AddressedWake ==
    \A h \in Handles, id \in 1..HardCap :
        (\E m \in TakenOn(h) : m.id = id)
            ~> (\/ \E i \in DOMAIN events[h] : events[h][i].id = id
                \/ socket[h] = "closed")

(* "The broker drops it after IPC disconnect" (the design of 2026-05-11,    *)
(* line 116): the seat of a session that went away becomes free, whatever   *)
(* of its requests are still served.                                        *)
GoneLeaveRoom ==
    \A h \in Handles : (socket[h] = "closed") ~> (membership[h] = undefined)

(* BACKLOG.md:91: when the socket closes "tool calls start failing". They   *)
(* would have to be settled, the one in flight and the ones that follow.    *)
EveryCallReturns ==
    \A h \in Handles : \A id \in 1..MaxCalls[h] :
        (pending[h][id] # undefined) ~> (pending[h][id] = undefined)
=============================================================================
