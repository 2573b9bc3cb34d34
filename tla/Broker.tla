------------------------------- MODULE Broker -------------------------------
(* The broker daemon's core: packages/broker/src/broker.ts together with    *)
(* the rooms (room.ts), the room registry (room-manager.ts) and the limiter *)
(* (rate-limiter.ts) it calls. The daemon is one JavaScript thread, so each *)
(* public method, and each firing of a batch timer, is one atomic action.   *)
(*                                                                          *)
(* Requests that are rejected before they touch any state (NOT_CONNECTED,   *)
(* ALREADY_JOINED, BAD_AUTH, INVALID_ROOM_ID, NOT_JOINED) are stuttering    *)
(* steps here and have no action.                                           *)
EXTENDS SlidingWindow

CONSTANTS Handles,        \* connection handles `connect` may ever return
          RoomIds,        \* room ids that match ROOM_ID_PATTERN
          Names,          \* names that match NAME_PATTERN and are not reserved
          BadNames,       \* malformed and reserved names, EVERYONE among them
          EVERYONE,       \* the mention that stands for the whole room
          MentionSets,    \* what parseMentions may return for a message
          MayJoin,        \* rooms the client behind a handle asks to join
          HardCap,        \* messages a room retains before ROOM_FULL
          HistoryTtlMs,   \* age after which an empty room may be evicted
          Batching,       \* pushBatchMs # 0
          CallsGc,        \* whether the embedding program ever calls gc()
          MaxTime,        \* bound on the clock
          undefined

\* The name under which a connection sits in a room; membershipKey joins the
\* two with ':', which neither pattern admits, so the key is the pair.
Seats == [roomId : RoomIds, name : Names]
Seat(r, n) == [roomId |-> r, name |-> n]

\* text, at and mentions of a RoomMessage are payload nothing reads back.
Message == [id : Nat \ {0}, roomId : RoomIds, from : Names]
Batch == [roomId : RoomIds, messages : Seq(Message)]
PendingBatch == [roomId : RoomIds, messages : Seq(Message), timer : BOOLEAN]

ASSUME BrokerAssumption ==
    /\ EVERYONE \in BadNames
    /\ Names \cap BadNames = {}
    /\ MentionSets \subseteq SUBSET (Names \cup BadNames)
    /\ MayJoin \in [Handles -> SUBSET RoomIds]
    /\ HardCap \in Nat \ {0}
    /\ HistoryTtlMs \in Nat
    /\ Batching \in BOOLEAN
    /\ CallsGc \in BOOLEAN
    /\ MaxTime \in Nat
    /\ undefined \notin Nat \cup Handles
    /\ undefined \notin Seats /\ undefined \notin PendingBatch

VARIABLES
    now,              \* Date.now(): the clock all parts of the broker share
    \* Broker
    connections,      \* #connections: a handle is never reused after closing
    membership,       \* (roomId, memberName) of a connection, set together
    memberToHandle,   \* #memberToHandle
    pendingBatches,   \* #pendingBatches
    sent,             \* batches handed to a live connection's `send`
    \* RoomManager
    entries,          \* keys of #entries
    lastEmptyAt,      \* RoomEntry.lastEmptyAt
    \* Room, one per entry
    members,          \* keys of #members
    lastActivityAt,   \* #lastActivityAt
    history,          \* #history
    nextId,           \* #nextId
    \* SenderRateLimiter
    timestamps        \* #timestamps

connectionVars == <<connections, membership, memberToHandle>>
pushVars == <<pendingBatches, sent>>
managerVars == <<entries, lastEmptyAt>>
roomVars == <<members, lastActivityAt, history, nextId>>
vars == <<now, connectionVars, pushVars, managerVars, roomVars, timestamps>>

TypeOK ==
    /\ now \in Nat
    /\ connections \in [Handles -> {"new", "open", "closed"}]
    /\ membership \in [Handles -> Seats \cup {undefined}]
    /\ memberToHandle \in [Seats -> Handles \cup {undefined}]
    /\ pendingBatches \in [Handles -> PendingBatch \cup {undefined}]
    /\ sent \in [Handles -> Seq(Batch)]
    /\ entries \subseteq RoomIds
    /\ lastEmptyAt \in [RoomIds -> Nat \cup {undefined}]
    /\ members \in [RoomIds -> SUBSET Names]
    /\ lastActivityAt \in [RoomIds -> [Names -> Nat \cup {undefined}]]
    /\ history \in [RoomIds -> Seq(Message)]
    /\ nextId \in [RoomIds -> Nat \ {0}]
    /\ timestamps \in [Names -> Seq(Nat)]

\* A mutation: ids counted from zero.
ZeroId == 0

FirstId == 1

Init ==
    /\ now = 0
    /\ connections = [h \in Handles |-> "new"]
    /\ membership = [h \in Handles |-> undefined]
    /\ memberToHandle = [s \in Seats |-> undefined]
    /\ pendingBatches = [h \in Handles |-> undefined]
    /\ sent = [h \in Handles |-> <<>>]
    /\ entries = {}
    /\ lastEmptyAt = [r \in RoomIds |-> undefined]
    /\ members = [r \in RoomIds |-> {}]
    /\ lastActivityAt = [r \in RoomIds |-> [n \in Names |-> undefined]]
    /\ history = [r \in RoomIds |-> <<>>]
    /\ nextId = [r \in RoomIds |-> FirstId]
    /\ timestamps = [n \in Names |-> <<>>]
-----------------------------------------------------------------------------
(* RoomManager and Room *)

\* A mutation: a room that fills again goes on being aged.
EmptySinceEver(r, roster) ==
    IF lastEmptyAt[r] = undefined /\ roster = {} THEN now ELSE lastEmptyAt[r]

\* lastEmptyAt of r once recordMembershipChange has seen the given roster. An
\* emptiness already being timed keeps its first stamp.
EmptySince(r, roster) ==
    IF roster # {} THEN undefined
    ELSE IF lastEmptyAt[r] = undefined THEN now ELSE lastEmptyAt[r]

\* A mutation: a name in use is not looked up.
RoomRefusesMalformed(r, n, fits) == n \in BadNames \/ ~fits

\* Room.join throws: INVALID_NAME or RESERVED_NAME, DUPLICATE_NAME, and
\* INVALID_DESCRIPTION when the description does not fit.
RoomRefuses(r, n, fits) ==
    \/ n \in BadNames
    \/ n \in members[r]
    \/ ~fits

\* A mutation: a speaker that mentions everyone wakes itself.
ResolveTargetsEcho(r, speaker, mentions) ==
    IF EVERYONE \in mentions THEN members[r]
    ELSE (mentions \cap members[r]) \ {speaker}

\* resolveTargets: everyone, or the mentioned names that are members, but
\* never the speaker.
ResolveTargets(r, speaker, mentions) ==
    (IF EVERYONE \in mentions THEN members[r] ELSE mentions \cap members[r])
        \ {speaker}

\* A mutation: the page starts at the last message seen.
HistoryPageFrom(r, sinceId, limit) ==
    LET before == {i \in DOMAIN history[r] : \A j \in 1..i :
                      sinceId # undefined /\ history[r][j].id < sinceId}
        slice == SubSeq(history[r], Cardinality(before) + 1, Len(history[r]))
    IN  IF limit = undefined \/ limit >= Len(slice)
        THEN slice ELSE SubSeq(slice, 1, limit)

\* Room.history: from the first message whose id exceeds sinceId on, at most
\* limit messages; either parameter may be undefined.
HistoryPage(r, sinceId, limit) ==
    LET before == {i \in DOMAIN history[r] : \A j \in 1..i :
                      sinceId # undefined /\ history[r][j].id <= sinceId}
        slice == SubSeq(history[r], Cardinality(before) + 1, Len(history[r]))
    IN  IF limit = undefined \/ limit >= Len(slice)
        THEN slice ELSE SubSeq(slice, 1, limit)

\* A mutation: a room is evicted on reaching the age.
AgedRooms ==
    {r \in entries : /\ lastEmptyAt[r] # undefined
                     /\ now - lastEmptyAt[r] >= HistoryTtlMs}

ExpiredRooms ==
    {r \in entries : /\ lastEmptyAt[r] # undefined
                     /\ now - lastEmptyAt[r] > HistoryTtlMs}

\* A mutation: only joining counts as activity.
ActivityForgotten(r, n) == UNCHANGED lastActivityAt

RecordActivity(r, n) ==
    lastActivityAt' = [lastActivityAt EXCEPT ![r][n] =
                          IF n \in members[r] THEN now ELSE @]
-----------------------------------------------------------------------------
(* Push delivery *)

\* A mutation: a message replaces the batch already waiting.
EnqueuedAlone(h, m) ==
    [roomId |-> m.roomId, messages |-> <<m>>, timer |-> TRUE]

\* A mutation: only a message that joins a batch arms its timer.
EnqueuedUnarmed(h, m) ==
    IF pendingBatches[h] = undefined
    THEN [roomId |-> m.roomId, messages |-> <<m>>, timer |-> FALSE]
    ELSE [pendingBatches[h] EXCEPT !.messages = Append(@, m), !.timer = TRUE]

\* The batch a message joins: the recipient's open one, whatever room that one
\* was started for, else a fresh one for the message's room.
Enqueued(h, m) ==
    IF pendingBatches[h] = undefined
    THEN [roomId |-> m.roomId, messages |-> <<m>>, timer |-> TRUE]
    ELSE [pendingBatches[h] EXCEPT !.messages = Append(@, m), !.timer = TRUE]

\* A mutation: the routing key is the name alone.
RecipientsByName(m, targets) ==
    {memberToHandle[s] : s \in {x \in Seats : x.name \in targets}}

\* Connections bound to the target names in the message's room.
Recipients(m, targets) == {memberToHandle[Seat(m.roomId, n)] : n \in targets}

\* enqueuePush for every target name of message m.
Push(m, targets) ==
    LET recipients == Recipients(m, targets)
    IN  IF Batching
        THEN /\ pendingBatches' =
                   [h \in Handles |-> IF h \in recipients
                                      THEN Enqueued(h, m)
                                      ELSE pendingBatches[h]]
             /\ UNCHANGED sent
        ELSE /\ sent' =
                   [h \in Handles |->
                      IF h \in recipients /\ connections[h] = "open"
                      THEN Append(sent[h], [roomId |-> m.roomId,
                                            messages |-> <<m>>])
                      ELSE sent[h]]
             /\ UNCHANGED pendingBatches

\* The batch timer of a connection fires, any time after it was armed.
FlushBatch(h) ==
    /\ pendingBatches[h] # undefined
    /\ pendingBatches[h].timer
    /\ pendingBatches' = [pendingBatches EXCEPT ![h] = undefined]
    /\ sent' = IF connections[h] = "open"
               THEN [sent EXCEPT ![h] =
                       Append(@, [roomId |-> pendingBatches[h].roomId,
                                  messages |-> pendingBatches[h].messages])]
               ELSE sent
    /\ UNCHANGED <<now, connectionVars, managerVars, roomVars, timestamps>>
-----------------------------------------------------------------------------
(* Connections and membership *)

Connect(h) ==
    /\ connections[h] = "new"
    /\ connections' = [connections EXCEPT ![h] = "open"]
    /\ UNCHANGED <<now, membership, memberToHandle, pushVars, managerVars,
                   roomVars, timestamps>>

\* join, up to and including getOrCreate. The client joins a room it may ask
\* for and presents the token, or nothing happens.
JoinReaches(h, r) ==
    /\ connections[h] = "open"
    /\ membership[h] = undefined
    /\ r \in MayJoin[h]

Join(h, r, n) ==
    /\ JoinReaches(h, r)
    /\ ~RoomRefuses(r, n, TRUE)
    /\ entries' = entries \cup {r}
    /\ members' = [members EXCEPT ![r] = @ \cup {n}]
    /\ lastActivityAt' = [lastActivityAt EXCEPT ![r][n] = now]
    /\ membership' = [membership EXCEPT ![h] = Seat(r, n)]
    /\ memberToHandle' = [memberToHandle EXCEPT ![Seat(r, n)] = h]
    /\ lastEmptyAt' = [lastEmptyAt EXCEPT ![r] = EmptySince(r, members'[r])]
    /\ UNCHANGED <<now, connections, pushVars, history, nextId, timestamps>>

\* join when Room.join throws: the room getOrCreate made stays behind.
JoinRefused(h, r, n, fits) ==
    /\ JoinReaches(h, r)
    /\ RoomRefuses(r, n, fits)
    /\ entries' = entries \cup {r}
    /\ UNCHANGED <<now, connectionVars, pushVars, lastEmptyAt, roomVars,
                   timestamps>>

\* A mutation: who leaves is not forgotten by the limiter.
Remembered(n) == timestamps

\* SenderRateLimiter.forget.
Forgotten(n) == [timestamps EXCEPT ![n] = <<>>]

\* What leave and disconnect share: the member goes from the room, the
\* routing table and the limiter.
Unseat(h) ==
    LET r == membership[h].roomId
        n == membership[h].name
    IN  /\ members' = [members EXCEPT ![r] = @ \ {n}]
        /\ lastActivityAt' = [lastActivityAt EXCEPT ![r][n] = undefined]
        /\ lastEmptyAt' =
               [lastEmptyAt EXCEPT ![r] = IF r \in entries
                                          THEN EmptySince(r, members'[r])
                                          ELSE @]
        /\ memberToHandle' = [memberToHandle EXCEPT ![Seat(r, n)] = undefined]
        /\ membership' = [membership EXCEPT ![h] = undefined]
        /\ timestamps' = Forgotten(n)
        /\ UNCHANGED <<entries, history, nextId>>

\* leave. The pending batch is not cancelled.
Leave(h) ==
    /\ connections[h] = "open"
    /\ membership[h] # undefined
    /\ Unseat(h)
    /\ UNCHANGED <<now, connections, pushVars>>

\* A mutation: the member of a closed connection stays.
SeatKept(h) ==
    UNCHANGED <<membership, memberToHandle, managerVars, roomVars, timestamps>>

\* disconnect unseats only a connection that joined.
ReleaseSeat(h) ==
    \/ membership[h] # undefined /\ Unseat(h)
    \/ /\ membership[h] = undefined
       /\ UNCHANGED <<membership, memberToHandle, managerVars, roomVars,
                      timestamps>>

\* disconnect, from the WebSocket's close. Nothing sent earlier can be seen
\* through this connection any more, so its log is dropped.
Disconnect(h) ==
    /\ connections[h] = "open"
    /\ connections' = [connections EXCEPT ![h] = "closed"]
    /\ pendingBatches' = [pendingBatches EXCEPT ![h] = undefined]
    /\ sent' = [sent EXCEPT ![h] = <<>>]
    /\ ReleaseSeat(h)
    /\ UNCHANGED now
-----------------------------------------------------------------------------
(* Requests of a joined connection *)

\* requireJoined and requireRoom. Their NOT_MEMBER exits, and the one at the
\* top of Room.speak, need a seat whose room or roster entry is gone; SeatsAgree
\* says there is none.
Joined(h) ==
    /\ connections[h] = "open"
    /\ membership[h] # undefined
    /\ membership[h].roomId \in entries
    /\ membership[h].name \in members[membership[h].roomId]

\* speak, as far as Room.speak: the limiter grants the slot and the activity
\* is recorded, whatever the room says next.
SpeakAdmitted(h) ==
    LET n == membership[h].name
    IN  /\ Joined(h)
        /\ Fits(timestamps[n], now)
        /\ timestamps' = [timestamps EXCEPT ![n] = Recorded(@, now)]
        /\ RecordActivity(membership[h].roomId, n)

Speak(h, mentions) ==
    LET r == membership[h].roomId
        n == membership[h].name
        m == [id |-> nextId[r], roomId |-> r, from |-> n]
    IN  /\ SpeakAdmitted(h)
        /\ Len(history[r]) < HardCap
        /\ history' = [history EXCEPT ![r] = Append(@, m)]
        /\ nextId' = [nextId EXCEPT ![r] = @ + 1]
        /\ Push(m, ResolveTargets(r, n, mentions))
        /\ UNCHANGED <<now, connectionVars, managerVars, members>>

\* speak when Room.speak throws ROOM_FULL: the slot stays spent.
SpeakRoomFull(h) ==
    /\ SpeakAdmitted(h)
    /\ Len(history[membership[h].roomId]) >= HardCap
    /\ UNCHANGED <<now, connectionVars, pushVars, managerVars, members,
                   history, nextId>>

\* speak returning rate_limited, before any activity is recorded.
SpeakRateLimited(h) ==
    LET n == membership[h].name
    IN  /\ Joined(h)
        /\ ~Fits(timestamps[n], now)
        /\ timestamps' = [timestamps EXCEPT ![n] = Recorded(@, now)]
        /\ UNCHANGED <<now, connectionVars, pushVars, managerVars, roomVars>>

\* readHistory and listMembers change the caller's activity stamp and return
\* HistoryPage and the roster.
ReadHistory(h) ==
    /\ Joined(h)
    /\ RecordActivity(membership[h].roomId, membership[h].name)
    /\ UNCHANGED <<now, connectionVars, pushVars, managerVars, members,
                   history, nextId, timestamps>>

ListMembers(h) ==
    /\ Joined(h)
    /\ RecordActivity(membership[h].roomId, membership[h].name)
    /\ UNCHANGED <<now, connectionVars, pushVars, managerVars, members,
                   history, nextId, timestamps>>
-----------------------------------------------------------------------------
\* A mutation: an evicted room's state is still there when its id returns.
EvictedInNameOnly(f, fresh) == f

\* A room created later under the same id is a new Room, so the state of an
\* evicted room is that of a room never seen.
Evicted(f, fresh) == [r \in RoomIds |-> IF r \in ExpiredRooms
                                        THEN fresh ELSE f[r]]

\* gc evicts every expired room.
Gc ==
    /\ CallsGc
    /\ ExpiredRooms # {}
    /\ entries' = entries \ ExpiredRooms
    /\ lastEmptyAt' = Evicted(lastEmptyAt, undefined)
    /\ members' = Evicted(members, {})
    /\ lastActivityAt' = Evicted(lastActivityAt, [n \in Names |-> undefined])
    /\ history' = Evicted(history, <<>>)
    /\ nextId' = Evicted(nextId, FirstId)
    /\ UNCHANGED <<now, connectionVars, pushVars, timestamps>>

Tick ==
    /\ now < MaxTime
    /\ now' = now + 1
    /\ UNCHANGED <<connectionVars, pushVars, managerVars, roomVars, timestamps>>

Next ==
    \/ \E h \in Handles :
          \/ Connect(h)
          \/ Disconnect(h)
          \/ \E r \in RoomIds, n \in Names : Join(h, r, n)
          \/ \E r \in RoomIds, n \in Names \cup BadNames, fits \in BOOLEAN :
                JoinRefused(h, r, n, fits)
          \/ Leave(h)
          \/ \E mentions \in MentionSets : Speak(h, mentions)
          \/ SpeakRoomFull(h)
          \/ SpeakRateLimited(h)
          \/ ReadHistory(h)
          \/ ListMembers(h)
          \/ FlushBatch(h)
    \/ Gc
    \/ Tick

Spec == Init /\ [][Next]_vars
-----------------------------------------------------------------------------
(* Four tables say who sits where, and two handlers update them by halves:  *)
(* the connection's own fields, the routing map, the roster of the room,    *)
(* and the room's emptiness clock. They never disagree: a message cannot be *)
(* routed to a departed connection, a name cannot stay taken by nobody, and *)
(* an occupied room exists and is not being aged towards eviction.          *)
SeatsAgree ==
    /\ \A h \in Handles : membership[h] # undefined =>
          /\ connections[h] = "open"
          /\ memberToHandle[membership[h]] = h
    /\ \A s \in Seats :
          /\ (s.name \in members[s.roomId]) <=> (memberToHandle[s] # undefined)
          /\ memberToHandle[s] # undefined =>
                membership[memberToHandle[s]] = s
    /\ \A r \in RoomIds : members[r] # {} =>
          r \in entries /\ lastEmptyAt[r] = undefined

Queued(h) == IF pendingBatches[h] = undefined THEN <<>>
             ELSE pendingBatches[h].messages

\* A message of h is for g: same room, not the speaker itself, and mentioned
\* under its own name or as everyone.
IsFor(h, mentions, g) ==
    /\ g # h
    /\ membership[g] # undefined
    /\ membership[g].roomId = membership[h].roomId
    /\ EVERYONE \in mentions \/ membership[g].name \in mentions

(* Messages never cross room boundaries (README.md:142), though the same    *)
(* name may sit in several rooms and one connection table serves them all:  *)
(* whatever waits for a connection, or was handed to it, was spoken in a    *)
(* room its client joins.                                                   *)
RoomsIsolated ==
    \A h \in Handles :
        /\ \A i \in DOMAIN Queued(h) : Queued(h)[i].roomId \in MayJoin[h]
        /\ \A i \in DOMAIN sent[h] : \A j \in DOMAIN sent[h][i].messages :
              sent[h][i].messages[j].roomId \in MayJoin[h]

(* Room ids name messages: ids of a room's history run from 1 without gaps  *)
(* and the next one continues them, through refused sends, ROOM_FULL, and   *)
(* eviction, so that sinceId is a position (room.ts:149-157).               *)
HistoryNumbered ==
    \A r \in RoomIds :
        /\ nextId[r] = Len(history[r]) + 1
        /\ \A i \in DOMAIN history[r] : history[r][i].id = i
        /\ r \notin entries => history[r] = <<>>
=============================================================================
