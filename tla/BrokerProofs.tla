---------------------------- MODULE BrokerProofs ----------------------------
(* Theorems about the broker, for any number of connections, rooms and      *)
(* names, any clock and any configuration. The inductive invariant is       *)
(* TypeOK, Short, SeatsAgree, HistoryNumbered, SeatsAsked and RoomsIsolated *)
(* together: each needs the ones before it. TypeOK needs Short because a    *)
(* limiter list that outgrew the quota would not be pruned to a sequence of *)
(* times, and isolation needs SeatsAgree because messages are routed by the *)
(* table of names, not by the connections' own fields.                      *)
EXTENDS Broker, SlidingWindowProofs

\* No sender's list outgrows the quota.
Short == \A n \in Names : Len(timestamps[n]) <= MaxPerWindow

LEMMA SeatType ==
    /\ \A r \in RoomIds, n \in Names :
          Seat(r, n) \in Seats /\ Seat(r, n).roomId = r /\ Seat(r, n).name = n
    /\ \A s \in Seats : s.roomId \in RoomIds /\ s.name \in Names
                        /\ s = Seat(s.roomId, s.name)
  BY DEF Seat, Seats

LEMMA TypeInit == Init => TypeOK /\ Short
<1> SUFFICES ASSUME Init PROVE TypeOK /\ Short
  OBVIOUS
<1>1. Len(<<>>) = 0 /\ MaxPerWindow \in Nat /\ FirstId \in Nat \ {0}
  BY WindowAssumption DEF FirstId
<1> QED BY <1>1 DEF Init, TypeOK, Short

LEMMA UnseatType ==
    ASSUME TypeOK, Short, NEW h \in Handles, membership[h] # undefined, Unseat(h)
    PROVE  /\ membership' \in [Handles -> Seats \cup {undefined}]
           /\ memberToHandle' \in [Seats -> Handles \cup {undefined}]
           /\ entries' \subseteq RoomIds
           /\ lastEmptyAt' \in [RoomIds -> Nat \cup {undefined}]
           /\ members' \in [RoomIds -> SUBSET Names]
           /\ lastActivityAt' \in [RoomIds -> [Names -> Nat \cup {undefined}]]
           /\ history' \in [RoomIds -> Seq(Message)]
           /\ nextId' \in [RoomIds -> Nat \ {0}]
           /\ timestamps' \in [Names -> Seq(Nat)]
           /\ Short'
<1>1. membership[h] \in Seats
  BY DEF TypeOK
<1>2. membership[h].roomId \in RoomIds /\ membership[h].name \in Names
  BY <1>1, SeatType
<1>3. Len(<<>>) = 0 /\ MaxPerWindow \in Nat
  BY WindowAssumption
<1> QED BY <1>1, <1>2, <1>3, SeatType DEF Unseat, Forgotten, TypeOK, EmptySince, Short

LEMMA ActivityType ==
    ASSUME TypeOK, NEW r \in RoomIds, NEW n \in Names, RecordActivity(r, n)
    PROVE  lastActivityAt' \in [RoomIds -> [Names -> Nat \cup {undefined}]]
<1>1. [lastActivityAt[r] EXCEPT ![n] = IF n \in members[r] THEN now ELSE @]
        \in [Names -> Nat \cup {undefined}]
  BY DEF TypeOK
<1> QED BY <1>1 DEF RecordActivity, TypeOK

(* What a connection that passed requireJoined knows.                       *)
LEMMA JoinedFacts ==
    ASSUME TypeOK, NEW h \in Handles, Joined(h)
    PROVE  /\ connections[h] = "open"
           /\ membership[h] \in Seats
           /\ membership[h] = Seat(membership[h].roomId, membership[h].name)
           /\ membership[h].roomId \in RoomIds
           /\ membership[h].name \in Names
           /\ membership[h].roomId \in entries
           /\ membership[h].name \in members[membership[h].roomId]
  BY SeatType DEF Joined, TypeOK

LEMMA AdmittedType ==
    ASSUME TypeOK, Short, NEW h \in Handles, SpeakAdmitted(h)
    PROVE  /\ lastActivityAt' \in [RoomIds -> [Names -> Nat \cup {undefined}]]
           /\ timestamps' \in [Names -> Seq(Nat)]
           /\ Short'
<1> DEFINE n == membership[h].name
<1>1. Joined(h) /\ n \in Names /\ membership[h].roomId \in RoomIds
  BY JoinedFacts DEF SpeakAdmitted
<1>2. lastActivityAt' \in [RoomIds -> [Names -> Nat \cup {undefined}]]
  BY <1>1, ActivityType DEF SpeakAdmitted
<1>3. timestamps[n] \in Seq(Nat) /\ now \in Nat /\ Len(timestamps[n]) <= MaxPerWindow
  BY <1>1 DEF TypeOK, Short
<1>4. /\ Recorded(timestamps[n], now) \in Seq(Nat)
      /\ Len(Recorded(timestamps[n], now)) <= MaxPerWindow
  BY <1>3, RecordedType
<1>5. timestamps' = [timestamps EXCEPT ![n] = Recorded(timestamps[n], now)]
  BY DEF SpeakAdmitted
<1> QED BY <1>1, <1>2, <1>4, <1>5 DEF TypeOK, Short

(* A batch stays a batch whichever message it takes in.                     *)
LEMMA PushType ==
    ASSUME TypeOK, NEW m \in Message, NEW targets, Push(m, targets)
    PROVE  /\ pendingBatches' \in [Handles -> PendingBatch \cup {undefined}]
           /\ sent' \in [Handles -> Seq(Batch)]
<1>1. m.roomId \in RoomIds
  BY DEF Message
<1>2. <<m>> \in Seq(Message)
  OBVIOUS
<1>3. ASSUME NEW h \in Handles
      PROVE  Enqueued(h, m) \in PendingBatch
  <2>1. CASE pendingBatches[h] = undefined
    BY <2>1, <1>1, <1>2 DEF Enqueued, PendingBatch
  <2>2. CASE pendingBatches[h] # undefined
    <3>1. pendingBatches[h] \in PendingBatch
      BY <2>2 DEF TypeOK
    <3>2. Append(pendingBatches[h].messages, m) \in Seq(Message)
      BY <3>1 DEF PendingBatch
    <3> QED BY <2>2, <3>1, <3>2 DEF Enqueued, PendingBatch
  <2> QED BY <2>1, <2>2
<1>4. ASSUME NEW h \in Handles
      PROVE  Append(sent[h], [roomId |-> m.roomId, messages |-> <<m>>])
               \in Seq(Batch)
  <2>1. [roomId |-> m.roomId, messages |-> <<m>>] \in Batch
    BY <1>1, <1>2 DEF Batch
  <2> QED BY <2>1 DEF TypeOK
<1>5. CASE Batching
  BY <1>3, <1>5 DEF Push, TypeOK
<1>6. CASE ~Batching
  BY <1>4, <1>6 DEF Push, TypeOK
<1> QED BY <1>5, <1>6

LEMMA TypeStep == TypeOK /\ Short /\ [Next]_vars => TypeOK' /\ Short'
<1> SUFFICES ASSUME TypeOK, Short, [Next]_vars
             PROVE  TypeOK' /\ Short'
  OBVIOUS
<1> USE DEF connectionVars, pushVars, managerVars, roomVars
<1>1. ASSUME NEW h \in Handles, Connect(h)
      PROVE  TypeOK' /\ Short'
  BY <1>1 DEF Connect, TypeOK, Short
<1>2. ASSUME NEW h \in Handles, Disconnect(h)
      PROVE  TypeOK' /\ Short'
  <2>1. CASE membership[h] # undefined /\ Unseat(h)
    BY <1>2, <2>1, UnseatType DEF Disconnect, ReleaseSeat, TypeOK
  <2>2. CASE UNCHANGED <<membership, memberToHandle, managerVars, roomVars,
                         timestamps>>
    BY <1>2, <2>2 DEF Disconnect, ReleaseSeat, TypeOK, Short
  <2> QED BY <1>2, <2>1, <2>2 DEF Disconnect, ReleaseSeat
<1>3. ASSUME NEW h \in Handles, NEW r \in RoomIds, NEW n \in Names, Join(h, r, n)
      PROVE  TypeOK' /\ Short'
  BY <1>3, SeatType DEF Join, TypeOK, Short, EmptySince
<1>4. ASSUME NEW h \in Handles, NEW r \in RoomIds, NEW n, NEW fits,
             JoinRefused(h, r, n, fits)
      PROVE  TypeOK' /\ Short'
  BY <1>4 DEF JoinRefused, TypeOK, Short
<1>5. ASSUME NEW h \in Handles, Leave(h)
      PROVE  TypeOK' /\ Short'
  BY <1>5, UnseatType DEF Leave, TypeOK
<1>6. ASSUME NEW h \in Handles, NEW mentions \in MentionSets, Speak(h, mentions)
      PROVE  TypeOK' /\ Short'
  <2> DEFINE r == membership[h].roomId
             n == membership[h].name
             m == [id |-> nextId[r], roomId |-> r, from |-> n]
  <2>1. SpeakAdmitted(h) /\ r \in RoomIds /\ n \in Names
    BY <1>6, JoinedFacts DEF Speak, SpeakAdmitted
  <2>2. m \in Message
    BY <2>1 DEF Message, TypeOK
  <2>3. /\ pendingBatches' \in [Handles -> PendingBatch \cup {undefined}]
        /\ sent' \in [Handles -> Seq(Batch)]
    BY <1>6, <2>2, PushType DEF Speak
  <2>4. /\ history' = [history EXCEPT ![r] = Append(history[r], m)]
        /\ nextId' = [nextId EXCEPT ![r] = nextId[r] + 1]
        /\ UNCHANGED <<now, connectionVars, managerVars, members>>
    BY <1>6 DEF Speak
  <2>5. /\ history' \in [RoomIds -> Seq(Message)]
        /\ nextId' \in [RoomIds -> Nat \ {0}]
    BY <2>1, <2>2, <2>4 DEF TypeOK
  <2> QED BY <2>1, <2>3, <2>4, <2>5, AdmittedType DEF TypeOK
<1>7. ASSUME NEW h \in Handles, SpeakRoomFull(h)
      PROVE  TypeOK' /\ Short'
  BY <1>7, AdmittedType DEF SpeakRoomFull, TypeOK
<1>8. ASSUME NEW h \in Handles, SpeakRateLimited(h)
      PROVE  TypeOK' /\ Short'
  <2> DEFINE n == membership[h].name
  <2>1. n \in Names
    BY <1>8, JoinedFacts DEF SpeakRateLimited
  <2>2. timestamps[n] \in Seq(Nat) /\ now \in Nat /\ Len(timestamps[n]) <= MaxPerWindow
    BY <2>1 DEF TypeOK, Short
  <2>3. Recorded(timestamps[n], now) = timestamps[n]
    BY <1>8, <2>2, RefusedUnchanged DEF SpeakRateLimited
  <2>4. timestamps' = timestamps
    BY <1>8, <2>1, <2>3 DEF SpeakRateLimited, TypeOK
  <2> QED BY <1>8, <2>4 DEF SpeakRateLimited, TypeOK, Short
<1>9. ASSUME NEW h \in Handles, ReadHistory(h) \/ ListMembers(h)
      PROVE  TypeOK' /\ Short'
  <2>1. membership[h].roomId \in RoomIds /\ membership[h].name \in Names
    BY <1>9, JoinedFacts DEF ReadHistory, ListMembers
  <2>2. lastActivityAt' \in [RoomIds -> [Names -> Nat \cup {undefined}]]
    BY <1>9, <2>1, ActivityType DEF ReadHistory, ListMembers
  <2> QED BY <1>9, <2>2 DEF ReadHistory, ListMembers, TypeOK, Short
<1>10. ASSUME NEW h \in Handles, FlushBatch(h)
       PROVE  TypeOK' /\ Short'
  <2> DEFINE batch == [roomId |-> pendingBatches[h].roomId,
                       messages |-> pendingBatches[h].messages]
  <2>1. pendingBatches[h] \in PendingBatch
    BY <1>10 DEF FlushBatch, TypeOK
  <2>2. batch \in Batch
    BY <2>1 DEF PendingBatch, Batch
  <2>3. Append(sent[h], batch) \in Seq(Batch)
    BY <2>2 DEF TypeOK
  <2>4. sent' \in [Handles -> Seq(Batch)]
    BY <1>10, <2>3 DEF FlushBatch, TypeOK
  <2>5. pendingBatches' \in [Handles -> PendingBatch \cup {undefined}]
    BY <1>10 DEF FlushBatch, TypeOK
  <2> QED BY <1>10, <2>4, <2>5 DEF FlushBatch, TypeOK, Short
<1>11. CASE Gc
  <2>1. ExpiredRooms \subseteq RoomIds /\ FirstId \in Nat \ {0}
    BY DEF ExpiredRooms, TypeOK, FirstId
  <2> QED BY <1>11, <2>1 DEF Gc, Evicted, TypeOK, Short
<1>12. CASE Tick
  BY <1>12 DEF Tick, TypeOK, Short
<1>13. CASE UNCHANGED vars
  BY <1>13 DEF vars, TypeOK, Short
<1> QED BY <1>1, <1>2, <1>3, <1>4, <1>5, <1>6, <1>7, <1>8, <1>9, <1>10,
           <1>11, <1>12, <1>13 DEF Next
-----------------------------------------------------------------------------
(* Seats *)

LEMMA SeatsInit == Init => SeatsAgree
  BY SeatType DEF Init, SeatsAgree

(* Leaving a seat empties it in all four tables at once.                    *)
LEMMA UnseatAgrees ==
    ASSUME TypeOK, SeatsAgree, NEW h \in Handles, membership[h] # undefined,
           Unseat(h),
           \A g \in Handles \ {h} : connections'[g] = connections[g]
    PROVE  SeatsAgree'
<1> DEFINE r == membership[h].roomId
           n == membership[h].name
<1>1. /\ membership[h] \in Seats /\ r \in RoomIds /\ n \in Names
      /\ membership[h] = Seat(r, n)
  BY SeatType DEF TypeOK
<1>2. /\ members' = [members EXCEPT ![r] = members[r] \ {n}]
      /\ memberToHandle' = [memberToHandle EXCEPT ![Seat(r, n)] = undefined]
      /\ membership' = [membership EXCEPT ![h] = undefined]
      /\ lastEmptyAt' = [lastEmptyAt EXCEPT ![r] =
                           IF r \in entries THEN EmptySince(r, members'[r])
                                            ELSE lastEmptyAt[r]]
      /\ entries' = entries
  BY DEF Unseat
<1>3. memberToHandle[Seat(r, n)] = h
  BY <1>1 DEF SeatsAgree
<1>4. ASSUME NEW g \in Handles, membership'[g] # undefined
      PROVE  connections'[g] = "open" /\ memberToHandle'[membership'[g]] = g
  <2>1. g # h /\ membership'[g] = membership[g] /\ membership[g] \in Seats
    BY <1>2, <1>4 DEF TypeOK
  <2>2. connections[g] = "open" /\ memberToHandle[membership[g]] = g
    BY <1>4, <2>1 DEF SeatsAgree
  <2>3. membership[g] # Seat(r, n)
    BY <1>3, <2>1, <2>2
  <2> QED BY <1>2, <2>1, <2>2, <2>3 DEF TypeOK
<1>5. ASSUME NEW s \in Seats
      PROVE  /\ (s.name \in members'[s.roomId]) <=> (memberToHandle'[s] # undefined)
             /\ memberToHandle'[s] # undefined => membership'[memberToHandle'[s]] = s
  <2>0. s.roomId \in RoomIds /\ s.name \in Names /\ s = Seat(s.roomId, s.name)
        /\ Seat(r, n).roomId = r /\ Seat(r, n).name = n
    BY <1>1, SeatType
  <2>1. CASE s = Seat(r, n)
    BY <1>1, <1>2, <2>0, <2>1 DEF TypeOK
  <2>2. CASE s # Seat(r, n)
    <3>1. memberToHandle'[s] = memberToHandle[s]
      BY <1>2, <2>2 DEF TypeOK
    <3>2. s.name \in members'[s.roomId] <=> s.name \in members[s.roomId]
      BY <1>1, <1>2, <2>0, <2>2 DEF TypeOK
    <3>3. ASSUME memberToHandle[s] # undefined
          PROVE  membership'[memberToHandle[s]] = s
      <4>1. memberToHandle[s] \in Handles /\ membership[memberToHandle[s]] = s
        BY <3>3 DEF TypeOK, SeatsAgree
      <4>2. memberToHandle[s] # h
        BY <4>1, <1>1, <2>2
      <4> QED BY <4>1, <4>2, <1>2 DEF TypeOK
    <3> QED BY <3>1, <3>2, <3>3 DEF SeatsAgree
  <2> QED BY <2>1, <2>2
<1>6. ASSUME NEW q \in RoomIds, members'[q] # {}
      PROVE  q \in entries' /\ lastEmptyAt'[q] = undefined
  <2>1. members[q] # {}
    BY <1>2, <1>6 DEF TypeOK
  <2>2. q \in entries /\ lastEmptyAt[q] = undefined
    BY <2>1 DEF SeatsAgree
  <2>3. CASE q = r
    <3>1. EmptySince(r, members'[r]) = undefined
      BY <1>6, <2>3 DEF EmptySince
    <3> QED BY <3>1, <2>2, <2>3, <1>1, <1>2 DEF TypeOK
  <2>4. CASE q # r
    BY <2>2, <2>4, <1>2 DEF TypeOK
  <2> QED BY <2>3, <2>4
<1> QED BY <1>4, <1>5, <1>6 DEF SeatsAgree

(* Taking a seat that was free.                                             *)
LEMMA JoinAgrees ==
    ASSUME TypeOK, SeatsAgree, NEW h \in Handles, NEW r \in RoomIds,
           NEW n \in Names, Join(h, r, n)
    PROVE  SeatsAgree'
<1>1. /\ connections[h] = "open" /\ membership[h] = undefined
      /\ n \notin members[r]
      /\ entries' = entries \cup {r} /\ connections' = connections
      /\ members' = [members EXCEPT ![r] = members[r] \cup {n}]
      /\ membership' = [membership EXCEPT ![h] = Seat(r, n)]
      /\ memberToHandle' = [memberToHandle EXCEPT ![Seat(r, n)] = h]
      /\ lastEmptyAt' = [lastEmptyAt EXCEPT ![r] = EmptySince(r, members'[r])]
  BY DEF Join, JoinReaches, RoomRefuses, connectionVars
<1>2. Seat(r, n) \in Seats /\ Seat(r, n).roomId = r /\ Seat(r, n).name = n
  BY SeatType
<1>3. memberToHandle[Seat(r, n)] = undefined
  BY <1>1, <1>2 DEF SeatsAgree
<1>4. h # undefined
  BY BrokerAssumption
<1>5. ASSUME NEW g \in Handles, membership'[g] # undefined
      PROVE  connections'[g] = "open" /\ memberToHandle'[membership'[g]] = g
  <2>1. CASE g = h
    BY <1>1, <1>2, <2>1 DEF TypeOK
  <2>2. CASE g # h
    <3>1. membership'[g] = membership[g] /\ membership[g] \in Seats
      BY <1>1, <1>5, <2>2 DEF TypeOK
    <3>2. connections[g] = "open" /\ memberToHandle[membership[g]] = g
      BY <3>1, <1>5 DEF SeatsAgree
    <3>3. g # undefined
      BY BrokerAssumption
    <3>4. membership[g] # Seat(r, n)
      BY <1>3, <3>2, <3>3
    <3> QED BY <1>1, <3>1, <3>2, <3>4 DEF TypeOK
  <2> QED BY <2>1, <2>2
<1>6. ASSUME NEW s \in Seats
      PROVE  /\ (s.name \in members'[s.roomId]) <=> (memberToHandle'[s] # undefined)
             /\ memberToHandle'[s] # undefined => membership'[memberToHandle'[s]] = s
  <2>0. s.roomId \in RoomIds /\ s.name \in Names /\ s = Seat(s.roomId, s.name)
    BY SeatType
  <2>1. CASE s = Seat(r, n)
    BY <1>1, <1>2, <1>4, <2>1 DEF TypeOK
  <2>2. CASE s # Seat(r, n)
    <3>1. memberToHandle'[s] = memberToHandle[s]
      BY <1>1, <2>2 DEF TypeOK
    <3>2. s.name \in members'[s.roomId] <=> s.name \in members[s.roomId]
      BY <1>1, <2>0, <2>2 DEF TypeOK
    <3>3. ASSUME memberToHandle[s] # undefined
          PROVE  membership'[memberToHandle[s]] = s
      <4>1. memberToHandle[s] \in Handles /\ membership[memberToHandle[s]] = s
        BY <3>3 DEF TypeOK, SeatsAgree
      <4>2. s # undefined
        BY BrokerAssumption
      <4>3. memberToHandle[s] # h
        BY <4>1, <4>2, <1>1
      <4> QED BY <4>1, <4>3, <1>1 DEF TypeOK
    <3> QED BY <3>1, <3>2, <3>3 DEF SeatsAgree
  <2> QED BY <2>1, <2>2
<1>7. ASSUME NEW q \in RoomIds, members'[q] # {}
      PROVE  q \in entries' /\ lastEmptyAt'[q] = undefined
  <2>1. CASE q = r
    <3>1. EmptySince(r, members'[r]) = undefined
      BY <1>7, <2>1 DEF EmptySince
    <3> QED BY <3>1, <2>1, <1>1 DEF TypeOK
  <2>2. CASE q # r
    BY <2>2, <1>1, <1>7 DEF TypeOK, SeatsAgree
  <2> QED BY <2>1, <2>2
<1> QED BY <1>5, <1>6, <1>7 DEF SeatsAgree

(* Eviction touches rooms that have an emptiness stamp, and so no members.  *)
LEMMA GcAgrees ==
    ASSUME TypeOK, SeatsAgree, Gc
    PROVE  SeatsAgree'
<1>1. /\ entries' = entries \ ExpiredRooms
      /\ \A r \in RoomIds :
            /\ members'[r] = IF r \in ExpiredRooms THEN {} ELSE members[r]
            /\ lastEmptyAt'[r] = IF r \in ExpiredRooms THEN undefined
                                 ELSE lastEmptyAt[r]
      /\ UNCHANGED <<connections, membership, memberToHandle>>
  BY DEF Gc, Evicted, connectionVars
<1>2. \A r \in ExpiredRooms : r \in RoomIds /\ lastEmptyAt[r] # undefined
  BY DEF ExpiredRooms, TypeOK
<1>3. \A r \in ExpiredRooms : members[r] = {}
  BY <1>2 DEF SeatsAgree
<1>4. \A r \in RoomIds : members'[r] = members[r]
  BY <1>1, <1>3
<1>5. \A s \in Seats : members'[s.roomId] = members[s.roomId]
  BY <1>4, SeatType
<1>6. ASSUME NEW q \in RoomIds, members'[q] # {}
      PROVE  q \in entries' /\ lastEmptyAt'[q] = undefined
  BY <1>1, <1>3, <1>4, <1>6 DEF SeatsAgree
<1> QED BY <1>1, <1>5, <1>6 DEF SeatsAgree

LEMMA SeatsStep == TypeOK /\ SeatsAgree /\ [Next]_vars => SeatsAgree'
<1> SUFFICES ASSUME TypeOK, SeatsAgree, [Next]_vars
             PROVE  SeatsAgree'
  OBVIOUS
<1> USE DEF connectionVars, pushVars, managerVars, roomVars
<1>1. ASSUME NEW h \in Handles, Connect(h)
      PROVE  SeatsAgree'
  BY <1>1 DEF Connect, SeatsAgree, TypeOK
<1>2. ASSUME NEW h \in Handles, Disconnect(h)
      PROVE  SeatsAgree'
  <2>1. /\ connections' = [connections EXCEPT ![h] = "closed"]
        /\ \A g \in Handles \ {h} : connections'[g] = connections[g]
    BY <1>2 DEF Disconnect, ReleaseSeat, TypeOK
  <2>2. CASE membership[h] # undefined /\ Unseat(h)
    BY <2>1, <2>2, UnseatAgrees
  <2>3. CASE /\ membership[h] = undefined
             /\ UNCHANGED <<membership, memberToHandle, managerVars, roomVars,
                            timestamps>>
    BY <2>1, <2>3 DEF SeatsAgree
  <2> QED BY <1>2, <2>2, <2>3 DEF Disconnect, ReleaseSeat
<1>3. ASSUME NEW h \in Handles, NEW r \in RoomIds, NEW n \in Names, Join(h, r, n)
      PROVE  SeatsAgree'
  BY <1>3, JoinAgrees
<1>4. ASSUME NEW h \in Handles, NEW r \in RoomIds, NEW n, NEW fits,
             JoinRefused(h, r, n, fits)
      PROVE  SeatsAgree'
  BY <1>4 DEF JoinRefused, SeatsAgree
<1>5. ASSUME NEW h \in Handles, Leave(h)
      PROVE  SeatsAgree'
  BY <1>5, UnseatAgrees DEF Leave
<1>6. ASSUME NEW h \in Handles,
             \/ \E mentions \in MentionSets : Speak(h, mentions)
             \/ SpeakRoomFull(h) \/ SpeakRateLimited(h)
             \/ ReadHistory(h) \/ ListMembers(h) \/ FlushBatch(h)
      PROVE  SeatsAgree'
  <2>1. UNCHANGED <<connections, membership, memberToHandle, entries,
                    lastEmptyAt, members>>
    BY <1>6 DEF Speak, SpeakRoomFull, SpeakRateLimited, ReadHistory,
                ListMembers, FlushBatch
  <2> QED BY <2>1 DEF SeatsAgree
<1>7. CASE Gc
  BY <1>7, GcAgrees
<1>8. CASE Tick
  BY <1>8 DEF Tick, SeatsAgree
<1>9. CASE UNCHANGED vars
  BY <1>9 DEF vars, SeatsAgree
<1> QED BY <1>1, <1>2, <1>3, <1>4, <1>5, <1>6, <1>7, <1>8, <1>9 DEF Next
-----------------------------------------------------------------------------
(* Message ids *)

LEMMA NumberedInit == Init => HistoryNumbered
  BY DEF Init, HistoryNumbered, FirstId

LEMMA NumberedStep ==
    TypeOK /\ HistoryNumbered /\ [Next]_vars => HistoryNumbered'
<1> SUFFICES ASSUME TypeOK, HistoryNumbered, [Next]_vars
             PROVE  HistoryNumbered'
  OBVIOUS
<1> USE DEF connectionVars, pushVars, managerVars, roomVars
<1>1. ASSUME UNCHANGED <<history, nextId>>, entries \subseteq entries'
      PROVE  HistoryNumbered'
  BY <1>1 DEF HistoryNumbered
<1>2. ASSUME NEW h \in Handles, NEW mentions \in MentionSets, Speak(h, mentions)
      PROVE  HistoryNumbered'
  <2> DEFINE r == membership[h].roomId
             m == [id |-> nextId[r], roomId |-> r, from |-> membership[h].name]
  <2>1. r \in RoomIds /\ r \in entries /\ membership[h].name \in Names
    BY <1>2, JoinedFacts DEF Speak, SpeakAdmitted
  <2>2. /\ history' = [history EXCEPT ![r] = Append(history[r], m)]
        /\ nextId' = [nextId EXCEPT ![r] = nextId[r] + 1]
        /\ entries' = entries
    BY <1>2 DEF Speak
  <2>3. m \in Message /\ m.id = nextId[r]
    BY <2>1 DEF Message, TypeOK
  <2>4. history[r] \in Seq(Message) /\ Len(history[r]) \in Nat
    BY <2>1 DEF TypeOK
  <2>5. nextId[r] = Len(history[r]) + 1
        /\ \A i \in DOMAIN history[r] : history[r][i].id = i
    BY <2>1 DEF HistoryNumbered
  <2> HIDE DEF m
  <2>6. /\ Len(Append(history[r], m)) = Len(history[r]) + 1
        /\ DOMAIN Append(history[r], m) = 1..(Len(history[r]) + 1)
        /\ DOMAIN history[r] = 1..Len(history[r])
        /\ Append(history[r], m)[Len(history[r]) + 1] = m
        /\ \A i \in 1..Len(history[r]) :
              Append(history[r], m)[i] = history[r][i]
    BY <2>3, <2>4
  <2>7. \A i \in DOMAIN Append(history[r], m) : Append(history[r], m)[i].id = i
    <3>1. SUFFICES ASSUME NEW i \in 1..(Len(history[r]) + 1)
                   PROVE  Append(history[r], m)[i].id = i
      BY <2>6
    <3>2. CASE i = Len(history[r]) + 1
      BY <3>2, <2>3, <2>5, <2>6
    <3>3. CASE i \in 1..Len(history[r])
      BY <3>3, <2>5, <2>6
    <3> QED BY <3>2, <3>3, <2>4
  <2>8. ASSUME NEW q \in RoomIds
        PROVE  /\ nextId'[q] = Len(history'[q]) + 1
               /\ \A i \in DOMAIN history'[q] : history'[q][i].id = i
               /\ q \notin entries' => history'[q] = <<>>
    <3>1. CASE q = r
      BY <3>1, <2>1, <2>2, <2>5, <2>6, <2>7 DEF TypeOK
    <3>2. CASE q # r
      BY <3>2, <2>2 DEF HistoryNumbered, TypeOK
    <3> QED BY <3>1, <3>2
  <2> QED BY <2>8 DEF HistoryNumbered
<1>3. CASE Gc
  <2>1. Len(<<>>) = 0 /\ DOMAIN <<>> = {}
    OBVIOUS
  <2>2. ASSUME NEW q \in RoomIds
        PROVE  /\ nextId'[q] = Len(history'[q]) + 1
               /\ \A i \in DOMAIN history'[q] : history'[q][i].id = i
               /\ q \notin entries' => history'[q] = <<>>
    <3>1. /\ entries' = entries \ ExpiredRooms
          /\ nextId'[q] = IF q \in ExpiredRooms THEN 1 ELSE nextId[q]
          /\ history'[q] = IF q \in ExpiredRooms THEN <<>> ELSE history[q]
      BY <1>3 DEF Gc, Evicted, FirstId
    <3> QED BY <3>1, <2>1 DEF HistoryNumbered
  <2> QED BY <2>2 DEF HistoryNumbered
<1>4. ASSUME NEW h \in Handles,
             \/ Connect(h) \/ Disconnect(h) \/ Leave(h)
             \/ \E r \in RoomIds, n \in Names : Join(h, r, n)
             \/ \E r \in RoomIds, n \in Names \cup BadNames, fits \in BOOLEAN :
                   JoinRefused(h, r, n, fits)
             \/ SpeakRoomFull(h) \/ SpeakRateLimited(h)
             \/ ReadHistory(h) \/ ListMembers(h) \/ FlushBatch(h)
      PROVE  HistoryNumbered'
  <2>1. UNCHANGED <<history, nextId>> /\ entries \subseteq entries'
    BY <1>4 DEF Connect, Disconnect, ReleaseSeat, Leave, Unseat, Join,
                JoinRefused, SpeakRoomFull, SpeakRateLimited, ReadHistory, ListMembers,
                FlushBatch
  <2> QED BY <1>1, <2>1
<1>5. CASE Tick \/ UNCHANGED vars
  BY <1>1, <1>5 DEF Tick, vars
<1> QED BY <1>2, <1>3, <1>4, <1>5 DEF Next
-----------------------------------------------------------------------------
(* Isolation of rooms *)

\* A connection sits only in a room its client asked for.
SeatsAsked == \A h \in Handles : membership[h] # undefined =>
                  membership[h].roomId \in MayJoin[h]

OfRooms(messages, rooms) ==
    \A i \in DOMAIN messages : messages[i].roomId \in rooms

LEMMA IsolatedInit == Init => SeatsAsked /\ RoomsIsolated
  BY DEF Init, SeatsAsked, RoomsIsolated, Queued

(* A message is queued for, or sent to, connections seated in its room.     *)
LEMMA PushIsolated ==
    ASSUME TypeOK, SeatsAgree, SeatsAsked, RoomsIsolated,
           NEW m \in Message, NEW targets \in SUBSET Names, Push(m, targets)
    PROVE  RoomsIsolated'
<1>1. \A g \in Recipients(m, targets) \cap Handles : m.roomId \in MayJoin[g]
  <2>1. SUFFICES ASSUME NEW n \in targets,
                        memberToHandle[Seat(m.roomId, n)] \in Handles
                 PROVE  m.roomId \in MayJoin[memberToHandle[Seat(m.roomId, n)]]
    BY DEF Recipients
  <2>2. Seat(m.roomId, n) \in Seats /\ Seat(m.roomId, n).roomId = m.roomId
    BY SeatType DEF Message
  <2>3. memberToHandle[Seat(m.roomId, n)] # undefined
    BY <2>1, BrokerAssumption
  <2>4. membership[memberToHandle[Seat(m.roomId, n)]] = Seat(m.roomId, n)
    BY <2>2, <2>3 DEF SeatsAgree
  <2>5. Seat(m.roomId, n) # undefined
    BY <2>2, BrokerAssumption
  <2> QED BY <2>1, <2>2, <2>4, <2>5 DEF SeatsAsked
<1>2. ASSUME NEW g \in Handles
      PROVE  \A i \in DOMAIN Queued(g)' : Queued(g)'[i].roomId \in MayJoin[g]
  <2>1. CASE pendingBatches'[g] = pendingBatches[g]
    BY <2>1 DEF Queued, RoomsIsolated
  <2>2. CASE pendingBatches'[g] # pendingBatches[g]
    <3>1. g \in Recipients(m, targets) /\ pendingBatches'[g] = Enqueued(g, m)
      BY <2>2 DEF Push
    <3>2. m.roomId \in MayJoin[g]
      BY <1>1, <3>1
    <3>3. CASE pendingBatches[g] = undefined
      <4>1. Enqueued(g, m) \in PendingBatch /\ Enqueued(g, m).messages = <<m>>
        BY <3>3 DEF Enqueued, PendingBatch, Message
      <4>2. Queued(g)' = <<m>>
        BY <4>1, <3>1, BrokerAssumption DEF Queued
      <4> QED BY <4>2, <3>2
    <3>4. CASE pendingBatches[g] # undefined
      <4>1. pendingBatches[g] \in PendingBatch
            /\ pendingBatches[g].messages \in Seq(Message)
        BY <3>4 DEF TypeOK, PendingBatch
      <4>2. Append(pendingBatches[g].messages, m) \in Seq(Message)
        BY <4>1
      <4>5. /\ Enqueued(g, m).messages = Append(pendingBatches[g].messages, m)
            /\ Enqueued(g, m) \in PendingBatch
        BY <3>4, <4>1, <4>2 DEF Enqueued, PendingBatch
      <4>3. Queued(g)' = Append(Queued(g), m) /\ Queued(g) \in Seq(Message)
        BY <3>1, <3>4, <4>1, <4>5, BrokerAssumption DEF Queued
      <4>4. \A i \in DOMAIN Queued(g) : Queued(g)[i].roomId \in MayJoin[g]
        BY DEF RoomsIsolated
      <4> QED BY <3>2, <4>3, <4>4
    <3> QED BY <3>3, <3>4
  <2> QED BY <2>1, <2>2
<1>3. ASSUME NEW g \in Handles
      PROVE  \A i \in DOMAIN sent'[g] : OfRooms(sent'[g][i].messages, MayJoin[g])
  <2>0. \A i \in DOMAIN sent[g] : OfRooms(sent[g][i].messages, MayJoin[g])
    BY DEF RoomsIsolated, OfRooms
  <2>1. CASE sent'[g] = sent[g]
    BY <2>0, <2>1
  <2>2. CASE sent'[g] # sent[g]
    <3> DEFINE batch == [roomId |-> m.roomId, messages |-> <<m>>]
    <3>1. /\ g \in Recipients(m, targets)
          /\ sent'[g] = Append(sent[g], batch)
      BY <2>2 DEF Push
    <3>2. m.roomId \in MayJoin[g]
      BY <1>1, <3>1
    <3>3. OfRooms(batch.messages, MayJoin[g])
      BY <3>2 DEF OfRooms
    <3>4. m.roomId \in RoomIds /\ <<m>> \in Seq(Message)
      BY DEF Message
    <3>5. batch \in Batch
      BY <3>4 DEF Batch
    <3>6. sent[g] \in Seq(Batch)
      BY DEF TypeOK
    <3> HIDE DEF batch
    <3>7. ASSUME NEW i \in DOMAIN sent'[g]
          PROVE  OfRooms(sent'[g][i].messages, MayJoin[g])
      <4>1. \/ i \in DOMAIN sent[g] /\ sent'[g][i] = sent[g][i]
            \/ sent'[g][i] = batch
        BY <3>1, <3>5, <3>6, <3>7
      <4> QED BY <2>0, <3>3, <4>1
    <3> QED BY <3>7
  <2> QED BY <2>1, <2>2
<1> QED BY <1>2, <1>3 DEF RoomsIsolated, OfRooms

LEMMA FlushIsolated ==
    ASSUME TypeOK, RoomsIsolated, NEW h \in Handles, FlushBatch(h)
    PROVE  RoomsIsolated'
<1> DEFINE batch == [roomId |-> pendingBatches[h].roomId,
                     messages |-> pendingBatches[h].messages]
<1>1. /\ pendingBatches[h] # undefined /\ pendingBatches[h] \in PendingBatch
      /\ pendingBatches' = [pendingBatches EXCEPT ![h] = undefined]
      /\ \A g \in Handles : \/ sent'[g] = sent[g]
                            \/ g = h /\ sent'[g] = Append(sent[g], batch)
  BY DEF FlushBatch, TypeOK
<1>2. batch \in Batch
  BY <1>1 DEF PendingBatch, Batch
<1>3. OfRooms(batch.messages, MayJoin[h])
  BY <1>1 DEF RoomsIsolated, Queued, OfRooms
<1> HIDE DEF batch
<1>4. ASSUME NEW g \in Handles
      PROVE  \A i \in DOMAIN Queued(g)' : Queued(g)'[i].roomId \in MayJoin[g]
  <2>1. Queued(g)' = Queued(g) \/ Queued(g)' = <<>>
    BY <1>1 DEF Queued, TypeOK
  <2> QED BY <2>1 DEF RoomsIsolated
<1>5. ASSUME NEW g \in Handles
      PROVE  \A i \in DOMAIN sent'[g] : OfRooms(sent'[g][i].messages, MayJoin[g])
  <2>0. /\ \A i \in DOMAIN sent[g] : OfRooms(sent[g][i].messages, MayJoin[g])
        /\ sent[g] \in Seq(Batch)
    BY DEF RoomsIsolated, OfRooms, TypeOK
  <2>1. CASE sent'[g] = sent[g]
    BY <2>0, <2>1
  <2>2. CASE g = h /\ sent'[g] = Append(sent[g], batch)
    <3>1. ASSUME NEW i \in DOMAIN sent'[g]
          PROVE  OfRooms(sent'[g][i].messages, MayJoin[g])
      <4>1. \/ i \in DOMAIN sent[g] /\ sent'[g][i] = sent[g][i]
            \/ sent'[g][i] = batch
        BY <2>0, <2>2, <1>2, <3>1
      <4> QED BY <2>0, <2>2, <1>3, <4>1
    <3> QED BY <3>1
  <2> QED BY <2>1, <2>2, <1>1
<1> QED BY <1>4, <1>5 DEF RoomsIsolated, OfRooms

LEMMA IsolatedStep ==
    TypeOK /\ SeatsAgree /\ SeatsAsked /\ RoomsIsolated /\ [Next]_vars
      => SeatsAsked' /\ RoomsIsolated'
<1> SUFFICES ASSUME TypeOK, SeatsAgree, SeatsAsked, RoomsIsolated, [Next]_vars
             PROVE  SeatsAsked' /\ RoomsIsolated'
  OBVIOUS
<1> USE DEF connectionVars, pushVars, managerVars, roomVars
<1>1. ASSUME NEW h \in Handles, Disconnect(h)
      PROVE  SeatsAsked' /\ RoomsIsolated'
  <2>1. /\ pendingBatches' = [pendingBatches EXCEPT ![h] = undefined]
        /\ sent' = [sent EXCEPT ![h] = <<>>]
    BY <1>1 DEF Disconnect, ReleaseSeat
  <2>2. \A g \in Handles : membership'[g] = membership[g]
                           \/ membership'[g] = undefined
    BY <1>1 DEF Disconnect, ReleaseSeat, Unseat, TypeOK
  <2>3. \A g \in Handles : /\ Queued(g)' = Queued(g) \/ Queued(g)' = <<>>
                           /\ sent'[g] = sent[g] \/ sent'[g] = <<>>
    BY <2>1 DEF Queued, TypeOK
  <2> QED BY <2>2, <2>3 DEF SeatsAsked, RoomsIsolated
<1>2. ASSUME NEW h \in Handles, NEW r \in RoomIds, NEW n \in Names, Join(h, r, n)
      PROVE  SeatsAsked' /\ RoomsIsolated'
  <2>1. /\ r \in MayJoin[h] /\ UNCHANGED <<pendingBatches, sent>>
        /\ membership' = [membership EXCEPT ![h] = Seat(r, n)]
    BY <1>2 DEF Join, JoinReaches
  <2>2. SeatsAsked'
    BY <2>1, SeatType DEF SeatsAsked, TypeOK
  <2> QED BY <2>1, <2>2 DEF RoomsIsolated, Queued
<1>3. ASSUME NEW h \in Handles, Leave(h)
      PROVE  SeatsAsked' /\ RoomsIsolated'
  BY <1>3 DEF Leave, Unseat, SeatsAsked, RoomsIsolated, Queued, TypeOK
<1>4. ASSUME NEW h \in Handles, NEW mentions \in MentionSets, Speak(h, mentions)
      PROVE  SeatsAsked' /\ RoomsIsolated'
  <2> DEFINE r == membership[h].roomId
             n == membership[h].name
             m == [id |-> nextId[r], roomId |-> r, from |-> n]
  <2>1. /\ r \in RoomIds /\ n \in Names /\ UNCHANGED membership
        /\ Push(m, ResolveTargets(r, n, mentions))
    BY <1>4, JoinedFacts DEF Speak, SpeakAdmitted
  <2>2. m \in Message
    BY <2>1 DEF Message, TypeOK
  <2>3. ResolveTargets(r, n, mentions) \in SUBSET Names
    BY <2>1 DEF ResolveTargets, TypeOK
  <2> HIDE DEF m
  <2> QED BY <2>1, <2>2, <2>3, PushIsolated DEF SeatsAsked
<1>5. ASSUME NEW h \in Handles, FlushBatch(h)
      PROVE  SeatsAsked' /\ RoomsIsolated'
  BY <1>5, FlushIsolated DEF FlushBatch, SeatsAsked
<1>6. ASSUME NEW h \in Handles,
             \/ Connect(h)
             \/ \E r \in RoomIds, n \in Names \cup BadNames, fits \in BOOLEAN :
                   JoinRefused(h, r, n, fits)
             \/ SpeakRoomFull(h) \/ SpeakRateLimited(h)
             \/ ReadHistory(h) \/ ListMembers(h)
      PROVE  SeatsAsked' /\ RoomsIsolated'
  <2>1. UNCHANGED <<membership, pendingBatches, sent>>
    BY <1>6 DEF Connect, JoinRefused, SpeakRoomFull, SpeakRateLimited,
                ReadHistory, ListMembers
  <2> QED BY <2>1 DEF SeatsAsked, RoomsIsolated, Queued
<1>7. CASE Gc \/ Tick \/ UNCHANGED vars
  BY <1>7 DEF Gc, Tick, vars, SeatsAsked, RoomsIsolated, Queued
<1> QED BY <1>1, <1>2, <1>3, <1>4, <1>5, <1>6, <1>7 DEF Next
-----------------------------------------------------------------------------
(* The broker's state is always well-formed.                                *)
THEOREM BrokerTypeCorrect == Spec => []TypeOK
<1>1. Spec => [](TypeOK /\ Short)
  BY TypeInit, TypeStep, PTL DEF Spec
<1> QED BY <1>1, PTL

(* Connection, routing map, roster and emptiness clock always agree         *)
(* (broker.ts:114-162, room-manager.ts:76-84).                              *)
THEOREM SeatsAlwaysAgree == Spec => []SeatsAgree
  BY BrokerTypeCorrect, SeatsInit, SeatsStep, PTL DEF Spec

(* Ids of a room's messages are positions in its history (room.ts:121-129). *)
THEOREM HistoryAlwaysNumbered == Spec => []HistoryNumbered
  BY BrokerTypeCorrect, NumberedInit, NumberedStep, PTL DEF Spec

(* No message reaches a connection from a room its client does not join     *)
(* (broker.ts:193-211).                                                     *)
THEOREM RoomsAlwaysIsolated == Spec => []RoomsIsolated
  BY BrokerTypeCorrect, SeatsAlwaysAgree, IsolatedInit, IsolatedStep, PTL
     DEF Spec
-----------------------------------------------------------------------------
(* The routing table and the rosters address exactly those whom the         *)
(* connections' own fields say the message is for.                          *)
LEMMA RightRecipients ==
    ASSUME TypeOK, SeatsAgree, NEW h \in Handles, Joined(h),
           NEW mentions \in MentionSets, NEW m \in Message,
           m.roomId = membership[h].roomId, NEW g \in Handles
    PROVE  /\ (g \in Recipients(m, ResolveTargets(membership[h].roomId,
                                                  membership[h].name, mentions)))
                 <=> IsFor(h, mentions, g)
           /\ IsFor(h, mentions, g) => connections[g] = "open"
<1> DEFINE r == membership[h].roomId
           n == membership[h].name
           targets == ResolveTargets(r, n, mentions)
<1>1. /\ r \in RoomIds /\ n \in Names /\ membership[h] = Seat(r, n)
      /\ membership[h] \in Seats
  BY JoinedFacts
<1>2. g # undefined /\ h # undefined /\ membership[h] # undefined
  BY <1>1, BrokerAssumption
<1>3. ASSUME IsFor(h, mentions, g)
      PROVE  g \in Recipients(m, targets) /\ connections[g] = "open"
  <2> DEFINE k == membership[g].name
  <2>1. membership[g] # undefined /\ membership[g].roomId = r /\ g # h
        /\ (EVERYONE \in mentions \/ k \in mentions)
    BY <1>3 DEF IsFor
  <2>2. membership[g] \in Seats /\ k \in Names /\ membership[g] = Seat(r, k)
    BY <2>1, SeatType DEF TypeOK
  <2>3. connections[g] = "open" /\ memberToHandle[Seat(r, k)] = g
    BY <2>1, <2>2 DEF SeatsAgree
  <2>4. memberToHandle[Seat(r, n)] = h
    BY <1>1, <1>2 DEF SeatsAgree
  <2>5. k # n
    BY <2>1, <2>3, <2>4
  <2>6. k \in members[r]
    BY <1>1, <1>2, <2>2, <2>3, SeatType DEF SeatsAgree
  <2>7. k \in targets
    BY <2>1, <2>5, <2>6 DEF ResolveTargets
  <2> QED BY <2>3, <2>7 DEF Recipients
<1>4. ASSUME g \in Recipients(m, targets)
      PROVE  IsFor(h, mentions, g)
  <2>1. PICK k \in targets : g = memberToHandle[Seat(r, k)]
    BY <1>4 DEF Recipients
  <2>2. k \in members[r] /\ k # n /\ (EVERYONE \in mentions \/ k \in mentions)
    BY <2>1 DEF ResolveTargets
  <2>3. k \in Names /\ Seat(r, k) \in Seats /\ Seat(r, k).roomId = r
        /\ Seat(r, k).name = k
    BY <1>1, <2>2, SeatType DEF TypeOK
  <2>4. membership[g] = Seat(r, k) /\ Seat(r, k) # undefined
    BY <1>2, <2>1, <2>3, BrokerAssumption DEF SeatsAgree
  <2>5. g # h
    BY <1>1, <2>2, <2>3, <2>4
  <2> QED BY <2>2, <2>3, <2>4, <2>5 DEF IsFor
<1> QED BY <1>3, <1>4
=============================================================================
