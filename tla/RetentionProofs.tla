--------------------------- MODULE RetentionProofs ---------------------------
(* What the broker keeps over time, for any number of connections, rooms    *)
(* and names, any clock and any TTL. Ages of rooms and completeness of      *)
(* polling hold without further assumptions. What the limiter promises one  *)
(* sender holds where all clients work on one project, so that a name       *)
(* stands for one member: there the broker implements the limiter, and the  *)
(* limiter's own theorems carry over.                                       *)
EXTENDS Retention, BrokerProofs

Base == TypeOK /\ Short /\ SeatsAgree /\ SeatsAsked /\ HistoryNumbered

LEMMA BaseHolds == RetentionSpec => []Base
<1>1. RetentionInit => Init
  BY DEF RetentionInit
<1>2. [RetentionNext]_retentionVars => [Next]_vars
  BY DEF RetentionNext, retentionVars, Next, Poll, Collect
<1>3. RetentionSpec => Spec
  BY <1>1, <1>2, PTL DEF RetentionSpec, Spec
<1>4. Spec => [](TypeOK /\ Short)
  BY TypeInit, TypeStep, PTL DEF Spec
<1>5. Spec => [](SeatsAsked /\ RoomsIsolated)
  BY BrokerTypeCorrect, SeatsAlwaysAgree, IsolatedInit, IsolatedStep, PTL
     DEF Spec
<1> QED BY <1>3, <1>4, <1>5, SeatsAlwaysAgree, HistoryAlwaysNumbered, PTL DEF Base

(* The history variables stay what they are meant to be.                    *)
ObserversTyped == /\ vacatedAt \in [RoomIds -> Nat \cup {undefined}]
                  /\ slots \in [Handles -> Seq(Nat)]
                  /\ read \in [Handles -> [RoomIds -> Seq(Message)]]
-----------------------------------------------------------------------------
(* Ages of rooms *)

\* The stamp is there exactly while a room that was once left stands empty.
Aged == \A r \in RoomIds : /\ lastEmptyAt[r] = vacatedAt[r]
                           /\ r \notin entries => lastEmptyAt[r] = undefined

(* The connection that leaves is alone in its room exactly when the room's  *)
(* roster holds nobody else.                                                *)
LEMMA AloneIsEmpty ==
    ASSUME Base, NEW h \in Handles, membership[h] # undefined
    PROVE  /\ membership[h].roomId \in entries
           /\ lastEmptyAt[membership[h].roomId] = undefined
           /\ Alone(h) <=> members[membership[h].roomId]
                             \ {membership[h].name} = {}
<1> DEFINE r == membership[h].roomId
           n == membership[h].name
<1>1. /\ membership[h] \in Seats /\ r \in RoomIds /\ n \in Names
      /\ membership[h] = Seat(r, n) /\ memberToHandle[Seat(r, n)] = h
  BY SeatType DEF Base, TypeOK, SeatsAgree
<1>2. n \in members[r]
  BY <1>1, BrokerAssumption DEF Base, SeatsAgree
<1>3. r \in entries /\ lastEmptyAt[r] = undefined
  BY <1>1, <1>2 DEF Base, SeatsAgree
<1>4. ASSUME Alone(h), NEW m \in members[r] \ {n}
      PROVE  FALSE
  <2> DEFINE g == memberToHandle[Seat(r, m)]
  <2>1. m \in Names /\ Seat(r, m) \in Seats
    BY <1>1, <1>4, SeatType DEF Base, TypeOK
  <2>2. g # undefined /\ membership[g] = Seat(r, m)
    BY <2>1, <1>1, <1>4, SeatType DEF Base, SeatsAgree
  <2>3. g \in Handles
    BY <2>1, <2>2 DEF Base, TypeOK
  <2>4. membership[g].roomId = r /\ membership[g].name = m
        /\ membership[g] \in Seats
    BY <2>1, <2>2, <1>1, SeatType
  <2>5. g # h /\ membership[g] # undefined
    BY <2>4, <1>4, BrokerAssumption
  <2> QED BY <1>4, <2>3, <2>4, <2>5 DEF Alone
<1>5. ASSUME members[r] \ {n} = {}, NEW g \in Handles \ {h},
             membership[g] # undefined, membership[g].roomId = r
      PROVE  FALSE
  <2>1. /\ membership[g] \in Seats /\ membership[g].name \in Names
        /\ membership[g] = Seat(r, membership[g].name)
        /\ memberToHandle[membership[g]] = g
    BY <1>5, SeatType DEF Base, TypeOK, SeatsAgree
  <2>2. membership[g].name \in members[r]
    BY <2>1, <1>1, <1>5, SeatType, BrokerAssumption DEF Base, SeatsAgree
  <2>3. membership[g].name = n
    BY <2>2, <1>5
  <2> QED BY <2>1, <2>3, <1>1
<1>6. Alone(h) <=> members[r] \ {n} = {}
  BY <1>4, <1>5 DEF Alone
<1> QED BY <1>3, <1>6

(* Leaving stamps a room that empties, in the broker as for the observer.   *)
LEMMA VacateAges ==
    ASSUME Base, ObserversTyped, Aged, NEW h \in Handles,
           membership[h] # undefined, Unseat(h), Vacate(h), now' = now
    PROVE  ObserversTyped' /\ Aged'
<1> DEFINE r == membership[h].roomId
           n == membership[h].name
<1>1. r \in RoomIds /\ n \in Names /\ now \in Nat
  BY SeatType DEF Base, TypeOK
<1>2. /\ r \in entries /\ lastEmptyAt[r] = undefined
      /\ Alone(h) <=> members[r] \ {n} = {}
  BY AloneIsEmpty
<1>3. /\ entries' = entries
      /\ members'[r] = members[r] \ {n}
      /\ lastEmptyAt' = [lastEmptyAt EXCEPT ![r] = EmptySince(r, members'[r])]
  BY <1>1, <1>2 DEF Unseat, Base, TypeOK
<1>4. EmptySince(r, members'[r]) = IF Alone(h) THEN now ELSE undefined
  BY <1>2, <1>3 DEF EmptySince
<1>5. /\ vacatedAt' = IF Alone(h) THEN [vacatedAt EXCEPT ![r] = now] ELSE vacatedAt
      /\ slots' = [slots EXCEPT ![h] = <<>>] /\ UNCHANGED read
  BY DEF Vacate
<1>6. ObserversTyped'
  BY <1>1, <1>5 DEF ObserversTyped
<1>7. lastEmptyAt'[r] = vacatedAt'[r]
  BY <1>1, <1>2, <1>3, <1>4, <1>5 DEF Aged, Base, TypeOK, ObserversTyped
<1>8. \A q \in RoomIds \ {r} : lastEmptyAt'[q] = vacatedAt'[q]
                               /\ lastEmptyAt'[q] = lastEmptyAt[q]
  BY <1>1, <1>3, <1>5 DEF Aged, Base, TypeOK, ObserversTyped
<1> QED BY <1>2, <1>3, <1>6, <1>7, <1>8 DEF Aged
-----------------------------------------------------------------------------
(* Polling *)

Begins(p, s) == Len(p) <= Len(s) /\ \A i \in 1..Len(p) : p[i] = s[i]

ReadersKeepUp == \A h \in Handles, r \in RoomIds : Begins(read[h][r], history[r])

(* As ids are positions, a page starts right after the last one seen.       *)
LEMMA PageFollows ==
    ASSUME Base, NEW r \in RoomIds, NEW k \in 0..Len(history[r]),
           NEW sinceId, sinceId = (IF k = 0 THEN undefined ELSE k),
           NEW limit \in Limits
    PROVE  /\ HistoryPage(r, sinceId, limit) \in Seq(Message)
           /\ Len(HistoryPage(r, sinceId, limit)) <= Len(history[r]) - k
           /\ \A i \in 1..Len(HistoryPage(r, sinceId, limit)) :
                 HistoryPage(r, sinceId, limit)[i] = history[r][k + i]
<1> DEFINE s == history[r]
           before == {i \in DOMAIN s : \A j \in 1..i :
                         sinceId # undefined /\ s[j].id <= sinceId}
           slice == SubSeq(s, Cardinality(before) + 1, Len(s))
           page == HistoryPage(r, sinceId, limit)
<1>1. /\ s \in Seq(Message) /\ Len(s) \in Nat /\ DOMAIN s = 1..Len(s)
      /\ \A i \in 1..Len(s) : s[i].id = i /\ s[i] \in Message
  BY LenProperties, ElementOfSeq DEF Base, TypeOK, HistoryNumbered
<1>2. page = IF limit = undefined \/ limit >= Len(slice)
             THEN slice ELSE SubSeq(slice, 1, limit)
  BY DEF HistoryPage
<1> HIDE DEF s, page
<1>3. k \in Nat /\ k <= Len(s) /\ undefined \notin Nat
  BY <1>1, BrokerAssumption DEF s
<1>4. before = 1..k
  <2>1. CASE k = 0
    <3>1. sinceId = undefined
      BY <2>1
    <3>2. \A i \in DOMAIN s : i \in 1..i
      BY <1>1
    <3>3. before = {}
      BY <3>1, <3>2
    <3> QED BY <2>1, <3>3
  <2>2. CASE k # 0
    <3>1. sinceId = k /\ sinceId # undefined
      BY <2>2, <1>3
    <3>2. \A i \in 1..Len(s) : (\A j \in 1..i : s[j].id <= k) <=> i <= k
      <4>1. SUFFICES ASSUME NEW i \in 1..Len(s)
                     PROVE  (\A j \in 1..i : s[j].id <= k) <=> i <= k
        OBVIOUS
      <4>2. \A j \in 1..i : s[j].id = j
        BY <1>1
      <4>3. i \in 1..i /\ i \in Nat
        BY <1>1
      <4>4. (\A j \in 1..i : s[j].id <= k) => i <= k
        BY <4>2, <4>3
      <4>5. i <= k => \A j \in 1..i : s[j].id <= k
        BY <4>2, <4>3, <1>3
      <4> QED BY <4>4, <4>5
    <3> QED BY <3>1, <3>2, <1>1, <1>3
  <2> QED BY <2>1, <2>2
<1>5. Cardinality(before) = k
  BY <1>3, <1>4, CardinalityUpTo
<1> HIDE DEF before
<1>6. /\ slice \in Seq(Message) /\ Len(slice) = Len(s) - k
      /\ \A i \in 1..(Len(s) - k) : slice[i] = s[k + i]
  <2>1. slice = SubSeq(s, k + 1, Len(s))
    BY <1>5
  <2>2. k + 1 \in Int /\ Len(s) \in Int
        /\ \A i \in (k + 1)..Len(s) : s[i] \in Message
    BY <1>1, <1>3
  <2>3. /\ SubSeq(s, k + 1, Len(s)) \in Seq(Message)
        /\ Len(SubSeq(s, k + 1, Len(s)))
             = IF k + 1 <= Len(s) THEN Len(s) - (k + 1) + 1 ELSE 0
        /\ \A i \in 1..(Len(s) - (k + 1) + 1) :
              SubSeq(s, k + 1, Len(s))[i] = s[(k + 1) + i - 1]
    BY <2>2, SubSeqProperties
  <2>4. Len(SubSeq(s, k + 1, Len(s))) = Len(s) - k
    <3>1. \A a, b \in Nat :
             b <= a => (IF b + 1 <= a THEN a - (b + 1) + 1 ELSE 0) = a - b
      OBVIOUS
    <3>2. Len(s) \in Nat
      BY <1>1
    <3> QED BY <3>1, <3>2, <2>3, <1>3
  <2>5. \A i \in 1..(Len(s) - k) : SubSeq(s, k + 1, Len(s))[i] = s[k + i]
    <3>1. SUFFICES ASSUME NEW i \in 1..(Len(s) - k)
                   PROVE  SubSeq(s, k + 1, Len(s))[i] = s[k + i]
      OBVIOUS
    <3>2. i \in 1..(Len(s) - (k + 1) + 1) /\ (k + 1) + i - 1 = k + i
      BY <1>1, <1>3
    <3> QED BY <3>2, <2>3
  <2> QED BY <2>1, <2>3, <2>4, <2>5
<1> HIDE DEF slice
<1>7. CASE limit = undefined \/ limit >= Len(slice)
  BY <1>2, <1>6, <1>7, <1>1, <1>3 DEF page, s
<1>8. CASE ~(limit = undefined \/ limit >= Len(slice))
  <2>1. limit \in Nat /\ limit < Len(slice) /\ Len(slice) \in Nat
    BY <1>8, <1>6, <1>1, <1>3, RetentionAssumption
  <2>2. page = SubSeq(slice, 1, limit)
    BY <1>2, <1>8
  <2>3. \A i \in 1..limit : slice[i] \in Message
    BY <2>1, <1>6, ElementOfSeq
  <2>4. /\ SubSeq(slice, 1, limit) \in Seq(Message)
        /\ Len(SubSeq(slice, 1, limit))
             = IF 1 <= limit THEN limit - 1 + 1 ELSE 0
        /\ \A i \in 1..(limit - 1 + 1) :
              SubSeq(slice, 1, limit)[i] = slice[1 + i - 1]
    BY <2>1, <2>3, SubSeqProperties
  <2>5. /\ page \in Seq(Message) /\ Len(page) = limit
        /\ \A i \in 1..limit : page[i] = slice[i]
    BY <2>1, <2>2, <2>4
  <2>6. \A i \in 1..limit : page[i] = s[k + i]
    <3>1. \A i \in 1..limit : i \in 1..Len(slice)
      BY <2>1
    <3> QED BY <3>1, <2>5, <1>6
  <2> QED BY <2>1, <2>5, <2>6, <1>6 DEF page, s
<1> QED BY <1>7, <1>8

LEMMA PollContinues ==
    ASSUME Base, ObserversTyped, ReadersKeepUp,
           NEW h \in Handles, NEW r \in RoomIds, NEW limit \in Limits
    PROVE  LET more == read[h][r] \o HistoryPage(r, LastRead(h, r), limit)
           IN  more \in Seq(Message) /\ Begins(more, history[r])
<1> DEFINE p == read[h][r]
           s == history[r]
           k == Len(p)
           last == LastRead(h, r)
           page == HistoryPage(r, last, limit)
<1>0. p \in Seq(Message) /\ s \in Seq(Message)
  BY DEF ObserversTyped, Base, TypeOK
<1>1. /\ p \in Seq(Message) /\ s \in Seq(Message) /\ k \in Nat /\ Len(s) \in Nat
      /\ k <= Len(s) /\ \A i \in 1..k : p[i] = s[i]
  BY <1>0, LenProperties DEF ReadersKeepUp, Begins
<1>2. last = IF k = 0 THEN undefined ELSE k
  <2>1. CASE k = 0
    BY <2>1, <1>1, EmptySeq DEF LastRead
  <2>2. CASE k # 0
    <3>1. p # <<>> /\ k \in 1..k /\ k \in 1..Len(s)
      BY <2>2, <1>1, EmptySeq
    <3>2. s[k].id = k
      BY <3>1, <1>1, LenProperties DEF Base, HistoryNumbered
    <3> QED BY <3>1, <3>2, <1>1 DEF LastRead
  <2> QED BY <2>1, <2>2
<1>3. /\ page \in Seq(Message) /\ Len(page) <= Len(s) - k
      /\ \A i \in 1..Len(page) : page[i] = s[k + i]
  <2> HIDE DEF k, last
  <2>1. k \in 0..Len(history[r])
    BY <1>1
  <2> QED BY <2>1, <1>2, PageFollows
<1> HIDE DEF p, s, page
<1>4. Len(page) \in Nat
  BY <1>3, LenProperties
<1>5. /\ p \o page \in Seq(Message) /\ Len(p \o page) = k + Len(page)
      /\ \A i \in 1..(k + Len(page)) :
            (p \o page)[i] = IF i <= k THEN p[i] ELSE page[i - k]
  BY <1>1, <1>3, ConcatProperties
<1>6. ASSUME NEW i \in 1..(k + Len(page))
      PROVE  (p \o page)[i] = s[i]
  <2>1. CASE i <= k
    BY <2>1, <1>1, <1>5
  <2>2. CASE i > k
    <3>1. i - k \in 1..Len(page) /\ k + (i - k) = i /\ ~(i <= k)
      BY <2>2, <1>1, <1>4
    <3>2. page[i - k] = s[k + (i - k)] /\ (p \o page)[i] = page[i - k]
      BY <3>1, <1>3, <1>5
    <3> QED BY <3>1, <3>2
  <2> QED BY <2>1, <2>2, <1>1, <1>4
<1> QED BY <1>1, <1>3, <1>4, <1>5, <1>6 DEF Begins, p, s, page

(* A reader that kept up still does when another message is added.          *)
LEMMA BeginsLonger ==
    ASSUME NEW p \in Seq(Message), NEW s \in Seq(Message), NEW m \in Message,
           Begins(p, s)
    PROVE  Begins(p, Append(s, m))
<1>1. /\ Len(p) \in Nat /\ Len(s) \in Nat /\ Len(Append(s, m)) = Len(s) + 1
      /\ \A i \in 1..Len(s) : Append(s, m)[i] = s[i]
  OBVIOUS
<1> QED BY <1>1 DEF Begins
-----------------------------------------------------------------------------
(* Ages and readers, over every step *)

Kept == ObserversTyped /\ Aged /\ ReadersKeepUp

LEMMA KeptInit == RetentionInit => Kept
<1> SUFFICES ASSUME RetentionInit PROVE Kept
  OBVIOUS
<1>1. <<>> \in Seq(Nat) /\ <<>> \in Seq(Message) /\ Len(<<>>) = 0
  OBVIOUS
<1>2. ObserversTyped
  BY <1>1 DEF RetentionInit, ObserversTyped
<1>3. Aged
  BY DEF RetentionInit, Init, Aged
<1>4. ReadersKeepUp
  BY <1>1 DEF RetentionInit, Init, ReadersKeepUp, Begins
<1> QED BY <1>2, <1>3, <1>4 DEF Kept

(* Steps that end no emptiness, start none, and touch no history.           *)
LEMMA KeptQuiet ==
    ASSUME Kept, ObserversTyped', UNCHANGED <<lastEmptyAt, history, vacatedAt, read>>,
           entries \subseteq entries'
    PROVE  Kept'
  BY DEF Kept, Aged, ReadersKeepUp

LEMMA SlotTyped ==
    ASSUME Base, Kept, NEW h \in Handles, UseSlot(h)
    PROVE  ObserversTyped'
<1>1. Append(slots[h], now) \in Seq(Nat)
  BY DEF Kept, ObserversTyped, Base, TypeOK
<1> QED BY <1>1 DEF UseSlot, Kept, ObserversTyped

LEMMA KeptStep == Base /\ Base' /\ Kept /\ [RetentionNext]_retentionVars => Kept'
<1> SUFFICES ASSUME Base, Base', Kept, [RetentionNext]_retentionVars
             PROVE  Kept'
  OBVIOUS
<1> USE DEF connectionVars, pushVars, managerVars, roomVars
<1>1. ASSUME NEW h \in Handles,
             \/ Connect(h) /\ Unobserved
             \/ \E r \in RoomIds, n \in Names \cup BadNames, fits \in BOOLEAN :
                   JoinRefused(h, r, n, fits) /\ Unobserved
             \/ SpeakRateLimited(h) /\ Unobserved
             \/ ListMembers(h) /\ Unobserved
             \/ FlushBatch(h) /\ Unobserved
      PROVE  Kept'
  <2>1. UNCHANGED <<lastEmptyAt, history, vacatedAt, slots, read>>
        /\ entries \subseteq entries'
    BY <1>1 DEF Connect, JoinRefused, SpeakRateLimited, ListMembers, FlushBatch,
                Unobserved
  <2> QED BY <2>1, KeptQuiet DEF Kept, ObserversTyped
<1>2. ASSUME NEW h \in Handles, NEW r \in RoomIds, NEW n \in Names,
             Join(h, r, n), Occupy(r)
      PROVE  Kept'
  <2>1. /\ entries' = entries \cup {r} /\ UNCHANGED <<history, slots, read>>
        /\ lastEmptyAt' = [lastEmptyAt EXCEPT ![r] = EmptySince(r, members'[r])]
        /\ vacatedAt' = [vacatedAt EXCEPT ![r] = undefined]
        /\ members' = [members EXCEPT ![r] = members[r] \cup {n}]
    BY <1>2 DEF Join, Occupy
  <2>2. EmptySince(r, members'[r]) = undefined
    BY <2>1 DEF EmptySince, Base, TypeOK
  <2>3. ObserversTyped'
    BY <2>1 DEF Kept, ObserversTyped
  <2>4. Aged'
    BY <2>1, <2>2 DEF Kept, Aged, ObserversTyped, Base, TypeOK
  <2>5. ReadersKeepUp'
    BY <2>1 DEF Kept, ReadersKeepUp
  <2> QED BY <2>3, <2>4, <2>5 DEF Kept
<1>3. ASSUME NEW h \in Handles, Leave(h), Vacate(h)
      PROVE  Kept'
  <2>1. /\ membership[h] # undefined /\ Unseat(h) /\ now' = now
        /\ UNCHANGED <<history, read>>
    BY <1>3 DEF Leave, Unseat, Vacate
  <2>2. ObserversTyped' /\ Aged'
    BY <1>3, <2>1, VacateAges DEF Kept
  <2> QED BY <2>1, <2>2 DEF Kept, ReadersKeepUp
<1>4. ASSUME NEW h \in Handles, Disconnect(h), Vacate(h)
      PROVE  Kept'
  <2>1. CASE membership[h] # undefined /\ Unseat(h)
    <3>1. now' = now /\ UNCHANGED <<history, read>>
      BY <1>4, <2>1 DEF Disconnect, Unseat, Vacate
    <3>2. ObserversTyped' /\ Aged'
      BY <1>4, <2>1, <3>1, VacateAges DEF Kept
    <3> QED BY <3>1, <3>2 DEF Kept, ReadersKeepUp
  <2>2. CASE /\ membership[h] = undefined
             /\ UNCHANGED <<membership, memberToHandle, managerVars, roomVars,
                            timestamps>>
    <3>1. UNCHANGED <<lastEmptyAt, history, vacatedAt, read, entries>>
      BY <1>4, <2>2 DEF Vacate
    <3>2. slots' = [slots EXCEPT ![h] = <<>>]
      BY <1>4 DEF Vacate
    <3>3. ObserversTyped'
      BY <3>1, <3>2 DEF Kept, ObserversTyped
    <3> QED BY <3>1, <3>3, KeptQuiet
  <2> QED BY <1>4, <2>1, <2>2 DEF Disconnect, ReleaseSeat
<1>5. ASSUME NEW h \in Handles, NEW mentions \in MentionSets,
             Speak(h, mentions), UseSlot(h)
      PROVE  Kept'
  <2> DEFINE r == membership[h].roomId
             m == [id |-> nextId[r], roomId |-> r, from |-> membership[h].name]
  <2>1. r \in RoomIds /\ membership[h].name \in Names
    BY <1>5, JoinedFacts DEF Speak, SpeakAdmitted, Base
  <2>2. m \in Message
    BY <2>1 DEF Message, Base, TypeOK
  <2>3. /\ history' = [history EXCEPT ![r] = Append(history[r], m)]
        /\ UNCHANGED <<lastEmptyAt, entries, vacatedAt, read>>
    BY <1>5 DEF Speak, UseSlot
  <2>4. ObserversTyped'
    BY <1>5, SlotTyped
  <2> HIDE DEF m
  <2>5. ReadersKeepUp'
    <3>1. SUFFICES ASSUME NEW g \in Handles, NEW q \in RoomIds
                   PROVE  Begins(read'[g][q], history'[q])
      BY DEF ReadersKeepUp
    <3>2. /\ read[g][q] \in Seq(Message) /\ history[q] \in Seq(Message)
          /\ Begins(read[g][q], history[q])
      BY DEF Kept, ObserversTyped, ReadersKeepUp, Base, TypeOK
    <3>3. CASE q = r
      <4>1. history'[q] = Append(history[q], m)
        BY <2>3, <3>3, <2>1 DEF Base, TypeOK
      <4>2. Begins(read[g][q], Append(history[q], m))
        BY <3>2, <2>2, BeginsLonger
      <4> QED BY <4>1, <4>2, <2>3
    <3>4. CASE q # r
      BY <2>3, <3>2, <3>4 DEF Base, TypeOK
    <3> QED BY <3>3, <3>4
  <2> QED BY <2>3, <2>4, <2>5 DEF Kept, Aged
<1>6. ASSUME NEW h \in Handles, SpeakRoomFull(h), UseSlot(h)
      PROVE  Kept'
  <2>1. UNCHANGED <<lastEmptyAt, history, vacatedAt, read, entries>>
    BY <1>6 DEF SpeakRoomFull, UseSlot
  <2> QED BY <1>6, <2>1, SlotTyped, KeptQuiet
<1>7. ASSUME NEW h \in Handles, NEW limit \in Limits, Joined(h), Poll(h, limit)
      PROVE  Kept'
  <2> DEFINE r == membership[h].roomId
             more == read[h][r] \o HistoryPage(r, LastRead(h, r), limit)
  <2>1. r \in RoomIds
    BY <1>7, JoinedFacts DEF Base
  <2>2. more \in Seq(Message) /\ Begins(more, history[r])
    BY <2>1, PollContinues DEF Kept
  <2>3. /\ read' = [read EXCEPT ![h][r] = more]
        /\ UNCHANGED <<lastEmptyAt, entries, history, vacatedAt, slots>>
    BY <1>7 DEF Poll, ReadHistory
  <2> HIDE DEF more
  <2>4. \A g \in Handles, q \in RoomIds :
           read'[g][q] = IF g = h /\ q = r THEN more ELSE read[g][q]
    BY <2>1, <2>3 DEF Kept, ObserversTyped
  <2>5. ObserversTyped'
    BY <2>1, <2>2, <2>3 DEF Kept, ObserversTyped
  <2>6. ReadersKeepUp'
    BY <2>2, <2>3, <2>4 DEF Kept, ReadersKeepUp
  <2> QED BY <2>3, <2>5, <2>6 DEF Kept, Aged
<1>8. CASE Collect
  <2>1. /\ entries' = entries \ ExpiredRooms /\ ExpiredRooms \subseteq entries
        /\ entries \subseteq RoomIds
        /\ lastEmptyAt' = [r \in RoomIds |-> IF r \in ExpiredRooms
                                             THEN undefined ELSE lastEmptyAt[r]]
        /\ history' = [r \in RoomIds |-> IF r \in ExpiredRooms
                                         THEN <<>> ELSE history[r]]
        /\ vacatedAt' = [r \in RoomIds |-> IF r \in entries' THEN vacatedAt[r]
                                           ELSE undefined]
        /\ read' = [h \in Handles |-> [r \in RoomIds |->
                      IF r \in entries' THEN read[h][r] ELSE <<>>]]
        /\ slots' = slots
    BY <1>8 DEF Collect, Gc, Evicted, ExpiredRooms, Base, TypeOK
  <2>2. ObserversTyped'
    BY <2>1 DEF Kept, ObserversTyped
  <2>3. Aged'
    BY <2>1 DEF Kept, Aged
  <2>4. ReadersKeepUp'
    <3>1. SUFFICES ASSUME NEW g \in Handles, NEW q \in RoomIds
                   PROVE  Begins(read'[g][q], history'[q])
      BY DEF ReadersKeepUp
    <3>2. CASE q \in entries'
      <4>1. read'[g][q] = read[g][q]
        BY <3>2, <2>1
      <4>2. history'[q] = history[q]
        BY <3>2, <2>1
      <4> QED BY <4>1, <4>2 DEF Kept, ReadersKeepUp
    <3>3. CASE q \notin entries'
      <4>1. read'[g][q] = <<>> /\ history'[q] = <<>>
        BY <3>3, <2>1 DEF Base, HistoryNumbered
      <4>2. Len(<<>>) = 0
        OBVIOUS
      <4> QED BY <4>1, <4>2 DEF Begins
    <3> QED BY <3>2, <3>3
  <2> QED BY <2>2, <2>3, <2>4 DEF Kept
<1>9. CASE (Tick /\ Unobserved) \/ UNCHANGED retentionVars
  <2>1. UNCHANGED <<lastEmptyAt, history, vacatedAt, slots, read, entries>>
    BY <1>9 DEF Tick, Unobserved, retentionVars, vars
  <2> QED BY <2>1, KeptQuiet DEF Kept, ObserversTyped
<1> QED BY <1>1, <1>2, <1>3, <1>4, <1>5, <1>6, <1>7, <1>8, <1>9
        DEF RetentionNext

LEMMA KeptHolds == RetentionSpec => [](Base /\ Kept)
  BY BaseHolds, KeptInit, KeptStep, PTL DEF RetentionSpec

(* Once a member has left, emptiness is stamped with the last departure     *)
(* (room-manager.ts:76-84).                                                 *)
THEOREM DeparturesAlwaysAge == RetentionSpec => []DeparturesAge
<1>1. Base /\ Kept => DeparturesAge
  BY DEF Base, TypeOK, Kept, Aged, DeparturesAge
<1> QED BY <1>1, KeptHolds, PTL

(* gc takes only rooms that nobody sits in and whose last member has been   *)
(* gone for longer than the TTL (room-manager.ts:86-100).                   *)
THEOREM OnlyStaleRoomsGo == RetentionSpec => EvictedOnlyWhenStale
<1> DEFINE Stale == \A r \in entries \ entries' :
                       /\ \A h \in Handles : membership[h] # undefined =>
                             membership[h].roomId # r
                       /\ vacatedAt[r] # undefined
                       /\ now - vacatedAt[r] > HistoryTtlMs
<1>1. Base /\ Kept /\ [RetentionNext]_retentionVars => [Stale]_retentionVars
  <2> SUFFICES ASSUME Base, Kept, RetentionNext, NEW r \in entries \ entries'
               PROVE  /\ \A h \in Handles : membership[h] # undefined =>
                            membership[h].roomId # r
                      /\ vacatedAt[r] # undefined
                      /\ now - vacatedAt[r] > HistoryTtlMs
    OBVIOUS
  <2>1. Collect
    <3>1. ~(entries \subseteq entries')
      OBVIOUS
    <3>2. ASSUME NEW h \in Handles PROVE Connect(h) => entries' = entries
      BY DEF Connect, managerVars
    <3>3. ASSUME NEW h \in Handles
          PROVE  Disconnect(h) \/ Leave(h) => entries' = entries
      BY DEF Disconnect, ReleaseSeat, Leave, Unseat, managerVars
    <3>4. ASSUME NEW h \in Handles, NEW q \in RoomIds,
                 NEW n \in Names \cup BadNames, NEW fits \in BOOLEAN
          PROVE  /\ Join(h, q, n) => entries \subseteq entries'
                 /\ JoinRefused(h, q, n, fits) => entries \subseteq entries'
      BY DEF Join, JoinRefused
    <3>5. ASSUME NEW h \in Handles, NEW mentions
          PROVE  Speak(h, mentions) => entries' = entries
      BY DEF Speak, managerVars
    <3>6. ASSUME NEW h \in Handles
          PROVE  SpeakRoomFull(h) \/ SpeakRateLimited(h) => entries' = entries
      BY DEF SpeakRoomFull, SpeakRateLimited, managerVars
    <3>7. ASSUME NEW h \in Handles, NEW limit
          PROVE  Poll(h, limit) \/ ListMembers(h) => entries' = entries
      BY DEF Poll, ReadHistory, ListMembers, managerVars
    <3>8. ASSUME NEW h \in Handles PROVE FlushBatch(h) => entries' = entries
      BY DEF FlushBatch, managerVars
    <3>9. Tick => entries' = entries
      BY DEF Tick, managerVars
    <3> QED BY <3>1, <3>2, <3>3, <3>4, <3>5, <3>6, <3>7, <3>8, <3>9
            DEF RetentionNext
  <2>2. r \in RoomIds /\ lastEmptyAt[r] # undefined /\ now - lastEmptyAt[r] > HistoryTtlMs
    BY <2>1 DEF Collect, Gc, ExpiredRooms, Base, TypeOK
  <2>3. vacatedAt[r] = lastEmptyAt[r]
    BY <2>2 DEF Kept, Aged
  <2>4. members[r] = {}
    BY <2>2 DEF Base, SeatsAgree
  <2>5. ASSUME NEW h \in Handles, membership[h] # undefined, membership[h].roomId = r
        PROVE  FALSE
    <3>1. membership[h] \in Seats /\ memberToHandle[membership[h]] = h
      BY <2>5 DEF Base, TypeOK, SeatsAgree
    <3>2. membership[h].name \in members[r]
      BY <2>5, <3>1, BrokerAssumption DEF Base, SeatsAgree
    <3> QED BY <3>2, <2>4
  <2> QED BY <2>2, <2>3, <2>5
<1> QED BY <1>1, KeptHolds, PTL DEF RetentionSpec, EvictedOnlyWhenStale

(* A member that polls with the last id it saw reads the whole history, in  *)
(* order and without repetition (room.ts:149-157).                          *)
THEOREM ReadersMissNothing == RetentionSpec => []ReaderMissesNothing
<1>1. Base /\ Kept => ReaderMissesNothing
  <2> SUFFICES ASSUME Base, Kept, NEW h \in Handles, NEW r \in RoomIds
               PROVE  /\ Len(read[h][r]) <= Len(history[r])
                      /\ read[h][r] = SubSeq(history[r], 1, Len(read[h][r]))
    BY DEF ReaderMissesNothing
  <2> DEFINE p == read[h][r]
             s == history[r]
             t == SubSeq(s, 1, Len(p))
  <2>1. p \in Seq(Message) /\ s \in Seq(Message) /\ Begins(p, s)
    BY DEF Kept, ObserversTyped, ReadersKeepUp, Base, TypeOK
  <2> HIDE DEF p, s
  <2>2. /\ Len(p) \in Nat /\ Len(s) \in Nat /\ Len(p) <= Len(s)
        /\ \A i \in 1..Len(p) : p[i] = s[i]
    BY <2>1, LenProperties DEF Begins
  <2>3. \A i \in 1..Len(p) : s[i] \in Message
    BY <2>1, <2>2, ElementOfSeq
  <2>4. /\ t \in Seq(Message)
        /\ Len(t) = IF 1 <= Len(p) THEN Len(p) - 1 + 1 ELSE 0
        /\ \A i \in 1..(Len(p) - 1 + 1) : t[i] = s[1 + i - 1]
    BY <2>2, <2>3, SubSeqProperties
  <2>5. Len(t) = Len(p) /\ \A i \in 1..Len(p) : t[i] = p[i]
    BY <2>2, <2>4
  <2>6. t = p
    BY <2>1, <2>4, <2>5, SeqEqual
  <2> QED BY <2>2, <2>6 DEF p, s
<1> QED BY <1>1, KeptHolds, PTL
-----------------------------------------------------------------------------
(* One project: the broker implements the limiter                           *)

\* All clients are started for the same project, and so for one room.
OneProject == \A g, h \in Handles : \A r \in MayJoin[g], s \in MayJoin[h] : r = s

Holds(h, n) == membership[h] # undefined /\ membership[h].name = n

\* Who has no seat has used no slots.
Seatless == \A h \in Handles : membership[h] = undefined => slots[h] = <<>>

SlotsByHolder ==
    /\ \A h \in Handles, n \in Names : Holds(h, n) => SlotsOf(n) = slots[h]
    /\ \A n \in Names : (\A h \in Handles : ~Holds(h, n)) => SlotsOf(n) = <<>>

(* A seat's name is on the roster of the room its client asked for.         *)
LEMMA HolderSits ==
    ASSUME Base, NEW h \in Handles, NEW n \in Names, Holds(h, n)
    PROVE  /\ membership[h].roomId \in MayJoin[h] /\ membership[h].roomId \in RoomIds
           /\ membership[h] = Seat(membership[h].roomId, n)
           /\ memberToHandle[membership[h]] = h
           /\ n \in members[membership[h].roomId]
<1>1. membership[h] \in Seats /\ membership[h].name = n /\ membership[h] # undefined
  BY DEF Holds, Base, TypeOK
<1>2. memberToHandle[membership[h]] = h
  BY <1>1 DEF Base, SeatsAgree
<1>3. n \in members[membership[h].roomId]
  BY <1>1, <1>2, BrokerAssumption DEF Base, SeatsAgree
<1> QED BY <1>1, <1>2, <1>3, SeatType DEF Base, SeatsAsked

LEMMA OneHolder ==
    ASSUME OneProject, Base, NEW g \in Handles, NEW h \in Handles, NEW n \in Names,
           Holds(g, n), Holds(h, n)
    PROVE  g = h
<1>1. membership[g].roomId = membership[h].roomId
  BY HolderSits DEF OneProject
<1>2. /\ membership[g] = Seat(membership[g].roomId, n)
      /\ membership[h] = Seat(membership[h].roomId, n)
      /\ memberToHandle[membership[g]] = g
      /\ memberToHandle[membership[h]] = h
  BY HolderSits
<1>3. membership[g] = membership[h]
  BY <1>1, <1>2
<1> QED BY <1>2, <1>3

LEMMA SlotsHeld == ASSUME OneProject PROVE Base => SlotsByHolder
<1> SUFFICES ASSUME Base PROVE SlotsByHolder
  OBVIOUS
<1>1. ASSUME NEW h \in Handles, NEW n \in Names, Holds(h, n)
      PROVE  SlotsOf(n) = slots[h]
  <2>1. {g \in Handles : membership[g] # undefined /\ membership[g].name = n} = {h}
    BY <1>1, OneHolder DEF Holds
  <2>2. (CHOOSE g \in {h} : TRUE) = h /\ {h} # {}
    OBVIOUS
  <2> QED BY <2>1, <2>2 DEF SlotsOf
<1>2. ASSUME NEW n \in Names, \A h \in Handles : ~Holds(h, n)
      PROVE  SlotsOf(n) = <<>>
  <2>1. {g \in Handles : membership[g] # undefined /\ membership[g].name = n} = {}
    BY <1>2 DEF Holds
  <2> QED BY <2>1 DEF SlotsOf
<1> QED BY <1>1, <1>2 DEF SlotsByHolder

LEMMA SeatlessInit == RetentionInit => Seatless
  BY DEF RetentionInit, Seatless

LEMMA SeatlessStep ==
    Base /\ Kept /\ Seatless /\ [RetentionNext]_retentionVars => Seatless'
<1> SUFFICES ASSUME Base, Kept, Seatless, [RetentionNext]_retentionVars
             PROVE  Seatless'
  OBVIOUS
<1> USE DEF connectionVars, pushVars, managerVars, roomVars
<1>0. membership \in [Handles -> Seats \cup {undefined}]
      /\ slots \in [Handles -> Seq(Nat)]
  BY DEF Base, TypeOK, Kept, ObserversTyped
<1>1. ASSUME NEW h \in Handles,
             (Disconnect(h) \/ Leave(h)) /\ Vacate(h)
      PROVE  Seatless'
  <2>1. \A g \in Handles \ {h} : membership'[g] = membership[g]
    BY <1>0, <1>1 DEF Disconnect, ReleaseSeat, Leave, Unseat
  <2>2. slots' = [slots EXCEPT ![h] = <<>>]
    BY <1>1 DEF Vacate
  <2> QED BY <1>0, <2>1, <2>2 DEF Seatless
<1>2. ASSUME NEW h \in Handles, NEW r \in RoomIds, NEW n \in Names,
             Join(h, r, n) /\ Occupy(r)
      PROVE  Seatless'
  <2>1. /\ membership' = [membership EXCEPT ![h] = Seat(r, n)] /\ slots' = slots
        /\ Seat(r, n) # undefined
    BY <1>2, SeatType, BrokerAssumption DEF Join, Occupy
  <2> QED BY <1>0, <2>1 DEF Seatless
<1>3. ASSUME NEW h \in Handles,
             \/ \E mentions \in MentionSets : Speak(h, mentions) /\ UseSlot(h)
             \/ SpeakRoomFull(h) /\ UseSlot(h)
      PROVE  Seatless'
  <2>1. /\ membership[h] # undefined /\ membership' = membership
        /\ \A g \in Handles \ {h} : slots'[g] = slots[g]
    BY <1>0, <1>3 DEF Speak, SpeakRoomFull, SpeakAdmitted, Joined, UseSlot
  <2> QED BY <2>1 DEF Seatless
<1>4. CASE UNCHANGED <<membership, slots>>
  BY <1>4 DEF Seatless
<1>5. ASSUME NEW h \in Handles,
             \/ Connect(h) /\ Unobserved
             \/ \E r \in RoomIds, n \in Names \cup BadNames, fits \in BOOLEAN :
                   JoinRefused(h, r, n, fits) /\ Unobserved
             \/ SpeakRateLimited(h) /\ Unobserved
             \/ \E limit \in Limits : Joined(h) /\ Poll(h, limit)
             \/ ListMembers(h) /\ Unobserved
             \/ FlushBatch(h) /\ Unobserved
      PROVE  UNCHANGED <<membership, slots>>
  BY <1>5 DEF Connect, JoinRefused, SpeakRateLimited, Poll, ReadHistory,
              ListMembers, FlushBatch, Unobserved
<1>6. ASSUME Collect \/ (Tick /\ Unobserved) \/ UNCHANGED retentionVars
      PROVE  UNCHANGED <<membership, slots>>
  BY <1>6 DEF Collect, Gc, Tick, Unobserved, retentionVars, vars
<1>7. \/ \E h \in Handles :
            \/ Disconnect(h) /\ Vacate(h)
            \/ Leave(h) /\ Vacate(h)
            \/ \E r \in RoomIds, n \in Names : Join(h, r, n) /\ Occupy(r)
            \/ \E mentions \in MentionSets : Speak(h, mentions) /\ UseSlot(h)
            \/ SpeakRoomFull(h) /\ UseSlot(h)
      \/ UNCHANGED <<membership, slots>>
  BY <1>5, <1>6 DEF RetentionNext
<1> QED BY <1>1, <1>2, <1>3, <1>4, <1>7

LEMMA SameWindow ==
    \A list, t : /\ Limiter!Fits(list, t) = Fits(list, t)
                 /\ Limiter!Recorded(list, t) = Recorded(list, t)
<1>1. \A list, t : Limiter!Pruned(list, t) = Pruned(list, t)
  BY DEF Limiter!Pruned, Pruned, Limiter!Expired, Expired,
         Limiter!Cardinality, Cardinality
<1> QED BY <1>1 DEF Limiter!Fits, Fits, Limiter!Recorded, Recorded

\* What the limiter has granted, name by name.
Granted == [n \in Names |-> SlotsOf(n)]

(* While everybody stays seated, names have the slots of their holders.     *)
LEMMA GrantedFollows ==
    ASSUME SlotsByHolder, SlotsByHolder', UNCHANGED membership,
           NEW h \in Handles, NEW n \in Names, Holds(h, n),
           \A g \in Handles \ {h} : slots'[g] = slots[g]
    PROVE  Granted' = [Granted EXCEPT ![n] = slots'[h]]
<1>1. \A g \in Handles, m \in Names : Holds(g, m)' = Holds(g, m)
  BY DEF Holds
<1>2. SlotsOf(n)' = slots'[h]
  BY <1>1 DEF SlotsByHolder
<1>3. ASSUME NEW m \in Names \ {n}
      PROVE  SlotsOf(m)' = SlotsOf(m)
  <2>1. CASE \E g \in Handles : Holds(g, m)
    <3>1. PICK g \in Handles : Holds(g, m)
      BY <2>1
    <3>2. g # h
      BY <3>1, <1>3 DEF Holds
    <3> QED BY <1>1, <3>1, <3>2, <1>3 DEF SlotsByHolder
  <2>2. CASE \A g \in Handles : ~Holds(g, m)
    BY <2>2, <1>1, <1>3 DEF SlotsByHolder
  <2> QED BY <2>1, <2>2
<1> QED BY <1>2, <1>3 DEF Granted

(* Who goes takes the slots of the name along.                              *)
LEMMA GrantedForgotten ==
    ASSUME OneProject, Base, SlotsByHolder, SlotsByHolder',
           NEW h \in Handles, NEW n \in Names, Holds(h, n),
           membership' = [membership EXCEPT ![h] = undefined],
           \A g \in Handles \ {h} : slots'[g] = slots[g]
    PROVE  Granted' = [Granted EXCEPT ![n] = <<>>]
<1>1. /\ \A m \in Names : ~Holds(h, m)'
      /\ \A g \in Handles \ {h}, m \in Names : Holds(g, m)' = Holds(g, m)
  BY DEF Holds, Base, TypeOK
<1>2. SlotsOf(n)' = <<>>
  <2>1. \A g \in Handles : ~Holds(g, n)'
    BY <1>1, OneHolder
  <2> QED BY <2>1 DEF SlotsByHolder
<1>3. ASSUME NEW m \in Names \ {n}
      PROVE  SlotsOf(m)' = SlotsOf(m)
  <2>0. ~Holds(h, m)
    BY <1>3 DEF Holds
  <2>1. CASE \E g \in Handles : Holds(g, m)
    <3>1. PICK g \in Handles : Holds(g, m)
      BY <2>1
    <3>2. g # h
      BY <3>1, <2>0
    <3> QED BY <1>1, <3>1, <3>2, <1>3 DEF SlotsByHolder
  <2>2. CASE \A g \in Handles : ~Holds(g, m)
    BY <2>2, <1>1, <1>3 DEF SlotsByHolder
  <2> QED BY <2>1, <2>2
<1> QED BY <1>2, <1>3 DEF Granted

(* A newcomer takes a free name, and so begins with no slots used.          *)
LEMMA GrantedUnclaimed ==
    ASSUME OneProject, Base, SlotsByHolder, SlotsByHolder', Seatless,
           NEW h \in Handles, NEW r \in RoomIds, NEW n \in Names, Join(h, r, n),
           slots' = slots
    PROVE  Granted' = Granted
<1>1. /\ membership[h] = undefined /\ r \in MayJoin[h] /\ n \notin members[r]
      /\ membership' = [membership EXCEPT ![h] = Seat(r, n)]
  BY DEF Join, JoinReaches, RoomRefuses
<1>2. /\ \A m \in Names : ~Holds(h, m)
      /\ \A m \in Names : Holds(h, m)' <=> m = n
      /\ \A g \in Handles \ {h}, m \in Names : Holds(g, m)' = Holds(g, m)
  BY <1>1, SeatType, BrokerAssumption DEF Holds, Base, TypeOK
<1>3. \A g \in Handles : ~Holds(g, n)
  BY <1>1, HolderSits DEF OneProject
<1>4. SlotsOf(n)' = SlotsOf(n)
  <2>1. slots[h] = <<>>
    BY <1>1 DEF Seatless
  <2> QED BY <2>1, <1>2, <1>3 DEF SlotsByHolder
<1>5. ASSUME NEW m \in Names \ {n}
      PROVE  SlotsOf(m)' = SlotsOf(m)
  <2>1. CASE \E g \in Handles : Holds(g, m)
    <3>1. PICK g \in Handles : Holds(g, m)
      BY <2>1
    <3>2. g # h
      BY <3>1, <1>2
    <3> QED BY <1>2, <3>1, <3>2, <1>5 DEF SlotsByHolder
  <2>2. CASE \A g \in Handles : ~Holds(g, m)
    BY <2>2, <1>2, <1>5 DEF SlotsByHolder
  <2> QED BY <2>1, <2>2
<1> QED BY <1>4, <1>5 DEF Granted

LEMMA SendAsksLimiter ==
    ASSUME OneProject, Base, Base', Kept, NEW h \in Handles, SpeakAdmitted(h),
           UNCHANGED <<now, membership>>, UseSlot(h)
    PROVE  \E n \in Names : Limiter!Grant(n)
<1> DEFINE n == membership[h].name
<1>1. n \in Names /\ Holds(h, n)
  BY JoinedFacts DEF SpeakAdmitted, Joined, Holds, Base
<1>2. /\ Fits(timestamps[n], now)
      /\ timestamps' = [timestamps EXCEPT ![n] = Recorded(timestamps[n], now)]
  BY DEF SpeakAdmitted
<1>3. SlotsByHolder /\ SlotsByHolder'
  BY SlotsHeld, PTL
<1>4. /\ slots' = [slots EXCEPT ![h] = Append(slots[h], now)]
      /\ slots \in [Handles -> Seq(Nat)]
  BY DEF UseSlot, Kept, ObserversTyped
<1>5. Granted' = [Granted EXCEPT ![n] = slots'[h]]
  BY <1>1, <1>3, <1>4, GrantedFollows
<1>6. slots'[h] = Append(Granted[n], now)
  BY <1>1, <1>3, <1>4 DEF SlotsByHolder, Granted
<1>7. Limiter!Grant(n)
  BY <1>2, <1>5, <1>6, SameWindow DEF Limiter!Grant, Granted
<1> QED BY <1>1, <1>7

LEMMA GoingForgets ==
    ASSUME OneProject, Base, Base', Kept, NEW h \in Handles,
           membership[h] # undefined, Unseat(h), Vacate(h), now' = now
    PROVE  \E n \in Names : Limiter!Forget(n)
<1> DEFINE n == membership[h].name
<1>1. n \in Names /\ Holds(h, n)
  BY SeatType DEF Holds, Base, TypeOK
<1>2. /\ membership' = [membership EXCEPT ![h] = undefined]
      /\ timestamps' = [timestamps EXCEPT ![n] = <<>>]
  BY DEF Unseat, Forgotten
<1>3. SlotsByHolder /\ SlotsByHolder'
  BY SlotsHeld, PTL
<1>4. \A g \in Handles \ {h} : slots'[g] = slots[g]
  BY DEF Vacate, Kept, ObserversTyped
<1>5. Granted' = [Granted EXCEPT ![n] = <<>>]
  BY <1>1, <1>2, <1>3, <1>4, GrantedForgotten
<1>6. Limiter!Forget(n)
  BY <1>2, <1>5 DEF Limiter!Forget, Granted
<1> QED BY <1>1, <1>6

LEMMA LimiterStep ==
    ASSUME OneProject
    PROVE  Base /\ Base' /\ Kept /\ Seatless /\ [RetentionNext]_retentionVars
             => [Limiter!Next]_(Limiter!vars)
<1> SUFFICES ASSUME Base, Base', Kept, Seatless, [RetentionNext]_retentionVars
             PROVE  [Limiter!Next]_(Limiter!vars)
  OBVIOUS
<1> USE DEF connectionVars, pushVars, managerVars, roomVars
<1>0. SlotsByHolder /\ SlotsByHolder'
  BY SlotsHeld, PTL
<1>1. ASSUME NEW h \in Handles,
             (\E mentions \in MentionSets : Speak(h, mentions)) \/ SpeakRoomFull(h),
             UseSlot(h)
      PROVE  Limiter!Next
  <2>1. SpeakAdmitted(h) /\ UNCHANGED <<now, membership>>
    BY <1>1 DEF Speak, SpeakRoomFull
  <2> QED BY <2>1, <1>1, SendAsksLimiter DEF Limiter!Next
<1>2. ASSUME NEW h \in Handles, SpeakRateLimited(h), Unobserved
      PROVE  Limiter!Next
  <2> DEFINE n == membership[h].name
  <2>1. n \in Names /\ Holds(h, n)
    BY <1>2, JoinedFacts DEF SpeakRateLimited, Joined, Holds, Base
  <2>2. /\ ~Fits(timestamps[n], now)
        /\ timestamps' = [timestamps EXCEPT ![n] = Recorded(timestamps[n], now)]
        /\ UNCHANGED <<now, membership, slots>>
    BY <1>2 DEF SpeakRateLimited, Unobserved
  <2>3. Granted' = Granted
    BY <2>2 DEF Granted, SlotsOf
  <2>4. Limiter!Refuse(n)
    BY <2>2, <2>3, SameWindow DEF Limiter!Refuse, Granted
  <2> QED BY <2>1, <2>4 DEF Limiter!Next
<1>3. ASSUME NEW h \in Handles, Leave(h), Vacate(h)
      PROVE  Limiter!Next
  <2>1. membership[h] # undefined /\ Unseat(h) /\ now' = now
    BY <1>3 DEF Leave
  <2> QED BY <2>1, <1>3, GoingForgets DEF Limiter!Next
<1>4. ASSUME NEW h \in Handles, Disconnect(h), Vacate(h)
      PROVE  [Limiter!Next]_(Limiter!vars)
  <2>1. CASE membership[h] # undefined /\ Unseat(h)
    <3>1. now' = now
      BY <1>4 DEF Disconnect
    <3> QED BY <3>1, <2>1, <1>4, GoingForgets DEF Limiter!Next
  <2>2. CASE /\ membership[h] = undefined
             /\ UNCHANGED <<membership, memberToHandle, managerVars, roomVars,
                            timestamps>>
    <3>1. slots' = slots
      BY <1>4, <2>2 DEF Vacate, Seatless, Kept, ObserversTyped
    <3>2. Granted' = Granted
      BY <3>1, <2>2 DEF Granted, SlotsOf
    <3>3. UNCHANGED <<now, timestamps>>
      BY <1>4, <2>2 DEF Disconnect
    <3> QED BY <3>2, <3>3 DEF Limiter!vars, Granted
  <2> QED BY <1>4, <2>1, <2>2 DEF Disconnect, ReleaseSeat
<1>5. ASSUME NEW h \in Handles, NEW r \in RoomIds, NEW n \in Names,
             Join(h, r, n), Occupy(r)
      PROVE  UNCHANGED Limiter!vars
  <2>1. UNCHANGED <<now, timestamps, slots>>
    BY <1>5 DEF Join, Occupy
  <2>2. Granted' = Granted
    BY <2>1, <1>0, <1>5, GrantedUnclaimed
  <2> QED BY <2>1, <2>2 DEF Limiter!vars, Granted
<1>6. ASSUME UNCHANGED <<now, timestamps, membership, slots>>
      PROVE  UNCHANGED Limiter!vars
  BY <1>6 DEF Limiter!vars, SlotsOf
<1>7. ASSUME NEW h \in Handles,
             \/ Connect(h) /\ Unobserved
             \/ \E r \in RoomIds, n \in Names \cup BadNames, fits \in BOOLEAN :
                   JoinRefused(h, r, n, fits) /\ Unobserved
             \/ \E limit \in Limits : Joined(h) /\ Poll(h, limit)
             \/ ListMembers(h) /\ Unobserved
             \/ FlushBatch(h) /\ Unobserved
      PROVE  UNCHANGED <<now, timestamps, membership, slots>>
  BY <1>7 DEF Connect, JoinRefused, Poll, ReadHistory, ListMembers, FlushBatch,
              Unobserved
<1>8. ASSUME Collect \/ UNCHANGED retentionVars
      PROVE  UNCHANGED <<now, timestamps, membership, slots>>
  BY <1>8 DEF Collect, Gc, retentionVars, vars
<1>9. ASSUME Tick, Unobserved
      PROVE  Limiter!Next
  <2>1. now < MaxTime /\ now' = now + 1 /\ UNCHANGED <<timestamps, membership, slots>>
    BY <1>9 DEF Tick, Unobserved
  <2>2. Granted' = Granted
    BY <2>1 DEF Granted, SlotsOf
  <2> QED BY <2>1, <2>2 DEF Limiter!Next, Limiter!Tick, Granted
<1> QED BY <1>1, <1>2, <1>3, <1>4, <1>5, <1>6, <1>7, <1>8, <1>9
        DEF RetentionNext

LEMMA LimiterInit == ASSUME OneProject PROVE RetentionInit => Limiter!Init
<1> SUFFICES ASSUME RetentionInit PROVE Limiter!Init
  OBVIOUS
<1>1. \A n \in Names : SlotsOf(n) = <<>>
  BY DEF RetentionInit, Init, SlotsOf
<1> QED BY <1>1 DEF RetentionInit, Init, Limiter!Init

(* Within one project the limiter in the broker is the limiter by itself    *)
(* (broker.ts:125, 159, 166).                                               *)
THEOREM BrokerLimits == ASSUME OneProject PROVE RetentionSpec => ImplementsLimiter
<1>1. RetentionSpec => [](Base /\ Kept /\ Seatless)
  BY KeptHolds, SeatlessInit, SeatlessStep, PTL DEF RetentionSpec
<1>2. RetentionInit => Limiter!Init
  BY LimiterInit
<1>3. Base /\ Base' /\ Kept /\ Seatless /\ [RetentionNext]_retentionVars
        => [Limiter!Next]_(Limiter!vars)
  BY LimiterStep
<1> QED BY <1>1, <1>2, <1>3, PTL DEF RetentionSpec, ImplementsLimiter, Limiter!Spec
-----------------------------------------------------------------------------
(* The quota within one project                                             *)

\* What SenderRateLimiterProofs shows of the limiter, for the slots granted here.
Limited ==
    \A n \in Names : /\ IsTail(timestamps[n], Granted[n], now)
                     /\ InOrder(Granted[n], now)
                     /\ Spaced(Granted[n])

LEMMA GrantedType ==
    ASSUME Kept, SlotsByHolder PROVE Granted \in [Names -> Seq(Nat)]
<1> SUFFICES ASSUME NEW n \in Names PROVE SlotsOf(n) \in Seq(Nat)
  BY DEF Granted
<1>1. CASE \E h \in Handles : Holds(h, n)
  BY <1>1 DEF SlotsByHolder, Kept, ObserversTyped
<1>2. CASE \A h \in Handles : ~Holds(h, n)
  <2>1. SlotsOf(n) = <<>>
    BY <1>2 DEF SlotsByHolder
  <2>2. <<>> \in Seq(Nat)
    OBVIOUS
  <2> HIDE DEF SlotsOf
  <2> QED BY <2>1, <2>2
<1> QED BY <1>1, <1>2

LEMMA NothingGranted ==
    ASSUME NEW t \in Nat
    PROVE  IsTail(<<>>, <<>>, t) /\ InOrder(<<>>, t) /\ Spaced(<<>>)
<1>1. Len(<<>>) = 0 /\ MaxPerWindow \in Nat \ {0}
  BY WindowAssumption
<1> QED BY <1>1 DEF IsTail, InOrder, Spaced

LEMMA LimitedInit == RetentionInit => Limited
<1> SUFFICES ASSUME RetentionInit, NEW n \in Names
             PROVE  /\ IsTail(timestamps[n], Granted[n], now)
                    /\ InOrder(Granted[n], now)
                    /\ Spaced(Granted[n])
  BY DEF Limited
<1>1. timestamps[n] = <<>> /\ Granted[n] = <<>> /\ now = 0
  BY DEF RetentionInit, Init, Granted, SlotsOf
<1> QED BY <1>1, NothingGranted

LEMMA LimitedStep ==
    Base /\ Kept /\ SlotsByHolder /\ Limited /\ [Limiter!Next]_(Limiter!vars)
      => Limited'
<1> SUFFICES ASSUME Base, Kept, SlotsByHolder, Limited,
                    [Limiter!Next]_(Limiter!vars)
             PROVE  Limited'
  OBVIOUS
<1>0. /\ now \in Nat /\ timestamps \in [Names -> Seq(Nat)]
      /\ Granted \in [Names -> Seq(Nat)]
      /\ \A n \in Names : Len(timestamps[n]) <= MaxPerWindow
  BY GrantedType DEF Base, TypeOK, Short
<1>1. ASSUME NEW n \in Names, now' = now, NEW list, NEW past,
             timestamps' = [timestamps EXCEPT ![n] = list],
             Granted' = [Granted EXCEPT ![n] = past],
             IsTail(list, past, now), InOrder(past, now), Spaced(past)
      PROVE  Limited'
  <2>1. \A m \in Names : /\ timestamps'[m] = IF m = n THEN list ELSE timestamps[m]
                         /\ Granted'[m] = IF m = n THEN past ELSE Granted[m]
    BY <1>0, <1>1
  <2>2. ASSUME NEW m \in Names
        PROVE  /\ IsTail(timestamps'[m], Granted'[m], now)
               /\ InOrder(Granted'[m], now)
               /\ Spaced(Granted'[m])
    <3>1. CASE m = n
      BY <3>1, <2>1, <1>1
    <3>2. CASE m # n
      BY <3>2, <2>1 DEF Limited
    <3> QED BY <3>1, <3>2
  <2> QED BY <2>2, <1>1 DEF Limited
<1>2. ASSUME NEW n \in Names, Limiter!Grant(n)
      PROVE  Limited'
  <2>1. /\ Fits(timestamps[n], now) /\ now' = now
        /\ timestamps' = [timestamps EXCEPT ![n] = Recorded(timestamps[n], now)]
        /\ Granted' = [Granted EXCEPT ![n] = Append(Granted[n], now)]
    BY <1>2, SameWindow DEF Limiter!Grant, Granted
  <2>2. /\ IsTail(Recorded(timestamps[n], now), Append(Granted[n], now), now)
        /\ InOrder(Append(Granted[n], now), now)
        /\ Spaced(Append(Granted[n], now))
    BY <2>1, <1>0, GrantKeeps DEF Limited
  <2> QED BY <2>1, <2>2, <1>1
<1>3. ASSUME NEW n \in Names, Limiter!Refuse(n)
      PROVE  Limited'
  <2>1. /\ ~Fits(timestamps[n], now) /\ now' = now /\ Granted' = Granted
        /\ timestamps' = [timestamps EXCEPT ![n] = Recorded(timestamps[n], now)]
    BY <1>3, SameWindow DEF Limiter!Refuse, Granted
  <2>2. Recorded(timestamps[n], now) = timestamps[n]
    BY <2>1, <1>0, RefusedUnchanged
  <2>3. timestamps' = timestamps
    BY <2>1, <2>2, <1>0
  <2> QED BY <2>1, <2>3 DEF Limited
<1>4. ASSUME NEW n \in Names, Limiter!Forget(n)
      PROVE  Limited'
  <2>1. /\ now' = now
        /\ timestamps' = [timestamps EXCEPT ![n] = <<>>]
        /\ Granted' = [Granted EXCEPT ![n] = <<>>]
    BY <1>4 DEF Limiter!Forget, Granted
  <2> QED BY <2>1, <1>0, <1>1, NothingGranted
<1>5. CASE Limiter!Tick
  <2>1. now' = now + 1 /\ timestamps' = timestamps /\ Granted' = Granted
    BY <1>5 DEF Limiter!Tick, Granted
  <2>2. \A n \in Names : /\ IsTail(timestamps[n], Granted[n], now + 1)
                         /\ InOrder(Granted[n], now + 1)
    BY <1>0, TailLater DEF Limited
  <2> QED BY <2>1, <2>2 DEF Limited
<1>6. CASE UNCHANGED Limiter!vars
  <2>1. now' = now /\ timestamps' = timestamps /\ Granted' = Granted
    BY <1>6 DEF Limiter!vars, Granted
  <2> QED BY <2>1 DEF Limited
<1> QED BY <1>2, <1>3, <1>4, <1>5, <1>6 DEF Limiter!Next

QuotaInv == Base /\ Kept /\ Seatless /\ SlotsByHolder /\ Limited

LEMMA QuotaHolds == ASSUME OneProject PROVE RetentionSpec => []QuotaInv
<1>1. RetentionSpec => [](Base /\ Kept /\ Seatless)
  BY KeptHolds, SeatlessInit, SeatlessStep, PTL DEF RetentionSpec
<1>2. Base => SlotsByHolder
  BY SlotsHeld
<1>3. Base /\ Base' /\ Kept /\ Seatless /\ [RetentionNext]_retentionVars
        => [Limiter!Next]_(Limiter!vars)
  BY LimiterStep
<1> QED BY <1>1, <1>2, <1>3, LimitedInit, LimitedStep, PTL DEF RetentionSpec, QuotaInv

(* Within one project no member gets more than MaxPerWindow slots into one  *)
(* window (README.md:116).                                                  *)
THEOREM SendersWithinQuota == ASSUME OneProject
                              PROVE  RetentionSpec => []SenderWithinQuota
<1>1. QuotaInv => SenderWithinQuota
  <2> SUFFICES ASSUME QuotaInv,
                      NEW h \in Handles, NEW i \in 1..(Len(slots[h]) - MaxPerWindow)
               PROVE  slots[h][i + MaxPerWindow] - slots[h][i] > WindowMs
    BY DEF SenderWithinQuota
  <2>1. CASE membership[h] = undefined
    <3>1. slots[h] = <<>> /\ Len(<<>>) = 0 /\ MaxPerWindow \in Nat \ {0}
      BY <2>1, WindowAssumption DEF QuotaInv, Seatless
    <3>2. i \in 1..(0 - MaxPerWindow)
      BY <3>1
    <3> QED BY <3>1, <3>2
  <2>2. CASE membership[h] # undefined
    <3> DEFINE n == membership[h].name
    <3>1. n \in Names /\ Holds(h, n)
      BY <2>2, SeatType DEF Holds, QuotaInv, Base, TypeOK
    <3>2. Granted[n] = slots[h]
      BY <3>1 DEF QuotaInv, SlotsByHolder, Granted
    <3>3. Spaced(slots[h])
      BY <3>1, <3>2 DEF QuotaInv, Limited
    <3> QED BY <3>3 DEF Spaced
  <2> QED BY <2>1, <2>2
<1> QED BY <1>1, QuotaHolds, PTL

(* ... and it is let speak whenever it used fewer, and only then            *)
(* (broker.test.ts:272).                                                    *)
THEOREM QuotasAreOwn == ASSUME OneProject PROVE RetentionSpec => []QuotaIsOwn
<1>1. QuotaInv => QuotaIsOwn
  <2> SUFFICES ASSUME QuotaInv, NEW h \in Handles, membership[h] # undefined
               PROVE  Fits(timestamps[membership[h].name], now)
                        <=> Cardinality(RecentSlots(h)) < MaxPerWindow
    BY DEF QuotaIsOwn
  <2> DEFINE n == membership[h].name
  <2>1. n \in Names /\ Holds(h, n)
    BY SeatType DEF Holds, QuotaInv, Base, TypeOK
  <2>2. Granted[n] = slots[h]
    BY <2>1 DEF QuotaInv, SlotsByHolder, Granted
  <2>3. /\ timestamps[n] \in Seq(Nat) /\ slots[h] \in Seq(Nat) /\ now \in Nat
        /\ IsTail(timestamps[n], slots[h], now) /\ InOrder(slots[h], now)
    BY <2>1, <2>2 DEF QuotaInv, Limited, Base, TypeOK, Kept, ObserversTyped
  <2>4. Cardinality(RecentSlots(h)) = Len(Pruned(timestamps[n], now))
    BY <2>3, PrunedCountsWindow DEF RecentSlots
  <2> QED BY <2>4 DEF Fits
<1> QED BY <1>1, QuotaHolds, PTL
-----------------------------------------------------------------------------
(* Activity *)

LastActive(h) == lastActivityAt[membership[h].roomId][membership[h].name]

ActiveAt(h) == /\ LastActive(h) \in Nat /\ LastActive(h) <= now
               /\ \A i \in 1..Len(slots[h]) : slots[h][i] <= LastActive(h)

\* A member's activity stamp is as late as every slot it used.
ActiveSince == \A h \in Handles : membership[h] # undefined => ActiveAt(h)

LEMMA Seated ==
    ASSUME Base, NEW h \in Handles, membership[h] # undefined
    PROVE  /\ membership[h].roomId \in RoomIds /\ membership[h].name \in Names
           /\ membership[h].roomId \in entries
           /\ lastEmptyAt[membership[h].roomId] = undefined
           /\ membership[h].name \in members[membership[h].roomId]
           /\ \A g \in Handles \ {h} : membership[g] # undefined =>
                 \/ membership[g].roomId # membership[h].roomId
                 \/ membership[g].name # membership[h].name
<1>1. /\ membership[h] \in Seats /\ memberToHandle[membership[h]] = h
      /\ membership[h] = Seat(membership[h].roomId, membership[h].name)
      /\ membership[h].roomId \in RoomIds /\ membership[h].name \in Names
  BY SeatType DEF Base, TypeOK, SeatsAgree
<1>2. membership[h].name \in members[membership[h].roomId]
  BY <1>1, BrokerAssumption DEF Base, SeatsAgree
<1>3. /\ membership[h].roomId \in entries
      /\ lastEmptyAt[membership[h].roomId] = undefined
  BY <1>1, <1>2 DEF Base, SeatsAgree
<1>4. ASSUME NEW g \in Handles \ {h}, membership[g] # undefined,
             membership[g].roomId = membership[h].roomId,
             membership[g].name = membership[h].name
      PROVE  FALSE
  <2>1. /\ memberToHandle[membership[g]] = g
        /\ membership[g] = Seat(membership[g].roomId, membership[g].name)
    BY <1>4, SeatType DEF Base, TypeOK, SeatsAgree
  <2> QED BY <1>1, <1>4, <2>1
<1> QED BY <1>1, <1>2, <1>3, <1>4

LEMMA ActiveInit == RetentionInit => ActiveSince
  BY DEF RetentionInit, Init, ActiveSince

(* Somebody's activity is recorded, with or without a slot used.            *)
LEMMA ActiveNow ==
    ASSUME Base, Kept, ActiveSince, NEW h \in Handles, membership[h] # undefined,
           RecordActivity(membership[h].roomId, membership[h].name),
           UNCHANGED <<now, membership>>,
           \/ slots' = slots
           \/ slots' = [slots EXCEPT ![h] = Append(slots[h], now)]
    PROVE  ActiveSince'
<1> DEFINE r == membership[h].roomId
           n == membership[h].name
<1>1. /\ r \in RoomIds /\ n \in Names /\ n \in members[r] /\ now \in Nat
      /\ lastActivityAt \in [RoomIds -> [Names -> Nat \cup {undefined}]]
      /\ slots \in [Handles -> Seq(Nat)]
  BY Seated DEF Base, TypeOK, Kept, ObserversTyped
<1>2. \A q \in RoomIds, m \in Names :
         lastActivityAt'[q][m] = IF q = r /\ m = n THEN now
                                 ELSE lastActivityAt[q][m]
  BY <1>1 DEF RecordActivity
<1>3. ASSUME NEW g \in Handles, membership[g] # undefined
      PROVE  ActiveAt(g)'
  <2>1. membership[g].roomId \in RoomIds /\ membership[g].name \in Names
    BY <1>3, Seated
  <2>2. ActiveAt(g)
    BY <1>3 DEF ActiveSince
  <2>3. CASE g = h
    <3>1. LastActive(h)' = now
      BY <1>1, <1>2 DEF LastActive
    <3>2. \A i \in 1..Len(slots[h]) : slots[h][i] \in Nat /\ slots[h][i] <= now
      BY <1>1, <2>2, <2>3, ElementOfSeq DEF ActiveAt
    <3>3. \A i \in 1..Len(slots'[h]) : slots'[h][i] <= now
      <4>1. CASE slots' = slots
        BY <4>1, <3>2
      <4>2. CASE slots' = [slots EXCEPT ![h] = Append(slots[h], now)]
        <5>1. slots'[h] = Append(slots[h], now) /\ slots[h] \in Seq(Nat)
          BY <4>2, <1>1
        <5>2. /\ Len(slots'[h]) = Len(slots[h]) + 1 /\ Len(slots[h]) \in Nat
              /\ \A i \in 1..Len(slots[h]) : slots'[h][i] = slots[h][i]
              /\ slots'[h][Len(slots[h]) + 1] = now
          BY <5>1, <1>1
        <5>3. ASSUME NEW i \in 1..(Len(slots[h]) + 1)
              PROVE  slots'[h][i] <= now
          <6>1. CASE i \in 1..Len(slots[h])
            BY <6>1, <5>2, <3>2
          <6>2. CASE i = Len(slots[h]) + 1
            BY <6>2, <5>2, <1>1
          <6> QED BY <6>1, <6>2, <5>2
        <5> QED BY <5>2, <5>3
      <4> QED BY <4>1, <4>2
    <3> QED BY <1>1, <2>3, <3>1, <3>3 DEF ActiveAt
  <2>4. CASE g # h
    <3>1. membership[g].roomId # r \/ membership[g].name # n
      BY <1>3, <2>4, Seated
    <3>2. LastActive(g)' = LastActive(g)
      BY <1>2, <2>1, <3>1 DEF LastActive
    <3>3. slots'[g] = slots[g]
      BY <1>1, <2>4
    <3> QED BY <2>2, <3>2, <3>3 DEF ActiveAt
  <2> QED BY <2>3, <2>4
<1> QED BY <1>3 DEF ActiveSince

(* Who goes takes nobody else's stamp along.                                *)
LEMMA ActiveWithout ==
    ASSUME Base, Kept, ActiveSince, NEW h \in Handles, membership[h] # undefined,
           Unseat(h), Vacate(h), now' = now
    PROVE  ActiveSince'
<1> DEFINE r == membership[h].roomId
           n == membership[h].name
<1>1. /\ r \in RoomIds /\ n \in Names
      /\ lastActivityAt \in [RoomIds -> [Names -> Nat \cup {undefined}]]
      /\ slots \in [Handles -> Seq(Nat)]
      /\ membership \in [Handles -> Seats \cup {undefined}]
  BY Seated DEF Base, TypeOK, Kept, ObserversTyped
<1>2. \A q \in RoomIds, m \in Names :
         q # r \/ m # n => lastActivityAt'[q][m] = lastActivityAt[q][m]
  BY <1>1 DEF Unseat
<1>3. /\ membership'[h] = undefined
      /\ \A g \in Handles \ {h} : /\ membership'[g] = membership[g]
                                  /\ slots'[g] = slots[g]
  BY <1>1 DEF Unseat, Vacate
<1>4. ASSUME NEW g \in Handles \ {h}, membership[g] # undefined
      PROVE  ActiveAt(g)'
  <2>1. /\ membership[g].roomId \in RoomIds /\ membership[g].name \in Names
        /\ membership[g].roomId # r \/ membership[g].name # n
    BY <1>4, Seated
  <2>2. LastActive(g)' = LastActive(g)
    BY <1>2, <1>3, <2>1 DEF LastActive
  <2> QED BY <1>3, <1>4, <2>2 DEF ActiveAt, ActiveSince
<1> QED BY <1>3, <1>4 DEF ActiveSince

LEMMA ActiveQuiet ==
    ASSUME ActiveSince, UNCHANGED <<now, membership, lastActivityAt, slots>>
    PROVE  ActiveSince'
  BY DEF ActiveSince, ActiveAt, LastActive

LEMMA ActiveStep ==
    Base /\ Kept /\ Seatless /\ ActiveSince /\ [RetentionNext]_retentionVars
      => ActiveSince'
<1> SUFFICES ASSUME Base, Kept, Seatless, ActiveSince,
                    [RetentionNext]_retentionVars
             PROVE  ActiveSince'
  OBVIOUS
<1> USE DEF connectionVars, pushVars, managerVars, roomVars
<1>1. ASSUME NEW h \in Handles,
             \/ Connect(h) /\ Unobserved
             \/ \E r \in RoomIds, n \in Names \cup BadNames, fits \in BOOLEAN :
                   JoinRefused(h, r, n, fits) /\ Unobserved
             \/ SpeakRateLimited(h) /\ Unobserved
             \/ FlushBatch(h) /\ Unobserved
      PROVE  ActiveSince'
  <2>1. UNCHANGED <<now, membership, lastActivityAt, slots>>
    BY <1>1 DEF Connect, JoinRefused, SpeakRateLimited, FlushBatch, Unobserved
  <2> QED BY <2>1, ActiveQuiet
<1>2. ASSUME NEW h \in Handles, NEW r \in RoomIds, NEW n \in Names,
             Join(h, r, n), Occupy(r)
      PROVE  ActiveSince'
  <2>1. /\ membership[h] = undefined /\ n \notin members[r]
        /\ membership' = [membership EXCEPT ![h] = Seat(r, n)]
        /\ lastActivityAt' = [lastActivityAt EXCEPT ![r][n] = now]
        /\ UNCHANGED <<now, slots>>
    BY <1>2 DEF Join, JoinReaches, RoomRefuses, Occupy
  <2>2. /\ now \in Nat /\ membership \in [Handles -> Seats \cup {undefined}]
        /\ lastActivityAt \in [RoomIds -> [Names -> Nat \cup {undefined}]]
    BY DEF Base, TypeOK
  <2>3. ActiveAt(h)'
    <3>1. membership'[h].roomId = r /\ membership'[h].name = n
      BY <2>1, <2>2 DEF Seat
    <3>2. LastActive(h)' = now
      BY <2>1, <2>2, <3>1 DEF LastActive
    <3>3. slots'[h] = <<>> /\ Len(<<>>) = 0
      BY <2>1 DEF Seatless
    <3> QED BY <2>1, <2>2, <3>2, <3>3 DEF ActiveAt
  <2>4. ASSUME NEW g \in Handles \ {h}, membership[g] # undefined
        PROVE  membership'[g] = membership[g] /\ ActiveAt(g)'
    <3>1. membership'[g] = membership[g]
      BY <2>1, <2>2
    <3>2. /\ membership[g].roomId \in RoomIds /\ membership[g].name \in Names
          /\ membership[g].roomId # r \/ membership[g].name # n
      BY <2>1, <2>4, Seated
    <3>3. LastActive(g)' = LastActive(g)
      BY <2>1, <2>2, <3>1, <3>2 DEF LastActive
    <3> QED BY <2>1, <2>4, <3>1, <3>3 DEF ActiveAt, ActiveSince
  <2>5. \A g \in Handles \ {h} : membership'[g] = membership[g]
    BY <2>1, <2>2
  <2> QED BY <2>3, <2>4, <2>5 DEF ActiveSince
<1>3. ASSUME NEW h \in Handles, Leave(h), Vacate(h)
      PROVE  ActiveSince'
  <2>1. membership[h] # undefined /\ Unseat(h) /\ now' = now
    BY <1>3 DEF Leave
  <2> QED BY <1>3, <2>1, ActiveWithout
<1>4. ASSUME NEW h \in Handles, Disconnect(h), Vacate(h)
      PROVE  ActiveSince'
  <2>1. CASE membership[h] # undefined /\ Unseat(h)
    <3>1. now' = now
      BY <1>4 DEF Disconnect
    <3> QED BY <1>4, <2>1, <3>1, ActiveWithout
  <2>2. CASE /\ membership[h] = undefined
             /\ UNCHANGED <<membership, memberToHandle, managerVars, roomVars,
                            timestamps>>
    <3>1. slots' = slots
      BY <1>4, <2>2 DEF Vacate, Seatless, Kept, ObserversTyped
    <3>2. UNCHANGED <<now, membership, lastActivityAt, slots>>
      BY <1>4, <2>2, <3>1 DEF Disconnect
    <3> QED BY <3>2, ActiveQuiet
  <2> QED BY <1>4, <2>1, <2>2 DEF Disconnect, ReleaseSeat
<1>5. ASSUME NEW h \in Handles,
             (\E mentions \in MentionSets : Speak(h, mentions)) \/ SpeakRoomFull(h),
             UseSlot(h)
      PROVE  ActiveSince'
  <2>1. /\ membership[h] # undefined
        /\ RecordActivity(membership[h].roomId, membership[h].name)
        /\ UNCHANGED <<now, membership>>
    BY <1>5 DEF Speak, SpeakRoomFull, SpeakAdmitted, Joined
  <2>2. slots' = [slots EXCEPT ![h] = Append(slots[h], now)]
    BY <1>5 DEF UseSlot
  <2> QED BY <2>1, <2>2, ActiveNow
<1>6. ASSUME NEW h \in Handles,
             \/ \E limit \in Limits : Joined(h) /\ Poll(h, limit)
             \/ ListMembers(h) /\ Unobserved
      PROVE  ActiveSince'
  <2>1. /\ membership[h] # undefined
        /\ RecordActivity(membership[h].roomId, membership[h].name)
        /\ UNCHANGED <<now, membership, slots>>
    BY <1>6 DEF Poll, ReadHistory, ListMembers, Joined, Unobserved
  <2> QED BY <2>1, ActiveNow
<1>7. CASE Collect
  <2>1. /\ UNCHANGED <<now, membership, slots>>
        /\ lastActivityAt' = Evicted(lastActivityAt, [n \in Names |-> undefined])
    BY <1>7 DEF Collect, Gc
  <2>2. ASSUME NEW h \in Handles, membership[h] # undefined
        PROVE  ActiveAt(h)'
    <3>1. membership[h].roomId \in RoomIds \ ExpiredRooms
      BY <2>2, Seated DEF ExpiredRooms
    <3>2. LastActive(h)' = LastActive(h)
      BY <2>1, <3>1 DEF LastActive, Evicted
    <3> QED BY <2>1, <2>2, <3>2 DEF ActiveAt, ActiveSince
  <2> QED BY <2>1, <2>2 DEF ActiveSince
<1>8. CASE Tick /\ Unobserved
  <2>1. now \in Nat /\ now' = now + 1
        /\ UNCHANGED <<membership, lastActivityAt, slots>>
    BY <1>8 DEF Tick, Unobserved, Base, TypeOK
  <2>2. ASSUME NEW h \in Handles, ActiveAt(h)
        PROVE  ActiveAt(h)'
    <3>1. LastActive(h)' = LastActive(h)
      BY <2>1 DEF LastActive
    <3> QED BY <2>1, <2>2, <3>1 DEF ActiveAt
  <2> QED BY <2>1, <2>2 DEF ActiveSince
<1>9. CASE UNCHANGED retentionVars
  BY <1>9, ActiveQuiet DEF retentionVars, vars
<1> QED BY <1>1, <1>2, <1>3, <1>4, <1>5, <1>6, <1>7, <1>8, <1>9
        DEF RetentionNext

(* A throttled member used up its quota within the limiter's window, and    *)
(* every one of those sends was recorded as activity (broker.ts:166-170):   *)
(* its activity stamp is at most a window old.                              *)
THEOREM ThrottledAlwaysSpokeLately ==
    ASSUME OneProject
    PROVE  RetentionSpec => []ThrottledSpokeLately
<1>1. QuotaInv /\ ActiveSince => ThrottledSpokeLately
  <2> SUFFICES ASSUME QuotaInv, ActiveSince, NEW h \in Handles,
                      membership[h] # undefined,
                      ~Fits(timestamps[membership[h].name], now)
               PROVE  LastActive(h) # undefined /\ now - LastActive(h) <= WindowMs
    BY DEF ThrottledSpokeLately, LastActive
  <2> DEFINE n == membership[h].name
             list == timestamps[n]
  <2>1. /\ n \in Names /\ Holds(h, n) /\ n \in members[membership[h].roomId]
    BY Seated DEF Holds, QuotaInv
  <2>2. Granted[n] = slots[h]
    BY <2>1 DEF QuotaInv, SlotsByHolder, Granted
  <2>3. /\ list \in Seq(Nat) /\ now \in Nat /\ slots[h] \in Seq(Nat)
        /\ IsTail(list, slots[h], now) /\ ActiveAt(h)
    BY <2>1, <2>2 DEF QuotaInv, Limited, Base, TypeOK, Kept, ObserversTyped,
                      ActiveSince
  <2> HIDE DEF list, n
  <2>4. PICK k \in 0..Len(list) :
           /\ Len(Pruned(list, now)) = Len(list) - k
           /\ k < Len(list) => list[k + 1] >= now - WindowMs
    BY <2>3, PrunedIsSuffix
  <2>5. Len(list) \in Nat /\ Len(slots[h]) \in Nat
    BY <2>3, LenProperties
  <2>6. k < Len(list)
    <3>1. ~(Len(list) - k < MaxPerWindow)
      BY <2>4 DEF Fits, list, n
    <3> QED BY <3>1, <2>4, <2>5, WindowAssumption
  <2>7. PICK j \in 1..Len(slots[h]) : list[k + 1] = slots[h][j]
    <3>1. k + 1 \in 1..Len(list)
      BY <2>4, <2>5, <2>6
    <3>2. /\ Len(list) <= Len(slots[h])
          /\ list[k + 1] = slots[h][Len(slots[h]) - Len(list) + (k + 1)]
      BY <2>3, <3>1 DEF IsTail
    <3>3. Len(slots[h]) - Len(list) + (k + 1) \in 1..Len(slots[h])
      <4> DEFINE few == Len(list)
                 many == Len(slots[h])
      <4>1. /\ k \in Nat /\ k + 1 <= few /\ few \in Nat /\ many \in Nat
            /\ few <= many
        BY <2>4, <2>5, <2>6, <3>2
      <4> HIDE DEF few, many
      <4>2. many - few + (k + 1) \in 1..many
        BY <4>1
      <4> QED BY <4>2 DEF few, many
    <3> QED BY <3>2, <3>3
  <2>8. /\ LastActive(h) \in Nat /\ LastActive(h) <= now
        /\ slots[h][j] \in Nat /\ slots[h][j] <= LastActive(h)
        /\ slots[h][j] >= now - WindowMs
    BY <2>3, <2>4, <2>6, <2>7, ElementOfSeq DEF ActiveAt
  <2>9. now - LastActive(h) <= WindowMs
    <3> DEFINE last == LastActive(h)
               slot == slots[h][j]
    <3>1. /\ last \in Nat /\ now \in Nat /\ WindowMs \in Nat
          /\ slot \in Nat /\ slot <= last /\ slot >= now - WindowMs
      BY <2>3, <2>8, WindowAssumption
    <3> HIDE DEF last, slot
    <3>2. now - last <= WindowMs
      BY <3>1
    <3> QED BY <3>2 DEF last
  <2>10. LastActive(h) # undefined
    BY <2>8, BrokerAssumption
  <2> QED BY <2>9, <2>10
<1> QED BY <1>1, QuotaHolds, ActiveInit, ActiveStep, PTL DEF RetentionSpec, QuotaInv
=============================================================================
