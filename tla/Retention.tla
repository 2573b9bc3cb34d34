----------------------------- MODULE Retention -----------------------------
(* The broker observed over time: when each room really became empty, the   *)
(* send slots each membership has used, and what a member has read by       *)
(* polling read_history with the last id it has seen.                       *)
EXTENDS Broker

CONSTANT Limits           \* `limit` arguments readers pass; undefined for none

ASSUME RetentionAssumption == Limits \subseteq Nat \cup {undefined}

VARIABLES vacatedAt,      \* history: when a room's last member went, judged
                          \* from the connections; undefined if it has one
                          \* or never had one
          slots,          \* history: stamps of the slots a membership used
          read            \* history: what a connection has read of a room

retentionVars == <<vars, vacatedAt, slots, read>>

RetentionInit ==
    /\ Init
    /\ vacatedAt = [r \in RoomIds |-> undefined]
    /\ slots = [h \in Handles |-> <<>>]
    /\ read = [h \in Handles |-> [r \in RoomIds |-> <<>>]]
-----------------------------------------------------------------------------
Alone(h) == \A g \in Handles \ {h} :
                \/ membership[g] = undefined
                \/ membership[g].roomId # membership[h].roomId

\* h gives up its seat: its room may be empty now, its quota is forgotten.
Vacate(h) ==
    /\ vacatedAt' = IF membership[h] # undefined /\ Alone(h)
                    THEN [vacatedAt EXCEPT ![membership[h].roomId] = now]
                    ELSE vacatedAt
    /\ slots' = [slots EXCEPT ![h] = <<>>]
    /\ UNCHANGED read

Occupy(r) == /\ vacatedAt' = [vacatedAt EXCEPT ![r] = undefined]
             /\ UNCHANGED <<slots, read>>

UseSlot(h) == /\ slots' = [slots EXCEPT ![h] = Append(@, now)]
              /\ UNCHANGED <<vacatedAt, read>>

LastRead(h, r) == IF read[h][r] = <<>> THEN undefined
                  ELSE read[h][r][Len(read[h][r])].id

\* One poll: ask for what follows the last message seen.
Poll(h, limit) ==
    LET r == membership[h].roomId
    IN  /\ ReadHistory(h)
        /\ read' = [read EXCEPT ![h][r] =
                      @ \o HistoryPage(r, LastRead(h, r), limit)]
        /\ UNCHANGED <<vacatedAt, slots>>

\* An evicted room is gone; reading a room created later starts afresh.
Collect ==
    /\ Gc
    /\ vacatedAt' = [r \in RoomIds |-> IF r \in entries' THEN vacatedAt[r]
                                       ELSE undefined]
    /\ read' = [h \in Handles |-> [r \in RoomIds |->
                  IF r \in entries' THEN read[h][r] ELSE <<>>]]
    /\ UNCHANGED slots

Unobserved == UNCHANGED <<vacatedAt, slots, read>>

RetentionNext ==
    \/ \E h \in Handles :
          \/ Connect(h) /\ Unobserved
          \/ Disconnect(h) /\ Vacate(h)
          \/ \E r \in RoomIds, n \in Names : Join(h, r, n) /\ Occupy(r)
          \/ \E r \in RoomIds, n \in Names \cup BadNames, fits \in BOOLEAN :
                JoinRefused(h, r, n, fits) /\ Unobserved
          \/ Leave(h) /\ Vacate(h)
          \/ \E mentions \in MentionSets : Speak(h, mentions) /\ UseSlot(h)
          \/ SpeakRoomFull(h) /\ UseSlot(h)
          \/ SpeakRateLimited(h) /\ Unobserved
          \/ \E limit \in Limits : Joined(h) /\ Poll(h, limit)
          \/ ListMembers(h) /\ Unobserved
          \/ FlushBatch(h) /\ Unobserved
    \/ Collect
    \/ Tick /\ Unobserved

RetentionSpec == RetentionInit /\ [][RetentionNext]_retentionVars
-----------------------------------------------------------------------------
(* A room and its history outlive the last member by the TTL, counted from  *)
(* the moment it last emptied, and are never evicted under a member         *)
(* (room-manager.ts:26-29), however often members come and go in between.   *)
EvictedOnlyWhenStale ==
    [][\A r \in entries \ entries' :
          /\ \A h \in Handles : membership[h] # undefined =>
                membership[h].roomId # r
          /\ vacatedAt[r] # undefined
          /\ now - vacatedAt[r] > HistoryTtlMs]_retentionVars

(* A room is aged from the moment it emptied: a room nobody sits in carries *)
(* the stamp of its last departure, so it becomes evictable on time.        *)
(* broker.ts:31: "Empty rooms older than this are garbage-collected."       *)
EmptyRoomsAge ==
    \A r \in entries : members[r] = {} =>
        lastEmptyAt[r] # undefined /\ lastEmptyAt[r] = vacatedAt[r]

(* The weaker fact that survives a refused first join: emptiness, once it   *)
(* follows a departure, is stamped with that departure.                     *)
DeparturesAge ==
    \A r \in entries : lastEmptyAt[r] = vacatedAt[r]

(* Polling with the last id seen returns every message once, in order: what *)
(* a connection has read of a room is a prefix of the room's history, over  *)
(* pages of any size, leaves and rejoins (room.ts:149-157).                 *)
ReaderMissesNothing ==
    \A h \in Handles, r \in RoomIds :
        /\ Len(read[h][r]) <= Len(history[r])
        /\ read[h][r] = SubSeq(history[r], 1, Len(read[h][r]))

(* A send the limiter refuses is not recorded as activity (broker.ts:166).  *)
(* What the room still knows of a member that would be refused is the sends *)
(* that used up its quota: its last recorded activity is at most one window *)
(* of the limiter old, closed at the far end, whichever of limiter and room *)
(* has been cleared by a departure in the meantime.                         *)
ThrottledSpokeLately ==
    \A h \in Handles :
        (membership[h] # undefined /\ ~Fits(timestamps[membership[h].name], now))
            => LET active == lastActivityAt[membership[h].roomId][membership[h].name]
               IN  active # undefined /\ now - active <= WindowMs

RecentSlots(h) == {i \in DOMAIN slots[h] : slots[h][i] >= now - WindowMs}

(* A single sender emits at most MaxPerWindow messages within the window    *)
(* (README.md:116, rate-limiter.ts:1-2), counted over one uninterrupted     *)
(* membership: any MaxPerWindow + 1 slots in a row span more than a window. *)
SenderWithinQuota ==
    \A h \in Handles : \A i \in 1..(Len(slots[h]) - MaxPerWindow) :
        slots[h][i + MaxPerWindow] - slots[h][i] > WindowMs

(* Limits are independent (broker.test.ts:272): a member is let speak while *)
(* it used fewer than MaxPerWindow slots in the closed window, whatever the *)
(* other members did, and only then.                                        *)
QuotaIsOwn ==
    \A h \in Handles : membership[h] # undefined =>
        (Fits(timestamps[membership[h].name], now)
            <=> Cardinality(RecentSlots(h)) < MaxPerWindow)

\* The slots of whoever sits under a name; <<>> if nobody does.
SlotsOf(n) ==
    LET holders == {h \in Handles : membership[h] # undefined
                                       /\ membership[h].name = n}
    IN  IF holders = {} THEN <<>> ELSE slots[CHOOSE h \in holders : TRUE]

(* Where a name is used in one room only, the limiter inside the broker is  *)
(* the limiter by itself: every send asks it once, every departure forgets  *)
(* its sender, and nothing else touches it (broker.ts:125, 159, 166).       *)
Limiter == INSTANCE SenderRateLimiter WITH
    Senders <- Names,
    granted <- [n \in Names |-> SlotsOf(n)]

ImplementsLimiter == Limiter!Spec
=============================================================================
