----------------------------- MODULE Engagement -----------------------------
(* The broker beside what its members do: when each of them last invoked a  *)
(* tool, whatever came of it, and whom members() lists as engaged.          *)
EXTENDS Broker

CONSTANT EngagementWindowMs   \* how long a member counts as engaged

VARIABLE usedAt               \* history: when a connection last invoked a tool

engagementVars == <<vars, usedAt>>

EngagementInit == Init /\ usedAt = [h \in Handles |-> undefined]
-----------------------------------------------------------------------------
\* The agent behind h calls a tool, and the broker serves the request.
UseTool(h) ==
    /\ \/ \E r \in RoomIds, n \in Names : Join(h, r, n)
       \/ \E r \in RoomIds, n \in Names \cup BadNames, fits \in BOOLEAN :
             JoinRefused(h, r, n, fits)
       \/ Leave(h)
       \/ \E mentions \in MentionSets : Speak(h, mentions)
       \/ SpeakRoomFull(h)
       \/ SpeakRateLimited(h)
       \/ ReadHistory(h)
       \/ ListMembers(h)
    /\ usedAt' = [usedAt EXCEPT ![h] = now]

EngagementNext ==
    \/ \E h \in Handles :
          \/ UseTool(h)
          \/ (Connect(h) \/ Disconnect(h) \/ FlushBatch(h)) /\ UNCHANGED usedAt
    \/ (Gc \/ Tick) /\ UNCHANGED usedAt

EngagementSpec == EngagementInit /\ [][EngagementNext]_engagementVars
-----------------------------------------------------------------------------
\* What members() reports: these are `engaged`, the other members `idle`.
Engaged(r) == {n \in members[r] :
                 now - lastActivityAt[r][n] < EngagementWindowMs}

(* Engagement is "computed from the time since the member last invoked any  *)
(* group-chat tool" (shared/src/types.ts:15), so that one can tell an agent *)
(* at work from one that has gone quiet: a member that has invoked one      *)
(* within the engagement window is listed as engaged.                       *)
ToolUsersEngaged ==
    \A h \in Handles :
        (membership[h] # undefined /\ now - usedAt[h] < EngagementWindowMs)
            => membership[h].name \in Engaged(membership[h].roomId)
=============================================================================
