---------------------------- MODULE MCEngagement ----------------------------
EXTENDS Engagement, TLC

CONSTANTS c1, c2, r1, a, b

\* Every client is started for one project and so for one room.
OneRoomEach == [h \in Handles |-> {r1}]
=============================================================================
