---------------------------- MODULE MCRetention ----------------------------
EXTENDS Retention, TLC

CONSTANTS c1, c2, c3, r1, r2, a, b

\* Every client is started for one project and so for one room.
OneRoomEach == [h \in Handles |-> {r1}]

\* Two clients in one project, one in another; names may coincide.
TwoProjects == [h \in Handles |-> IF h = c3 THEN {r2} ELSE {r1}]

\* Push queues feed nothing this run looks at: no guard of a step that changes
\* anything else reads them.
WithoutPushes == <<now, connectionVars, managerVars, roomVars, timestamps,
                   vacatedAt, slots, read>>

\* Connections are interchangeable, and so are the two names.
Symmetric == Permutations(Handles) \cup Permutations(Names)
=============================================================================
