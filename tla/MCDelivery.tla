----------------------------- MODULE MCDelivery -----------------------------
EXTENDS Delivery, TLC

CONSTANTS c1, c2, c3, r1, r2, a, b

\* Every client is started for one project and so for one room.
OneRoomEach == [h \in Handles |-> {r1}]

\* Two clients in one project, one in another; names may coincide.
TwoProjects == [h \in Handles |-> IF h = c3 THEN {r2} ELSE {r1}]

\* One member, or everybody.
Mentions == {{n} : n \in Names \cup {EVERYONE}}

\* Activity stamps decide nothing about delivery: no guard reads them.
WithoutActivity == <<now, connectionVars, pushVars, managerVars, members,
                     history, nextId, timestamps, owed, received>>

\* Connections are interchangeable, and so are names.
Symmetric == Permutations(Handles) \cup Permutations(Names)
=============================================================================
