---------------------------- MODULE MCConnection ----------------------------
EXTENDS EndToEnd, TLC

CONSTANTS c1, c2, r1, a, b

\* Both clients were started in one project.
OneRoomEach == [h \in Handles |-> {r1}]

Joining(name) == [method |-> "join", name |-> name]
SpeakToAll == [method |-> "speak", mentions |-> {EVERYONE}]

\* One session talks, comes and goes; the other, which may want the same
\* name, joins and listens.
TalkerAndListener ==
    [h \in Handles |->
       IF h = c1 THEN {Joining(a), SpeakToAll, [method |-> "leave"]}
       ELSE {Joining(a), Joining(b), [method |-> "list_members"],
             [method |-> "read_history"], [method |-> "invalid"]}]

Calls == [h \in Handles |-> IF h = c1 THEN 3 ELSE 1]
=============================================================================
