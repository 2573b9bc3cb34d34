------------------------------ MODULE Startup ------------------------------
(* How channel servers find the broker and how the one broker comes to be:  *)
(* connectToBroker (channel/src/broker-client.ts), the daemon's entry       *)
(* (broker/src/daemon.ts) and the two files both sides share                *)
(* (shared/src/daemon.ts). Every await is a place where another process may *)
(* run, so each piece of code between two awaits is an action.              *)
(*                                                                          *)
(* A channel server spawns at most one daemon: `s` names the session, and   *)
(* the daemon it spawned. A token is named after the daemon that made it;   *)
(* randomBytes(32) makes no token twice.                                    *)
EXTENDS Naturals, FiniteSets

CONSTANTS Sessions,
          MaxOutages,     \* bound on the daemons that are stopped or killed
          Inherited,      \* a token left by a daemon of an earlier day
          none,           \* no file, an empty file, no token, no connection
          free,           \* a port nobody is bound to
          lingering       \* a port whose last connections are in TIME_WAIT

ASSUME StartupAssumption ==
    /\ MaxOutages \in Nat
    /\ Inherited \notin Sessions
    /\ {none, free, lingering} \cap (Sessions \cup {Inherited}) = {}
    /\ free # lingering

Tokens == Sessions \cup {Inherited}

VARIABLES
    client,       \* where connectToBroker of a session stands
    link,         \* the daemon behind the WebSocket a session opened
    presented,    \* the token a session puts into its joins
    phase,        \* where daemon.ts stands in the process a session spawned
    authToken,    \* the token that process checks joins against
    port,         \* who is bound to the user's port
    tokenFile,    \* auth-token; an empty one reads as none
    stateFile,    \* broker.json, by the pid it names
    contended     \* history: a daemon missed the token another was writing

clientVars == <<client, link, presented>>
fileVars == <<tokenFile, stateFile>>
vars == <<clientVars, phase, authToken, port, fileVars, contended>>

Starting == {"reading", "minting", "writing", "binding"}
Bound == {"recording", "serving"}
Live == Starting \cup Bound \cup {"closed"}
Phases == Live \cup {"unborn", "exited", "stopped", "killed"}

TypeOK ==
    /\ client \in [Sessions -> {"probing", "polling", "reading", "ready",
                                "timedOut", "tokenless"}]
    /\ link \in [Sessions -> Sessions \cup {none}]
    /\ presented \in [Sessions -> Tokens \cup {none}]
    /\ phase \in [Sessions -> Phases]
    /\ authToken \in [Sessions -> Tokens \cup {none}]
    /\ port \in Sessions \cup {free, lingering}
    /\ tokenFile \in Tokens \cup {none}
    /\ stateFile \in Sessions \cup {none}
    /\ contended \in BOOLEAN

Init ==
    /\ client = [s \in Sessions |-> "probing"]
    /\ link = [s \in Sessions |-> none]
    /\ presented = [s \in Sessions |-> none]
    /\ phase = [s \in Sessions |-> "unborn"]
    /\ authToken = [s \in Sessions |-> none]
    /\ port = free
    /\ tokenFile \in {none, Inherited}
    /\ stateFile = none
    /\ contended = FALSE
-----------------------------------------------------------------------------
(* The daemon *)

Goto(d, p) == phase' = [phase EXCEPT ![d] = p]

\* A mutation: a token that exists is not used.
TokenNeverFound == FALSE

\* readAuthToken sees a token.
TokenFound == tokenFile # none

\* ensureAuthToken: take the persisted token, or set out to make one.
ReadToken(d) ==
    /\ phase[d] = "reading"
    /\ IF TokenFound
       THEN /\ authToken' = [authToken EXCEPT ![d] = tokenFile]
            /\ Goto(d, "binding")
            /\ UNCHANGED contended
       ELSE /\ authToken' = [authToken EXCEPT ![d] = d]
            /\ Goto(d, "minting")
            /\ contended' = (contended \/ \E e \in Sessions \ {d} :
                                             phase[e] \in {"minting", "writing"})
    /\ UNCHANGED <<clientVars, port, fileVars>>

\* writeFile opens the token file truncated ...
TruncateToken(d) ==
    /\ phase[d] = "minting"
    /\ Goto(d, "writing")
    /\ tokenFile' = none
    /\ UNCHANGED <<clientVars, authToken, port, stateFile, contended>>

\* A mutation: the new token is kept in memory only.
NotPersisted(d) == tokenFile

Persisted(d) == authToken[d]

\* ... and then writes it, in one piece.
WriteToken(d) ==
    /\ phase[d] = "writing"
    /\ Goto(d, "binding")
    /\ tokenFile' = Persisted(d)
    /\ UNCHANGED <<clientVars, authToken, port, stateFile, contended>>

\* startWsServer binds the port and serves from here on.
Bind(d) ==
    /\ phase[d] = "binding"
    /\ port = free
    /\ port' = d
    /\ Goto(d, "recording")
    /\ UNCHANGED <<clientVars, authToken, fileVars, contended>>

\* Mutations: a daemon that loses the port goes on, or tries for ever.
LoserCarriesOn(d) == Goto(d, "recording")
LoserWaits(d) == UNCHANGED phase

Loser(d) == Goto(d, "exited")

\* EADDRINUSE: another daemon won the race, or the port is not yet released.
LosePort(d) ==
    /\ phase[d] = "binding"
    /\ port # free
    /\ Loser(d)
    /\ UNCHANGED <<clientVars, authToken, port, fileVars, contended>>

\* writeStateFile: the rename of a temporary file nobody else writes makes it
\* one step. The signal handlers are registered right after it.
WriteStateFile(d) ==
    /\ phase[d] = "recording"
    /\ Goto(d, "serving")
    /\ stateFile' = d
    /\ UNCHANGED <<clientVars, authToken, port, tokenFile, contended>>

Down == {d \in Sessions : phase[d] \in {"closed", "stopped", "killed"}}

MayGoDown(d) == d \in Down \/ Cardinality(Down) < MaxOutages

\* The port of d, once d gives it up.
Vacated(d) == IF port # d THEN {port} ELSE {free, lingering}

\* shutdown: SIGINT or SIGTERM. server.stop(true) closes the port and every
\* connection ...
StopServer(d) ==
    /\ phase[d] = "serving"
    /\ MayGoDown(d)
    /\ Goto(d, "closed")
    /\ port' \in Vacated(d)
    /\ UNCHANGED <<clientVars, authToken, fileVars, contended>>

\* ... and then the state file goes, whoever's it is by now.
RemoveState(d) ==
    /\ phase[d] = "closed"
    /\ Goto(d, "stopped")
    /\ stateFile' = none
    /\ UNCHANGED <<clientVars, authToken, port, tokenFile, contended>>

\* The process dies at any point: SIGKILL, a signal before the handlers are
\* registered, a second signal during shutdown.
Kill(d) ==
    /\ phase[d] \in Live
    /\ MayGoDown(d)
    /\ Goto(d, "killed")
    /\ port' \in Vacated(d)
    /\ UNCHANGED <<clientVars, authToken, fileVars, contended>>

\* The operating system: TIME_WAIT ends.
PortReleased ==
    /\ port = lingering
    /\ port' = free
    /\ UNCHANGED <<clientVars, phase, authToken, fileVars, contended>>
-----------------------------------------------------------------------------
(* The client: connectToBroker *)

\* tryOpen reaches a daemon.
Open(s) ==
    /\ client[s] \in {"probing", "polling"}
    /\ port \in Sessions
    /\ link' = [link EXCEPT ![s] = port]
    /\ client' = [client EXCEPT ![s] = "reading"]
    /\ UNCHANGED <<presented, phase, authToken, port, fileVars, contended>>

\* The first attempt fails: spawn a daemon, once. What a later attempt finds
\* changes nothing unless it opens.
Spawn(s) ==
    /\ client[s] = "probing"
    /\ port \notin Sessions
    /\ client' = [client EXCEPT ![s] = "polling"]
    /\ Goto(s, "reading")
    /\ UNCHANGED <<link, presented, authToken, port, fileVars, contended>>

\* The deadline passes. A daemon is assumed to get through its start well
\* within the timeout (5 s), so by then the one this session spawned has
\* served or is gone, and the last of the polls (every 100 ms) failed.
GiveUp(s) ==
    /\ client[s] = "polling"
    /\ port \notin Sessions
    /\ phase[s] \notin Starting
    /\ client' = [client EXCEPT ![s] = "timedOut"]
    /\ UNCHANGED <<link, presented, phase, authToken, port, fileVars, contended>>

\* The token is read once, after the connection was opened.
ReadClientToken(s) ==
    /\ client[s] = "reading"
    /\ presented' = [presented EXCEPT ![s] = tokenFile]
    /\ IF tokenFile = none
       THEN /\ client' = [client EXCEPT ![s] = "tokenless"]
            /\ link' = [link EXCEPT ![s] = none]
       ELSE /\ client' = [client EXCEPT ![s] = "ready"]
            /\ UNCHANGED link
    /\ UNCHANGED <<phase, authToken, port, fileVars, contended>>
-----------------------------------------------------------------------------
DaemonStep(d) ==
    \/ ReadToken(d) \/ TruncateToken(d) \/ WriteToken(d)
    \/ Bind(d) \/ LosePort(d)
    \/ WriteStateFile(d) \/ RemoveState(d)

ClientStep(s) == Open(s) \/ Spawn(s) \/ GiveUp(s) \/ ReadClientToken(s)

Next ==
    \/ \E s \in Sessions : DaemonStep(s) \/ ClientStep(s)
    \/ \E d \in Sessions : StopServer(d) \/ Kill(d)
    \/ PortReleased

Spec == Init /\ [][Next]_vars

\* Processes that live make progress. Nobody need ever stop or kill one.
Progress == \A s \in Sessions : WF_vars(DaemonStep(s)) /\ WF_vars(ClientStep(s))

FairSpec == Spec /\ Progress
-----------------------------------------------------------------------------
\* The session is connected to a daemon that runs.
Connected(s) == client[s] = "ready" /\ phase[link[s]] \in Bound

Outage == Down # {}

(* "Auth is established by a per-user random token ... which both the       *)
(* broker daemon and every channel server can read" (README.md:140): a      *)
(* session presents the token its broker checks.                            *)
TokenAgrees ==
    \A s \in Sessions : Connected(s) => presented[s] = authToken[link[s]]

(* Daemons killed at any point of making a token, restarts, losers of the   *)
(* port and clients reading at any moment do no harm: as long as no daemon  *)
(* looks for the token while another is making one, nobody presents a wrong *)
(* token and nobody finds none behind an open port.                         *)
TokenSharedUnlessContended ==
    ~contended => /\ TokenAgrees
                  /\ \A s \in Sessions : client[s] # "tokenless"

(* broker.json (README.md:105 sends users there) never names a daemon other *)
(* than the one that serves, and is missing beside one only if another was  *)
(* shutting down, which removes the file after it has freed the port.       *)
RecordTrue ==
    \A d \in Sessions : phase[d] = "serving" =>
        \/ stateFile = d
        \/ stateFile = none /\ \E e \in Sessions : phase[e] = "stopped"

(* "[On] EADDRINUSE ... another instance won the race and this process      *)
(* exits cleanly so the spawning client falls through to its retry-connect  *)
(* path" (daemon.ts:2-5): unless a daemon goes down or the token is         *)
(* contended, every session ends up with a broker that takes its token,     *)
(* however many start at once.                                              *)
EverySessionConnects ==
    \A s \in Sessions :
        (client[s] = "probing") ~>
            \/ Connected(s) /\ presented[s] = authToken[link[s]]
            \/ Outage \/ contended

(* No daemon is left half started, waiting for a port somebody else has.    *)
DaemonsSettle ==
    \A d \in Sessions :
        (phase[d] \in Starting) ~> (phase[d] \in Phases \ Starting)
=============================================================================
