--------------------------- MODULE StartupProofs ---------------------------
(* What Startup promises about the token and about broker.json, for any     *)
(* number of sessions and of outages.                                       *)
EXTENDS Startup, TLAPS

\* The processes and the port agree on who is bound, and a session that got
\* past the port has a connection.
PortHeld ==
    /\ \A d \in Sessions : phase[d] \in Bound <=> port = d
    /\ \A s \in Sessions : client[s] \in {"reading", "ready"} =>
          link[s] \in Sessions

Minting(d) == phase[d] \in {"minting", "writing"}

\* A daemon makes a token only while there is none, alone; from the first
\* complete token on, the file and everybody who read it or wrote it agree.
OneToken ==
    /\ \A d \in Sessions : Minting(d) =>
          /\ tokenFile = none
          /\ authToken[d] = d
          /\ \A e \in Sessions : Minting(e) => e = d
    /\ \A d \in Sessions : phase[d] \in {"binding"} \cup Bound =>
          tokenFile # none /\ authToken[d] = tokenFile
    /\ \A s \in Sessions :
          /\ client[s] # "tokenless"
          /\ client[s] = "reading" => tokenFile # none
          /\ client[s] = "ready" => tokenFile # none /\ presented[s] = tokenFile

TokenInv == PortHeld /\ (~contended => OneToken)

RecordInv == PortHeld /\ RecordTrue
-----------------------------------------------------------------------------
LEMMA TypeStep == TypeOK /\ [Next]_vars => TypeOK'
  <1> SUFFICES ASSUME TypeOK, [Next]_vars PROVE TypeOK'
    OBVIOUS
  <1> USE StartupAssumption DEF TypeOK, Tokens, Phases, Live, Starting, Bound,
                                Goto
  <1>1. ASSUME NEW d \in Sessions, DaemonStep(d) PROVE TypeOK'
    <2>1. CASE ReadToken(d)
      <3>1. contended' \in BOOLEAN
        BY <2>1, ZenonT(30) DEF ReadToken
      <3>2. /\ phase' \in [Sessions -> Phases]
            /\ authToken' \in [Sessions -> Tokens \cup {none}]
        BY <2>1 DEF ReadToken, TokenFound
      <3>3. QED BY <2>1, <3>1, <3>2 DEF ReadToken, fileVars, clientVars
    <2>2. CASE TruncateToken(d)  BY <2>2 DEF TruncateToken, clientVars
    <2>3. CASE WriteToken(d)     BY <2>3 DEF WriteToken, Persisted, clientVars
    <2>4. CASE Bind(d)           BY <2>4 DEF Bind, fileVars, clientVars
    <2>5. CASE LosePort(d)       BY <2>5 DEF LosePort, Loser, fileVars, clientVars
    <2>6. CASE WriteStateFile(d) BY <2>6 DEF WriteStateFile, clientVars
    <2>7. CASE RemoveState(d)    BY <2>7 DEF RemoveState, clientVars
    <2>8. QED BY <1>1, <2>1, <2>2, <2>3, <2>4, <2>5, <2>6, <2>7 DEF DaemonStep
  <1>2. ASSUME NEW s \in Sessions, ClientStep(s) PROVE TypeOK'
    <2>1. CASE Open(s)            BY <2>1 DEF Open, fileVars
    <2>2. CASE Spawn(s)           BY <2>2 DEF Spawn, fileVars
    <2>3. CASE GiveUp(s)          BY <2>3 DEF GiveUp, fileVars
    <2>4. CASE ReadClientToken(s) BY <2>4 DEF ReadClientToken, fileVars
    <2>5. QED BY <1>2, <2>1, <2>2, <2>3, <2>4 DEF ClientStep
  <1>3. ASSUME NEW d \in Sessions, StopServer(d) PROVE TypeOK'
    BY <1>3 DEF StopServer, Vacated, fileVars, clientVars
  <1>4. ASSUME NEW d \in Sessions, Kill(d) PROVE TypeOK'
    BY <1>4 DEF Kill, Vacated, fileVars, clientVars
  <1>5. CASE PortReleased
    BY <1>5 DEF PortReleased, fileVars, clientVars
  <1>6. CASE UNCHANGED vars
    BY <1>6 DEF vars, fileVars, clientVars
  <1>7. QED BY <1>1, <1>2, <1>3, <1>4, <1>5, <1>6 DEF Next

\* Every variable of the start-up keeps its type.
THEOREM StartupTypeCorrect == Spec => []TypeOK
  <1>1. Init => TypeOK
    BY DEF Init, TypeOK, Tokens, Phases, Live, Starting, Bound
  <1>2. QED BY <1>1, TypeStep, PTL DEF Spec

LEMMA PortStep == TypeOK /\ PortHeld /\ [Next]_vars => PortHeld'
  <1> SUFFICES ASSUME TypeOK, PortHeld, [Next]_vars PROVE PortHeld'
    OBVIOUS
  <1> USE StartupAssumption DEF TypeOK, PortHeld, Bound, Goto
  <1>1. ASSUME NEW d \in Sessions, DaemonStep(d) PROVE PortHeld'
    <2>1. CASE ReadToken(d)      BY <2>1 DEF ReadToken, clientVars
    <2>2. CASE TruncateToken(d)  BY <2>2 DEF TruncateToken, clientVars
    <2>3. CASE WriteToken(d)     BY <2>3 DEF WriteToken, clientVars
    <2>4. CASE Bind(d)           BY <2>4 DEF Bind, clientVars
    <2>5. CASE LosePort(d)       BY <2>5 DEF LosePort, Loser, clientVars
    <2>6. CASE WriteStateFile(d) BY <2>6 DEF WriteStateFile, clientVars
    <2>7. CASE RemoveState(d)    BY <2>7 DEF RemoveState, clientVars
    <2>8. QED BY <1>1, <2>1, <2>2, <2>3, <2>4, <2>5, <2>6, <2>7 DEF DaemonStep
  <1>2. ASSUME NEW s \in Sessions, ClientStep(s) PROVE PortHeld'
    <2>1. CASE Open(s)            BY <2>1 DEF Open
    <2>2. CASE Spawn(s)           BY <2>2 DEF Spawn
    <2>3. CASE GiveUp(s)          BY <2>3 DEF GiveUp
    <2>4. CASE ReadClientToken(s) BY <2>4 DEF ReadClientToken
    <2>5. QED BY <1>2, <2>1, <2>2, <2>3, <2>4 DEF ClientStep
  <1>3. ASSUME NEW d \in Sessions, StopServer(d) PROVE PortHeld'
    BY <1>3 DEF StopServer, Vacated, clientVars
  <1>4. ASSUME NEW d \in Sessions, Kill(d) PROVE PortHeld'
    BY <1>4 DEF Kill, Vacated, clientVars
  <1>5. CASE PortReleased
    BY <1>5 DEF PortReleased, clientVars
  <1>6. CASE UNCHANGED vars
    BY <1>6 DEF vars, clientVars
  <1>7. QED BY <1>1, <1>2, <1>3, <1>4, <1>5, <1>6 DEF Next
-----------------------------------------------------------------------------
LEMMA OneTokenStep ==
    ASSUME TypeOK, PortHeld, OneToken, [Next]_vars, ~contended'
    PROVE  OneToken'
  <1> USE StartupAssumption DEF TypeOK, Tokens, OneToken, Minting, Bound, Goto
  <1>1. ASSUME NEW d \in Sessions, DaemonStep(d) PROVE OneToken'
    <2>1. CASE ReadToken(d)
      <3>1. CASE TokenFound
        BY <2>1, <3>1 DEF ReadToken, TokenFound, fileVars, clientVars
      <3>2. CASE ~TokenFound
        <4>1. /\ tokenFile = none /\ tokenFile' = none
              /\ UNCHANGED <<client, presented>>
              /\ phase' = [phase EXCEPT ![d] = "minting"]
              /\ authToken' = [authToken EXCEPT ![d] = d]
          BY <2>1, <3>2 DEF ReadToken, TokenFound, fileVars, clientVars
        <4>2. \A e \in Sessions \ {d} : ~Minting(e)
          BY <2>1, <3>2 DEF ReadToken
        <4>3. QED BY <4>1, <4>2
      <3>3. QED BY <3>1, <3>2
    <2>2. CASE TruncateToken(d)  BY <2>2 DEF TruncateToken, clientVars
    <2>3. CASE WriteToken(d)
      <3>1. /\ tokenFile = none /\ tokenFile' = d /\ d # none
            /\ authToken[d] = d
            /\ UNCHANGED <<client, presented, authToken>>
            /\ phase' = [phase EXCEPT ![d] = "binding"]
            /\ Minting(d)
        BY <2>3 DEF WriteToken, Persisted, clientVars
      <3>2. \A e \in Sessions \ {d} :
               ~Minting(e) /\ phase[e] \notin {"binding"} \cup Bound
        BY <3>1
      <3>3. \A s \in Sessions : client[s] \notin {"tokenless", "reading", "ready"}
        BY <3>1
      <3>4. QED BY <3>1, <3>2, <3>3
    <2>4. CASE Bind(d)           BY <2>4 DEF Bind, fileVars, clientVars
    <2>5. CASE LosePort(d)       BY <2>5 DEF LosePort, Loser, fileVars, clientVars
    <2>6. CASE WriteStateFile(d) BY <2>6 DEF WriteStateFile, clientVars
    <2>7. CASE RemoveState(d)    BY <2>7 DEF RemoveState, clientVars
    <2>8. QED BY <1>1, <2>1, <2>2, <2>3, <2>4, <2>5, <2>6, <2>7 DEF DaemonStep
  <1>2. ASSUME NEW s \in Sessions, ClientStep(s) PROVE OneToken'
    <2>1. CASE Open(s)
      <3>1. tokenFile # none
        BY <2>1 DEF Open, PortHeld
      <3>2. QED BY <2>1, <3>1 DEF Open, fileVars
    <2>2. CASE Spawn(s)           BY <2>2 DEF Spawn, fileVars
    <2>3. CASE GiveUp(s)          BY <2>3 DEF GiveUp, fileVars
    <2>4. CASE ReadClientToken(s) BY <2>4 DEF ReadClientToken, fileVars
    <2>5. QED BY <1>2, <2>1, <2>2, <2>3, <2>4 DEF ClientStep
  <1>3. ASSUME NEW d \in Sessions, StopServer(d) PROVE OneToken'
    BY <1>3 DEF StopServer, fileVars, clientVars
  <1>4. ASSUME NEW d \in Sessions, Kill(d) PROVE OneToken'
    BY <1>4 DEF Kill, fileVars, clientVars
  <1>5. CASE PortReleased
    BY <1>5 DEF PortReleased, fileVars, clientVars
  <1>6. CASE UNCHANGED vars
    BY <1>6 DEF vars, fileVars, clientVars
  <1>7. QED BY <1>1, <1>2, <1>3, <1>4, <1>5, <1>6 DEF Next

\* Contention is remembered.
LEMMA ContentionStays == [Next]_vars /\ contended => contended'
  BY DEF Next, DaemonStep, ClientStep, ReadToken, TruncateToken, WriteToken,
         Bind, LosePort, WriteStateFile, RemoveState, Open, Spawn, GiveUp,
         ReadClientToken, StopServer, Kill, PortReleased, vars

\* Whatever is stopped, killed or started in between, nobody presents a wrong
\* token or misses it unless two daemons contended for making it.
THEOREM TokensAreShared == Spec => []TokenSharedUnlessContended
  <1>1. Init => TypeOK /\ TokenInv
    BY StartupAssumption DEF Init, TypeOK, TokenInv, PortHeld, OneToken, Minting,
       Tokens, Phases, Live, Starting, Bound
  <1>2. TypeOK /\ TokenInv /\ [Next]_vars => TypeOK' /\ TokenInv'
    <2> SUFFICES ASSUME TypeOK, TokenInv, [Next]_vars PROVE TypeOK' /\ TokenInv'
      OBVIOUS
    <2>1. TypeOK' /\ PortHeld'
      BY TypeStep, PortStep DEF TokenInv
    <2>2. ASSUME ~contended' PROVE OneToken'
      BY <2>2, ContentionStays, OneTokenStep DEF TokenInv
    <2>3. QED BY <2>1, <2>2 DEF TokenInv
  <1>3. TypeOK /\ TokenInv => TokenSharedUnlessContended
    <2> SUFFICES ASSUME TypeOK, PortHeld, OneToken
                 PROVE  TokenAgrees /\ \A s \in Sessions : client[s] # "tokenless"
      BY DEF TokenInv, TokenSharedUnlessContended
    <2>1. TokenAgrees
      BY DEF TokenAgrees, Connected, PortHeld, OneToken
    <2>2. QED BY <2>1 DEF OneToken
  <1>4. QED BY <1>1, <1>2, <1>3, PTL DEF Spec

LEMMA RecordStep ==
    ASSUME TypeOK, RecordInv, [Next]_vars
    PROVE  RecordTrue'
  <1> USE StartupAssumption DEF TypeOK, RecordInv, RecordTrue, PortHeld, Bound, Goto
  <1>1. ASSUME NEW d \in Sessions, DaemonStep(d) PROVE RecordTrue'
    <2>1. CASE ReadToken(d)      BY <2>1 DEF ReadToken, fileVars
    <2>2. CASE TruncateToken(d)  BY <2>2 DEF TruncateToken
    <2>3. CASE WriteToken(d)     BY <2>3 DEF WriteToken
    <2>4. CASE Bind(d)           BY <2>4 DEF Bind, fileVars
    <2>5. CASE LosePort(d)       BY <2>5 DEF LosePort, Loser, fileVars
    <2>6. CASE WriteStateFile(d)
      <3>1. \A e \in Sessions : phase'[e] = "serving" => e = d
        BY <2>6 DEF WriteStateFile
      <3>2. QED BY <2>6, <3>1 DEF WriteStateFile
    <2>7. CASE RemoveState(d)    BY <2>7 DEF RemoveState
    <2>8. QED BY <1>1, <2>1, <2>2, <2>3, <2>4, <2>5, <2>6, <2>7 DEF DaemonStep
  <1>2. ASSUME NEW s \in Sessions, ClientStep(s) PROVE RecordTrue'
    BY <1>2 DEF ClientStep, Open, Spawn, GiveUp, ReadClientToken, fileVars
  <1>3. ASSUME NEW d \in Sessions, StopServer(d) PROVE RecordTrue'
    BY <1>3 DEF StopServer, fileVars
  <1>4. ASSUME NEW d \in Sessions, Kill(d) PROVE RecordTrue'
    BY <1>4 DEF Kill, Live, Starting, fileVars
  <1>5. CASE PortReleased
    BY <1>5 DEF PortReleased, fileVars
  <1>6. CASE UNCHANGED vars
    BY <1>6 DEF vars, fileVars
  <1>7. QED BY <1>1, <1>2, <1>3, <1>4, <1>5, <1>6 DEF Next

\* broker.json beside a serving daemon is that daemon's own, or was removed by
\* one that shut down.
THEOREM RecordsAreTrue == Spec => []RecordTrue
  <1>1. Init => TypeOK /\ RecordInv
    BY StartupAssumption DEF Init, TypeOK, RecordInv, RecordTrue, PortHeld,
       Tokens, Phases, Live, Starting, Bound
  <1>2. TypeOK /\ RecordInv /\ [Next]_vars => TypeOK' /\ RecordInv'
    BY TypeStep, PortStep, RecordStep DEF RecordInv
  <1>3. QED BY <1>1, <1>2, PTL DEF Spec, RecordInv
=============================================================================
