------------------------- MODULE ServerRoutesProofs -------------------------
(* Theorems about ServerRoutes, for any number of calls. *)
EXTENDS ServerRoutes, TLAPS

\* The state of the module is well typed in every behaviour.
Typed == TypeOK /\ WaitersHavePeers

\* Displacing the attempt of another authority (arbitrateConnectionAttempt) keeps the
\* manager well typed.
LEMMA ArbitrationIsTyped ==
  ASSUME Typed, NEW p \in Call, ConnectArbitrates(p)
  PROVE  /\ pc' \in [Call -> PC] /\ stage' \in [Call -> Stages]
         /\ status' = status
         /\ held' \in [Call -> BOOLEAN] /\ fenced' \in [Call -> BOOLEAN]
         /\ connectSlot' \in CallOrNone /\ reconnectSlot' \in CallOrNone
         /\ ctl' \in [Call -> BOOLEAN] /\ rctl' \in [Call -> BOOLEAN]
         /\ peer' \in [Call -> CallOrNone] /\ ret' \in [Call -> CallOrNone]
         /\ WaitersHavePeers'
<1> USE DEF Typed, TypeOK, WaitersHavePeers, Waiting, CallOrNone, PC, Stages, Building,
            Move, Await, Settle, StartBuild, ReturnNow, Abort, Released, ConnectArbitrates, Reusable
<1>1. CASE Reusable(connectSlot)
  BY <1>1
<1>2. CASE ~Reusable(connectSlot) /\ route # None /\ status[route] = "connected"
  <2>1. /\ pc' = [pc EXCEPT ![p] = "done"] /\ ret' = [ret EXCEPT ![p] = route]
        /\ ctl' = Abort(ctl, connectSlot) /\ connectSlot' = None
        /\ reconnectSlot' = Released(reconnectSlot, p)
        /\ UNCHANGED <<peer, stage, status, held, fenced, rctl>>
    BY <1>2
  <2>2. QED
    BY <1>2, <2>1
<1>3. CASE ~Reusable(connectSlot) /\ ~(route # None /\ status[route] = "connected") /\ Reusable(reconnectSlot)
  <2>1. reconnectSlot \in Call
    BY <1>3
  <2>2. /\ pc' = [pc EXCEPT ![p] = "joinReconnect"]
        /\ peer' = [peer EXCEPT ![p] = reconnectSlot]
        /\ connectSlot' = None /\ ctl' = Abort(ctl, connectSlot)
        /\ UNCHANGED <<reconnectSlot, rctl, stage, ret, status, held, fenced>>
    BY <1>3
  <2>3. QED
    BY <2>1, <2>2
<1>4. CASE ~Reusable(connectSlot) /\ ~(route # None /\ status[route] = "connected") /\ ~Reusable(reconnectSlot)
  <2>1. /\ pc' = [pc EXCEPT ![p] = "buildConnect"] /\ stage' = [stage EXCEPT ![p] = "handshake"]
        /\ held' = [held EXCEPT ![p] = TRUE] /\ fenced' = [fenced EXCEPT ![p] = FALSE]
        /\ connectSlot' = p /\ reconnectSlot' = None
        /\ ctl' = Abort(ctl, connectSlot) /\ rctl' = Abort(rctl, reconnectSlot)
        /\ UNCHANGED <<peer, ret, status>>
    BY <1>4
  <2>2. ctl' \in [Call -> BOOLEAN] /\ rctl' \in [Call -> BOOLEAN]
    BY <2>1
  <2>3. held' \in [Call -> BOOLEAN] /\ fenced' \in [Call -> BOOLEAN]
    BY <2>1
  <2>4. pc' \in [Call -> PC] /\ stage' \in [Call -> Stages] /\ WaitersHavePeers'
    BY <2>1
  <2>5. QED
    BY <2>1, <2>2, <2>3, <2>4
<1>5. QED
  BY <1>1, <1>2, <1>3, <1>4

\* The synchronous head of doReconnect(), which returns the current route, falls back to
\* connect() or builds a candidate, keeps the manager well typed.
LEMMA DoReconnectIsTyped ==
  ASSUME Typed, NEW p \in Call, NEW stale \in Call, DoReconnect(p, stale)
  PROVE  /\ pc' \in [Call -> PC] /\ stage' \in [Call -> Stages]
         /\ status' = status
         /\ held' \in [Call -> BOOLEAN] /\ fenced' \in [Call -> BOOLEAN]
         /\ connectSlot' \in CallOrNone /\ reconnectSlot' \in CallOrNone
         /\ ctl' \in [Call -> BOOLEAN] /\ rctl' \in [Call -> BOOLEAN]
         /\ peer' \in [Call -> CallOrNone] /\ ret' \in [Call -> CallOrNone]
         /\ WaitersHavePeers'
<1> USE DEF Typed, TypeOK, WaitersHavePeers, Waiting, CallOrNone, PC, Stages, Building,
            Move, Await, Settle, StartBuild, ReturnNow, Abort, DoReconnect
<1>1. ctl' \in [Call -> BOOLEAN] /\ rctl' \in [Call -> BOOLEAN]
  OBVIOUS
<1>2. status' = status /\ held' \in [Call -> BOOLEAN] /\ fenced' \in [Call -> BOOLEAN]
  BY ZenonT(30)
<1>3. connectSlot' \in CallOrNone /\ reconnectSlot' \in CallOrNone
  OBVIOUS
<1>4. stage' \in [Call -> Stages] /\ ret' \in [Call -> CallOrNone]
  OBVIOUS
<1>5. pc' \in [Call -> PC] /\ peer' \in [Call -> CallOrNone]
  OBVIOUS
<1>6. WaitersHavePeers'
  OBVIOUS
<1>7. QED
  BY <1>1, <1>2, <1>3, <1>4, <1>5, <1>6

\* The synchronous head of close() keeps the manager well typed.
LEMMA CloseIsTyped ==
  ASSUME Typed, NEW p \in Call, CloseBody(p)
  PROVE  /\ route' \in CallOrNone /\ closeSlot' \in CallOrNone
         /\ status' \in [Call -> {"none", "connected", "needs-auth", "closed"}]
         /\ pc' \in [Call -> PC] /\ target' \in [Call -> CallOrNone]
         /\ peer' \in [Call -> CallOrNone] /\ peerRun' \in [Call -> CallOrNone]
         /\ fenced' \in [Call -> BOOLEAN]
         /\ ctl' \in [Call -> BOOLEAN] /\ rctl' \in [Call -> BOOLEAN]
         /\ \A q \in Call : pc'[q] \in Waiting => pc[q] \in Waiting /\ peer'[q] = peer[q]
<1> USE DEF Typed, TypeOK, WaitersHavePeers, CallOrNone, PC, Building, Waiting, Move, Abort, FenceAttempts, CloseBody
<1>1. CASE route # None
  BY <1>1, SMTT(20)
<1>2. CASE route = None
  BY <1>2
<1>3. QED
  BY <1>1, <1>2

\* A new manager is well typed.
LEMMA TypeInit == Init => Typed
<1> SUFFICES ASSUME Init PROVE Typed
  OBVIOUS
<1> USE DEF Init, CallOrNone
<1>1. route \in CallOrNone /\ published \subseteq Call
  OBVIOUS
<1>2. connectSlot \in CallOrNone /\ reconnectSlot \in CallOrNone /\ closeSlot \in CallOrNone
  OBVIOUS
<1>3. stopped \in BOOLEAN /\ runtimeAborted \in BOOLEAN /\ revoking \in BOOLEAN
  OBVIOUS
<1>4. /\ status \in [Call -> {"none", "connected", "needs-auth", "closed"}]
        /\ held \in [Call -> BOOLEAN] /\ op \in [Call -> Operations \cup {"none"}]
  OBVIOUS
<1>5. pc \in [Call -> PC] /\ stage \in [Call -> Stages]
  BY DEF PC, Stages
<1>6. /\ target \in [Call -> CallOrNone] /\ peer \in [Call -> CallOrNone]
        /\ peerRun \in [Call -> CallOrNone] /\ ret \in [Call -> CallOrNone]
  OBVIOUS
<1>7. fenced \in [Call -> BOOLEAN] /\ authority \in [Call -> BOOLEAN]
  OBVIOUS
<1>8. ctl \in [Call -> BOOLEAN] /\ rctl \in [Call -> BOOLEAN] /\ sig \in [Call -> BOOLEAN]
  OBVIOUS
<1>9. QED
  BY <1>1, <1>2, <1>3, <1>4, <1>5, <1>6, <1>7, <1>8 DEF Typed, TypeOK, WaitersHavePeers, Waiting

\* Every step of every call keeps the manager well typed.
LEMMA TypeStep ==
  ASSUME Typed, [Next]_vars
  PROVE  Typed'
<1> USE DEF Typed, TypeOK, WaitersHavePeers, Waiting, CallOrNone, PC, Stages, Operations, Building, flags, aborts, frames, maps,
              Begin, Move, Await, Settle, StartBuild, ReturnNow, Abort, Released
<1>1. ASSUME NEW p \in Call, Connect(p) PROVE Typed'
  <2>1. CASE closeSlot # None
    BY <1>1, <2>1, OpsAreOperations DEF Connect
  <2>2. CASE closeSlot = None
    <3>1. ConnectArbitrates(p)
      BY <1>1, <2>2 DEF Connect
    <3>2. QED
      BY <1>1, <3>1, ArbitrationIsTyped, OpsAreOperations DEF Connect
  <2>3. QED
    BY <2>1, <2>2
<1>2. ASSUME NEW p \in Call, ConnectResumes(p) PROVE Typed'
  BY <1>2, ArbitrationIsTyped DEF ConnectResumes
<1>3. ASSUME NEW p \in Call, NEW stale \in Call, Reconnect(p, stale) PROVE Typed'
  <2> USE DEF Reconnect
  <2>1. CASE Reusable(connectSlot)
    BY <1>3, <2>1, OpsAreOperations DEF Reusable
  <2>2. CASE ~Reusable(connectSlot) /\ Reusable(reconnectSlot)
    <3>1. reconnectSlot \in Call
      BY <2>2 DEF Reusable
    <3>2. /\ pc' = [pc EXCEPT ![p] = "joinReconnect"]
          /\ peer' = [peer EXCEPT ![p] = reconnectSlot]
          /\ UNCHANGED <<reconnectSlot, rctl, stage, ret, status, held, fenced>>
      BY <1>3, <2>2
    <3>3. connectSlot' = None /\ ctl' = Abort(ctl, connectSlot)
      BY <1>3, <2>2
    <3>4. pc' \in [Call -> PC] /\ peer' \in [Call -> CallOrNone] /\ WaitersHavePeers'
      BY <3>1, <3>2
    <3>5. ctl' \in [Call -> BOOLEAN] /\ connectSlot' \in CallOrNone
      BY <3>3
    <3>6. op' \in [Call -> Operations \cup {"none"}] /\ target' \in [Call -> CallOrNone]
      BY <1>3, OpsAreOperations
    <3>7. authority' \in [Call -> BOOLEAN]
      BY <1>3
    <3>8. QED
      BY <1>3, <3>2, <3>4, <3>5, <3>6, <3>7
  <2>3. CASE ~Reusable(connectSlot) /\ ~Reusable(reconnectSlot)
    <3>1. DoReconnect(p, stale)
      BY <1>3, <2>3
    <3>2. op' \in [Call -> Operations \cup {"none"}] /\ target' \in [Call -> CallOrNone]
      BY <1>3, OpsAreOperations
    <3>3. authority' \in [Call -> BOOLEAN]
      BY <1>3
    <3>4. UNCHANGED <<flags, route, published, closeSlot, sig, peerRun>>
      BY <1>3
    <3>5. QED
      BY <3>1, <3>2, <3>3, <3>4, DoReconnectIsTyped
  <2>4. QED
    BY <2>1, <2>2, <2>3
<1>4. ASSUME NEW p \in Call, HandshakeDone(p) PROVE Typed'
  BY <1>4 DEF HandshakeDone
<1>5. ASSUME NEW p \in Call, DiscoveryDone(p) PROVE Typed'
  BY <1>5 DEF DiscoveryDone
<1>6. ASSUME NEW p \in Call, Challenged(p) PROVE Typed'
  BY <1>6 DEF Challenged
<1>7. ASSUME NEW p \in Call, BuildFails(p) PROVE Typed'
  BY <1>7 DEF BuildFails
<1>8. ASSUME NEW p \in Call, RemoteClose(p) PROVE Typed'
  BY <1>8 DEF RemoteClose
<1>9. ASSUME NEW p \in Call, ConnectPublishes(p) PROVE Typed'
  BY <1>9 DEF ConnectPublishes
<1>10. ASSUME NEW p \in Call, ReplacementPublishes(p) PROVE Typed'
  BY <1>10 DEF ReplacementPublishes
<1>11. ASSUME NEW p \in Call, CandidateDiscarded(p) PROVE Typed'
  BY <1>11 DEF CandidateDiscarded
<1>12. ASSUME NEW p \in Call, Discarded(p) PROVE Typed'
  BY <1>12 DEF Discarded
<1>13. ASSUME NEW p \in Call, StaleReaped(p) PROVE Typed'
  BY <1>13 DEF StaleReaped
<1>14. ASSUME NEW p \in Call, ConnectShared(p) PROVE Typed'
  BY <1>14 DEF ConnectShared
<1>15. ASSUME NEW p \in Call, ReconnectShared(p) PROVE Typed'
  BY <1>15 DEF ReconnectShared
<1>16. ASSUME NEW p \in Call, WaitThrows(p) PROVE Typed'
  BY <1>16 DEF WaitThrows
<1>17. ASSUME NEW p \in Call, Close(p) PROVE Typed'
  BY <1>17, CloseIsTyped, OpsAreOperations DEF Close, CloseBody
<1>18. ASSUME NEW p \in Call, Reaped(p) PROVE Typed'
  <2> USE <1>18 DEF Reaped
  <2>1. held' \in [Call -> BOOLEAN] /\ closeSlot' \in CallOrNone
    OBVIOUS
  <2>2. pc' \in [Call -> PC] /\ stage' \in [Call -> Stages] /\ WaitersHavePeers'
    OBVIOUS
  <2>3. QED
    BY <2>1, <2>2
<1>19. ASSUME NEW p \in Call, CloseReturns(p) PROVE Typed'
  BY <1>19 DEF CloseReturns
<1>20. ASSUME NEW p \in Call, CloseAll(p) PROVE Typed'
  BY <1>20, OpsAreOperations DEF CloseAll, FenceAttempts
<1>21. ASSUME NEW p \in Call, CloseAllCloses(p) PROVE Typed'
  <2>1. CASE CloseBody(p)
    BY <1>21, <2>1, CloseIsTyped DEF CloseAllCloses, CloseBody
  <2>2. CASE ~CloseBody(p)
    BY <1>21, <2>2 DEF CloseAllCloses
  <2>3. QED
    BY <2>1, <2>2
<1>22. ASSUME NEW p \in Call, AbortCaller(p) PROVE Typed'
  BY <1>22 DEF AbortCaller
<1>23. ASSUME StopRuntime \/ BeginRevocation \/ EndRevocation PROVE Typed'
  BY <1>23, ZenonT(30) DEF StopRuntime, BeginRevocation, EndRevocation
<1>24. ASSUME UNCHANGED vars PROVE Typed'
  BY <1>24 DEF vars
<1>25. QED
  BY <1>1, <1>2, <1>3, <1>4, <1>5, <1>6, <1>7, <1>8, <1>9, <1>10, <1>11, <1>12, <1>13, <1>14,
       <1>15, <1>16, <1>17, <1>18, <1>19, <1>20, <1>21, <1>22, <1>23, <1>24 DEF Next

-----------------------------------------------------------------------------
(* The inductive invariant *)

\* A new manager satisfies the inductive invariant.
LEMMA InvInit == Init => IInv
BY TypeInit DEF Init, Typed, IInv, Arbitration, Lifecycles, Intents, WaitersHavePeers, SlotsAreOwned,
   SlotsExclude, ConnectFindsNoRoute, BuildsArePrivate, DisplacedStayClosed, OpenClientsAreOwned,
   StopFences, ReplacementsWereAsked, Waiting, Building

\* Every step of every call preserves the inductive invariant.
LEMMA InvStep == ASSUME IInv, [Next]_vars PROVE IInv'
<1>1. Typed /\ Typed'
  BY TypeStep DEF IInv, Arbitration, Typed
<1> USE <1>1, NoneIsNoCall DEF Typed, TypeOK, CallOrNone, IInv, Arbitration, Lifecycles, Intents,
                 SlotsAreOwned, SlotsExclude, ConnectFindsNoRoute, BuildsArePrivate,
                 DisplacedStayClosed, OpenClientsAreOwned, StopFences, ReplacementsWereAsked,
                 Disposing, Waiting, Building, ConnectFenced, Move, Settle, Released,
                 maps, flags, frames, aborts
<1>2. ASSUME NEW p \in Call, Connect(p) PROVE IInv'
  <2> USE <1>2 DEF Connect, ConnectArbitrates, StartBuild, ReturnNow, Await, Abort, Reusable, Begin
  <2>1. Arbitration'
    OBVIOUS
  <2>2. Lifecycles'
    OBVIOUS
  <2>3. Intents'
    OBVIOUS
  <2>4. QED
    BY <2>1, <2>2, <2>3
<1>3. ASSUME NEW p \in Call, ConnectResumes(p) PROVE IInv'
  <2> USE <1>3 DEF ConnectResumes, ConnectArbitrates, StartBuild, ReturnNow, Await, Abort, Reusable
  <2>1. Arbitration'
    OBVIOUS
  <2>2. Lifecycles'
    OBVIOUS
  <2>3. Intents'
    <3>1. ~stopped /\ stopped' = stopped /\ runtimeAborted' = runtimeAborted
      BY DEF RequestAborted, Signalled
    <3>2. pc'[p] \notin {"drain", "buildReplacement"}
      OBVIOUS
    <3>3. QED
      BY <3>1, <3>2
  <2>4. QED
    BY <2>1, <2>2, <2>3
<1>4. ASSUME NEW p \in Call, NEW stale \in Call, Reconnect(p, stale) PROVE IInv'
  <2> USE <1>4 DEF Reconnect, DoReconnect, StartBuild, ReturnNow, Await, Abort, Reusable, Begin
  <2>1. Arbitration'
    OBVIOUS
  <2>2. Lifecycles'
    OBVIOUS
  <2>3. Intents'
    OBVIOUS
  <2>4. QED
    BY <2>1, <2>2, <2>3
<1>5. ASSUME NEW p \in Call, HandshakeDone(p) PROVE IInv'
  <2> USE <1>5 DEF HandshakeDone, AttemptAborted
  <2>1. Arbitration'
    OBVIOUS
  <2>2. Lifecycles'
    OBVIOUS
  <2>3. Intents'
    OBVIOUS
  <2>4. QED
    BY <2>1, <2>2, <2>3
<1>6. ASSUME NEW p \in Call, DiscoveryDone(p) PROVE IInv'
  <2> USE <1>6 DEF DiscoveryDone
  <2>1. Arbitration'
    OBVIOUS
  <2>2. Lifecycles'
    OBVIOUS
  <2>3. Intents'
    OBVIOUS
  <2>4. QED
    BY <2>1, <2>2, <2>3
<1>7. ASSUME NEW p \in Call, Challenged(p) PROVE IInv'
  <2> USE <1>7 DEF Challenged, AttemptAborted
  <2>1. Arbitration'
    OBVIOUS
  <2>2. Lifecycles'
    OBVIOUS
  <2>3. Intents'
    OBVIOUS
  <2>4. QED
    BY <2>1, <2>2, <2>3
<1>8. ASSUME NEW p \in Call, BuildFails(p) PROVE IInv'
  <2> USE <1>8 DEF BuildFails
  <2>1. Arbitration'
    OBVIOUS
  <2>2. Lifecycles'
    OBVIOUS
  <2>3. Intents'
    OBVIOUS
  <2>4. QED
    BY <2>1, <2>2, <2>3
<1>9. ASSUME NEW p \in Call, RemoteClose(p) PROVE IInv'
  <2> USE <1>9 DEF RemoteClose
  <2>1. Arbitration'
    OBVIOUS
  <2>2. Lifecycles'
    OBVIOUS
  <2>3. Intents'
    OBVIOUS
  <2>4. QED
    BY <2>1, <2>2, <2>3
<1>10. ASSUME NEW p \in Call, ConnectPublishes(p) PROVE IInv'
  <2> USE <1>10 DEF ConnectPublishes
  <2>1. Arbitration'
    OBVIOUS
  <2>2. Lifecycles'
    OBVIOUS
  <2>3. Intents'
    OBVIOUS
  <2>4. QED
    BY <2>1, <2>2, <2>3
<1>11. ASSUME NEW p \in Call, ReplacementPublishes(p) PROVE IInv'
  <2> USE <1>11 DEF ReplacementPublishes, ReplacementFenced, AttemptAborted, RequestAborted
  <2>1. Arbitration'
    OBVIOUS
  <2>2. Lifecycles'
    OBVIOUS
  <2>3. Intents'
    OBVIOUS
  <2>4. QED
    BY <2>1, <2>2, <2>3
<1>12. ASSUME NEW p \in Call, CandidateDiscarded(p) PROVE IInv'
  <2> USE <1>12 DEF CandidateDiscarded
  <2>1. Arbitration'
    OBVIOUS
  <2>2. Lifecycles'
    OBVIOUS
  <2>3. Intents'
    OBVIOUS
  <2>4. QED
    BY <2>1, <2>2, <2>3
<1>13. ASSUME NEW p \in Call, Discarded(p) PROVE IInv'
  <2> USE <1>13 DEF Discarded
  <2>1. Arbitration'
    OBVIOUS
  <2>2. Lifecycles'
    OBVIOUS
  <2>3. Intents'
    OBVIOUS
  <2>4. QED
    BY <2>1, <2>2, <2>3
<1>14. ASSUME NEW p \in Call, StaleReaped(p) PROVE IInv'
  <2> USE <1>14 DEF StaleReaped
  <2>1. Arbitration'
    OBVIOUS
  <2>2. Lifecycles'
    OBVIOUS
  <2>3. Intents'
    OBVIOUS
  <2>4. QED
    BY <2>1, <2>2, <2>3
<1>15. ASSUME NEW p \in Call, ConnectShared(p) PROVE IInv'
  <2> USE <1>15 DEF ConnectShared
  <2>1. Arbitration'
    OBVIOUS
  <2>2. Lifecycles'
    OBVIOUS
  <2>3. Intents'
    OBVIOUS
  <2>4. QED
    BY <2>1, <2>2, <2>3
<1>16. ASSUME NEW p \in Call, ReconnectShared(p) PROVE IInv'
  <2> USE <1>16 DEF ReconnectShared
  <2>1. Arbitration'
    OBVIOUS
  <2>2. Lifecycles'
    OBVIOUS
  <2>3. Intents'
    OBVIOUS
  <2>4. QED
    BY <2>1, <2>2, <2>3
<1>17. ASSUME NEW p \in Call, WaitThrows(p) PROVE IInv'
  <2> USE <1>17 DEF WaitThrows
  <2>1. Arbitration'
    OBVIOUS
  <2>2. Lifecycles'
    OBVIOUS
  <2>3. Intents'
    OBVIOUS
  <2>4. QED
    BY <2>1, <2>2, <2>3
<1>18. ASSUME NEW p \in Call, Close(p) PROVE IInv'
  <2> USE <1>18 DEF Close, CloseBody, FenceAttempts, Abort, Begin
  <2>1. Arbitration'
    OBVIOUS
  <2>2. Lifecycles'
    BY SMTT(20)
  <2>3. Intents'
    OBVIOUS
  <2>4. QED
    BY <2>1, <2>2, <2>3
<1>19. ASSUME NEW p \in Call, Reaped(p) PROVE IInv'
  <2> USE <1>19 DEF Reaped
  <2>1. Arbitration'
    OBVIOUS
  <2>2. Lifecycles'
    OBVIOUS
  <2>3. Intents'
    OBVIOUS
  <2>4. QED
    BY <2>1, <2>2, <2>3
<1>20. ASSUME NEW p \in Call, CloseReturns(p) PROVE IInv'
  <2> USE <1>20 DEF CloseReturns
  <2>1. Arbitration'
    OBVIOUS
  <2>2. Lifecycles'
    OBVIOUS
  <2>3. Intents'
    OBVIOUS
  <2>4. QED
    BY <2>1, <2>2, <2>3
<1>21. ASSUME NEW p \in Call, CloseAll(p) PROVE IInv'
  <2> USE <1>21 DEF CloseAll, FenceAttempts, Abort, Begin
  <2>1. Arbitration'
    OBVIOUS
  <2>2. Lifecycles'
    OBVIOUS
  <2>3. Intents'
    <3>1. stopped' /\ runtimeAborted'
      OBVIOUS
    <3>2. /\ op' = [op EXCEPT ![p] = "closeAll"] /\ pc' = [pc EXCEPT ![p] = "drain"]
          /\ UNCHANGED <<route, published>>
      OBVIOUS
    <3>3. ASSUME NEW q \in Call, pc'[q] \in Building PROVE fenced'[q]
      <4>1. pc[q] \in Building
        BY <3>2, <3>3
      <4>2. fenced' = [r \in Call |-> fenced[r] \/ pc[r] \in Building \cup {"replace"}]
        OBVIOUS
      <4>3. fenced'[q] = (fenced[q] \/ pc[q] \in Building \cup {"replace"})
        BY <4>2
      <4>4. QED
        BY <4>1, <4>3
    <3>4. StopFences'
      <4>1. \A q \in Call : pc'[q] = "drain" => op'[q] = "closeAll"
        BY <3>2
      <4>2. \A q \in Call : op'[q] = "closeAll" =>
              pc'[q] = "drain" \/ (pc'[q] \in {"reap", "joinClose", "waitAttempts", "done"} /\ route' = None)
        BY <3>2
      <4>3. QED
        BY <3>1, <3>3, <4>1, <4>2
    <3>5. ReplacementsWereAsked'
      OBVIOUS
    <3>6. QED
      BY <3>4, <3>5
  <2>4. QED
    BY <2>1, <2>2, <2>3
<1>22. ASSUME NEW p \in Call, CloseAllCloses(p) PROVE IInv'
  <2> USE <1>22 DEF CloseAllCloses, CloseBody, FenceAttempts, Abort
  <2>1. Arbitration'
    OBVIOUS
  <2>2. Lifecycles'
    OBVIOUS
  <2>3. Intents'
    OBVIOUS
  <2>4. QED
    BY <2>1, <2>2, <2>3
<1>23. ASSUME NEW p \in Call, AbortCaller(p) PROVE IInv'
  <2> USE <1>23 DEF AbortCaller
  <2>1. Arbitration'
    OBVIOUS
  <2>2. Lifecycles'
    OBVIOUS
  <2>3. Intents'
    OBVIOUS
  <2>4. QED
    BY <2>1, <2>2, <2>3
<1>24. ASSUME StopRuntime \/ BeginRevocation \/ EndRevocation \/ UNCHANGED vars PROVE IInv'
  BY <1>24 DEF StopRuntime, BeginRevocation, EndRevocation, vars
<1>25. QED
  BY <1>2, <1>3, <1>4, <1>5, <1>6, <1>7, <1>8, <1>9, <1>10, <1>11, <1>12, <1>13, <1>14, <1>15, <1>16, <1>17, <1>18, <1>19, <1>20, <1>21, <1>22, <1>23, <1>24 DEF Next

\* The inductive invariant, from which the theorems below follow.
THEOREM Invariance == Spec => []IInv
<1>1. Init => IInv
  BY InvInit
<1>2. IInv /\ [Next]_vars => IInv'
  BY InvStep
<1>3. QED
  BY <1>1, <1>2, PTL DEF Spec

\* The state of the manager is well typed in every behaviour.
THEOREM TypeCorrect == Spec => []TypeOK
<1>1. IInv => TypeOK
  BY DEF IInv
<1>2. QED
  BY <1>1, Invariance, PTL

\* No interleaving of connect(), reconnect(), close(), aborts and server deaths
\* loses an open client.
THEOREM NoClientIsLost == Spec => []OpenClientsAreOwned
<1>1. IInv => OpenClientsAreOwned
  BY DEF IInv, Lifecycles
<1>2. QED
  BY <1>1, Invariance, PTL

\* A stale disposal never closes the client of the route that calls are sent to.
THEOREM RouteStaysOpen == Spec => []ConnectedRouteIsOpen
<1>1. IInv => ConnectedRouteIsOpen
  BY NoneIsNoCall DEF IInv, Lifecycles, BuildsArePrivate, ConnectedRouteIsOpen, TypeOK, CallOrNone
<1>2. QED
  BY <1>1, Invariance, PTL

\* connect() and reconnect() never have two attempts alive.
THEOREM AttemptsExclude == Spec => []OneLiveAttempt
<1>1. IInv => OneLiveAttempt
  BY NoneIsNoCall DEF IInv, Arbitration, SlotsAreOwned, SlotsExclude, OneLiveAttempt, Alive, Building,
     AttemptAborted, RequestAborted, TypeOK, CallOrNone
<1>2. QED
  BY <1>1, Invariance, PTL

\* closeAll() leaves nothing that could come back.
THEOREM ShutdownHolds == Spec => []ShutdownIsFinal
<1>1. IInv => ShutdownIsFinal
  BY NoneIsNoCall DEF IInv, Intents, StopFences, Lifecycles, OpenClientsAreOwned, ShutdownIsFinal, Alive,
     Building, TypeOK, CallOrNone
<1>2. QED
  BY <1>1, Invariance, PTL

-----------------------------------------------------------------------------
(* ServerRoutes implements RouteTable *)

Usable   == {c \in published : status[c] = "connected"}
Suspects == {c \in published : \E p \in Call : op[p] = "reconnect" /\ target[p] = c}

\* A new manager maps to an empty route table.
LEMMA RefinementInit == Init => Contract!Init
BY DEF Init, Contract!Init

\* Every step of the manager is a step of the route table it maps to, or leaves it as it is.
LEMMA RefinementStep ==
  ASSUME IInv, IInv', [Next]_vars
  PROVE  [Contract!Next]_(Contract!rtVars)
<1> USE NoneIsNoCall DEF IInv, TypeOK, CallOrNone, Contract!rtVars, Contract!Next, Contract!Admit,
        Contract!Publish, Contract!Replace, Contract!Suspect, Contract!Expire, Contract!Close, Contract!End,
        Lifecycles, BuildsArePrivate, Intents, ReplacementsWereAsked, Building, Waiting, Move, Settle,
        maps, flags, frames, aborts
<1>1. ASSUME NEW p \in Call, Connect(p) PROVE [Contract!Next]_(Contract!rtVars)
  BY <1>1 DEF Connect, ConnectArbitrates, StartBuild, ReturnNow, Await, Abort, Reusable, Released, Begin
<1>2. ASSUME NEW p \in Call, ConnectResumes(p) PROVE [Contract!Next]_(Contract!rtVars)
  BY <1>2 DEF ConnectResumes, ConnectArbitrates, StartBuild, ReturnNow, Await, Abort, Reusable, Released
<1>3. ASSUME NEW p \in Call, NEW stale \in Call, Reconnect(p, stale) PROVE [Contract!Next]_(Contract!rtVars)
  BY <1>3 DEF Reconnect, DoReconnect, StartBuild, ReturnNow, Await, Abort, Reusable, Begin
<1>4. ASSUME NEW p \in Call, HandshakeDone(p) PROVE [Contract!Next]_(Contract!rtVars)
  BY <1>4 DEF HandshakeDone, AttemptAborted
<1>5. ASSUME NEW p \in Call, DiscoveryDone(p) PROVE [Contract!Next]_(Contract!rtVars)
  BY <1>5 DEF DiscoveryDone
<1>6. ASSUME NEW p \in Call, Challenged(p) PROVE [Contract!Next]_(Contract!rtVars)
  BY <1>6 DEF Challenged, AttemptAborted
<1>7. ASSUME NEW p \in Call, BuildFails(p) PROVE [Contract!Next]_(Contract!rtVars)
  BY <1>7 DEF BuildFails, Released
<1>8. ASSUME NEW p \in Call, RemoteClose(p) PROVE [Contract!Next]_(Contract!rtVars)
  BY <1>8 DEF RemoteClose
<1>9. ASSUME NEW p \in Call, ConnectPublishes(p) PROVE [Contract!Next]_(Contract!rtVars)
  <2> USE <1>9 DEF ConnectPublishes
  <2>1. p \notin published /\ route' = p /\ published' = published \cup {p}
    OBVIOUS
  <2>2. ~stopped /\ stopped' = stopped
    BY DEF StopFences, ConnectFenced
  <2>3. route \notin Usable
    BY DEF Arbitration, ConnectFindsNoRoute, Usable
  <2>4. Usable' \in {Usable, Usable \cup {p}}
    <3>1. CASE status[p] = "connected"
      BY <3>1 DEF Usable
    <3>2. CASE status[p] # "connected"
      BY <3>2 DEF Usable
    <3>3. QED
      BY <3>1, <3>2
  <2>5. Suspects' = Suspects
    BY DEF Suspects
  <2>6. Contract!Publish(p)
    BY ONLY <2>1, <2>2, <2>3, <2>4, <2>5 DEF Contract!Publish, Contract!Admit, Usable, Suspects
  <2>7. QED
    BY <2>6
<1>10. ASSUME NEW p \in Call, ReplacementPublishes(p) PROVE [Contract!Next]_(Contract!rtVars)
  <2> USE <1>10 DEF ReplacementPublishes, ReplacementFenced
  <2>1. p \notin published /\ route' = p /\ published' = published \cup {p}
    OBVIOUS
  <2>2. ~stopped /\ stopped' = stopped
    BY DEF StopFences
  <2>3. route = target[p] /\ route \in published /\ route # p
    OBVIOUS
  <2>4. route \in Suspects
    BY <2>3 DEF Suspects
  <2>5. Usable' \in {Usable \ {route}, (Usable \ {route}) \cup {p}}
    <3>1. CASE status[p] = "connected"
      BY <2>3, <3>1 DEF Usable
    <3>2. CASE status[p] # "connected"
      BY <2>3, <3>2 DEF Usable
    <3>3. QED
      BY <3>1, <3>2
  <2>6. Suspects' = Suspects
    BY DEF Suspects
  <2>7. Contract!Replace(p)
    BY ONLY <2>1, <2>2, <2>4, <2>5, <2>6 DEF Contract!Replace, Contract!Admit, Usable, Suspects
  <2>8. QED
    BY <2>7
<1>11. ASSUME NEW p \in Call, CandidateDiscarded(p) PROVE [Contract!Next]_(Contract!rtVars)
  BY <1>11 DEF CandidateDiscarded
<1>12. ASSUME NEW p \in Call, Discarded(p) PROVE [Contract!Next]_(Contract!rtVars)
  BY <1>12 DEF Discarded, Released
<1>13. ASSUME NEW p \in Call, StaleReaped(p) PROVE [Contract!Next]_(Contract!rtVars)
  BY <1>13 DEF StaleReaped, Released
<1>14. ASSUME NEW p \in Call, ConnectShared(p) PROVE [Contract!Next]_(Contract!rtVars)
  BY <1>14 DEF ConnectShared, Released
<1>15. ASSUME NEW p \in Call, ReconnectShared(p) PROVE [Contract!Next]_(Contract!rtVars)
  BY <1>15 DEF ReconnectShared, Released
<1>16. ASSUME NEW p \in Call, WaitThrows(p) PROVE [Contract!Next]_(Contract!rtVars)
  BY <1>16 DEF WaitThrows, Released
<1>17. ASSUME NEW p \in Call, Close(p) PROVE [Contract!Next]_(Contract!rtVars)
  BY <1>17 DEF Close, CloseBody, FenceAttempts, Abort, Begin
<1>18. ASSUME NEW p \in Call, Reaped(p) PROVE [Contract!Next]_(Contract!rtVars)
  BY <1>18 DEF Reaped, Released
<1>19. ASSUME NEW p \in Call, CloseReturns(p) PROVE [Contract!Next]_(Contract!rtVars)
  BY <1>19 DEF CloseReturns
<1>20. ASSUME NEW p \in Call, CloseAll(p) PROVE [Contract!Next]_(Contract!rtVars)
  <2> USE <1>20 DEF CloseAll, Begin
  <2>1. stopped' = TRUE /\ UNCHANGED <<route, published, status>>
    OBVIOUS
  <2>2. Usable' = Usable
    BY <2>1 DEF Usable
  <2>3. op' = [op EXCEPT ![p] = "closeAll"] /\ target' = [target EXCEPT ![p] = route] /\ op[p] = "none"
    OBVIOUS
  <2>4. Suspects' = Suspects
    BY <2>1, <2>3 DEF Suspects
  <2>5. Contract!End
    BY ONLY <2>1, <2>2, <2>4 DEF Contract!End, Usable, Suspects
  <2>6. QED
    BY <2>5
<1>21. ASSUME NEW p \in Call, CloseAllCloses(p) PROVE [Contract!Next]_(Contract!rtVars)
  <2> USE <1>21 DEF CloseAllCloses
  <2>1. UNCHANGED <<stopped, published, op>> /\ op[p] = "closeAll"
    BY DEF CloseBody, StopFences
  <2>2. target' = target \/ target' = [target EXCEPT ![p] = route]
    BY DEF CloseBody
  <2>3. Suspects' = Suspects
    BY <2>1, <2>2 DEF Suspects
  <2>4. CASE CloseBody(p) /\ route # None
    <3>1. route' = None /\ status' = [status EXCEPT ![route] = "closed"]
      BY <2>4 DEF CloseBody
    <3>2. Usable' = Usable \ {route}
      BY <2>1, <3>1 DEF Usable
    <3>3. Contract!Close
      BY ONLY <2>1, <2>3, <2>4, <3>1, <3>2 DEF Contract!Close, Usable, Suspects
    <3>4. QED
      BY <3>3
  <2>5. CASE ~(CloseBody(p) /\ route # None)
    <3>1. UNCHANGED <<route, status>>
      BY <2>5 DEF CloseBody
    <3>2. Usable' = Usable
      BY <2>1, <3>1 DEF Usable
    <3>3. QED
      BY ONLY <2>1, <2>3, <3>1, <3>2 DEF Contract!rtVars, Usable, Suspects
  <2>6. QED
    BY <2>4, <2>5
<1>22. ASSUME NEW p \in Call, AbortCaller(p) PROVE [Contract!Next]_(Contract!rtVars)
  BY <1>22 DEF AbortCaller
<1>23. ASSUME StopRuntime \/ BeginRevocation \/ EndRevocation \/ UNCHANGED vars PROVE [Contract!Next]_(Contract!rtVars)
  BY <1>23 DEF StopRuntime, BeginRevocation, EndRevocation, vars
<1>24. QED
  BY <1>1, <1>2, <1>3, <1>4, <1>5, <1>6, <1>7, <1>8, <1>9, <1>10, <1>11, <1>12, <1>13, <1>14, <1>15, <1>16, <1>17, <1>18, <1>19, <1>20, <1>21, <1>22, <1>23 DEF Next

\* Every behaviour of the manager is one of the route table callers are promised.
THEOREM Refinement == Spec => RoutesAsPromised
<1>1. IInv /\ IInv' /\ [Next]_vars => [Contract!Next]_(Contract!rtVars)
  BY RefinementStep
<1>2. QED
  BY <1>1, RefinementInit, Invariance, PTL DEF Spec, RoutesAsPromised, Contract!Spec
=============================================================================
