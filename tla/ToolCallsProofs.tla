--------------------------- MODULE ToolCallsProofs ---------------------------
(* Theorems about ToolCalls, for any finite number of calls and any number of connections; and *)
(* about ProxyCalls, for any finite set of servers and any number of calls.                    *)
EXTENDS MCToolCalls, FiniteSetTheorems, TLAPS

\* The manager and the counts are well typed.
ManagerTyped ==
  /\ route \in Maybe /\ attempt \in Maybe
  /\ status \in [Conn -> Statuses] /\ expired \in [Conn -> BOOLEAN]
  /\ target \in [Conn -> Maybe]
  /\ owner \in [Conn -> Call \cup {None}] /\ origin \in [Conn -> Maybe]

CountsTyped ==
  /\ count \in [Conn -> Nat] /\ holds \in [Call -> BOOLEAN] /\ home \in [Call -> Maybe]
  /\ strayed \subseteq Maybe /\ quiet \in BOOLEAN

FrameTyped == pc \in [Call -> PC] /\ at \in [Call -> Maybe] /\ why \in [Call -> Reasons]

\* close() keeps the manager well typed.
LEMMA CloseTyped ==
  ASSUME TypeOK, CloseByName
  PROVE  ManagerTyped'
BY DEF TypeOK, ManagerTyped, CloseByName, Maybe, Statuses

\* Sharing or starting an attempt keeps the manager and the frames well typed.
LEMMA JoinTyped ==
  ASSUME TypeOK, NEW p \in Call, NEW where \in PC, NEW k \in Maybe, Join(p, where, k),
         UNCHANGED <<route, expired, origin>>
  PROVE  ManagerTyped' /\ pc' \in [Call -> PC] /\ at' \in [Call -> Maybe]
BY DEF TypeOK, ManagerTyped, Join, Wait, Goto, Maybe, Statuses

\* Counting keeps the counts well typed.
LEMMA RaiseTyped ==
  ASSUME TypeOK, NEW p \in Call, Raise(p)
  PROVE  CountsTyped'
BY DEF TypeOK, CountsTyped, Raise, Lineage, Maybe

\* So does giving the count back.
LEMMA LowerTyped ==
  ASSUME TypeOK, NEW p \in Call, Lower(p)
  PROVE  CountsTyped'
BY DEF TypeOK, CountsTyped, Lower, Lineage, Maybe

\* The catch block of a call keeps everything it touches well typed.
LEMMA FailTyped ==
  ASSUME TypeOK, NEW p \in Call, NEW reason \in Reasons, Fail(p, reason)
  PROVE  ManagerTyped' /\ CountsTyped' /\ pc' \in [Call -> PC] /\ why' \in [Call -> Reasons]
<1>1. why' \in [Call -> Reasons] /\ pc' \in [Call -> PC]
  BY DEF TypeOK, Fail, Goto, Leave, PC, Resting
<1>2. CASE p \in Direct /\ ~aborted[p]
  BY <1>1, <1>2, CloseTyped DEF Fail, TypeOK, CountsTyped, counts
<1>3. CASE ~(p \in Direct /\ ~aborted[p])
  BY <1>1, <1>3, LowerTyped DEF Fail, Leave, TypeOK, ManagerTyped, manager
<1>4. QED
  BY <1>2, <1>3

\* So does what follows a recovery.
LEMMA RetryTyped ==
  ASSUME TypeOK, NEW p \in Call, NEW k \in Maybe, Retry(p, k)
  PROVE  ManagerTyped' /\ CountsTyped' /\ FrameTyped'
<1>1. CASE Wait(p, "resent", k) /\ UNCHANGED <<manager, counts, quiet, why>>
  BY <1>1 DEF TypeOK, Wait, Goto, PC, InFlight, ManagerTyped, CountsTyped, FrameTyped, manager, counts
<1>2. CASE Leave(p) /\ UNCHANGED <<manager, at, why>>
  BY <1>2, LowerTyped DEF TypeOK, Leave, Goto, PC, Resting, ManagerTyped, FrameTyped, manager
<1>3. CASE Fail(p, "refused") /\ UNCHANGED at
  BY <1>3, FailTyped DEF TypeOK, Reasons, FrameTyped
<1>4. QED
  BY <1>1, <1>2, <1>3 DEF Retry

\* So does reaching the server.
LEMMA SeekTyped ==
  ASSUME TypeOK, NEW p \in Call, NEW waits \in BOOLEAN, Seek(p, waits),
         UNCHANGED <<route, expired, origin>>
  PROVE  ManagerTyped' /\ CountsTyped' /\ pc' \in [Call -> PC] /\ at' \in [Call -> Maybe]
<1>1. CASE Connected(route) /\ p \in Direct
  BY <1>1 DEF TypeOK, Seek, Connected, NeedsAuth, Wait, Goto, PC, ManagerTyped, CountsTyped, counts, Resting
<1>2. CASE Connected(route) /\ p \notin Direct
  <2>1. Raise(p) /\ Wait(p, "approval", route) /\ UNCHANGED <<status, target, owner, attempt>>
    BY <1>2 DEF Seek, Connected, NeedsAuth
  <2>2. QED
    BY <2>1, RaiseTyped DEF TypeOK, Wait, Goto, PC, Resting, ManagerTyped
<1>3. CASE ~Connected(route) /\ (NeedsAuth(route) \/ waits)
  BY <1>3 DEF TypeOK, Seek, Goto, PC, Resting, ManagerTyped, CountsTyped, counts
<1>4. CASE ~Connected(route) /\ ~NeedsAuth(route) /\ ~waits
  BY <1>4, JoinTyped DEF TypeOK, Seek, PC, CountsTyped, counts, Maybe
<1>5. QED
  BY <1>1, <1>2, <1>3, <1>4

\* So does asking for a replacement.
LEMMA RecoverTyped ==
  ASSUME TypeOK, NEW p \in Call, Recover(p), UNCHANGED <<route, expired, origin>>
  PROVE  ManagerTyped' /\ pc' \in [Call -> PC] /\ at' \in [Call -> Maybe]
<1>1. CASE Join(p, "recover", route)
  BY <1>1, JoinTyped DEF TypeOK, PC
<1>2. CASE ~Join(p, "recover", route)
  BY <1>2 DEF TypeOK, Recover, Wait, Goto, PC, Maybe, ManagerTyped
<1>3. QED
  BY <1>1, <1>2

\* TypeOK is the conjunction of the parts the helpers keep and of the clocks.
LEMMA TypedParts ==
  TypeOK' <=> /\ ManagerTyped' /\ CountsTyped' /\ FrameTyped'
              /\ backoff' \in BOOLEAN /\ authTried' \in [Call -> BOOLEAN]
              /\ aborted' \in [Call -> BOOLEAN] /\ ran' \in [Call -> Nat]
BY DEF TypeOK, ManagerTyped, CountsTyped, FrameTyped

\* Every step keeps the types.
LEMMA StepTyped ==
  TypeOK /\ [Next]_vars => TypeOK'
<1> SUFFICES ASSUME TypeOK, [Next]_vars PROVE TypeOK'
  OBVIOUS
<1> USE DEF Maybe
<1>1. CASE UNCHANGED vars
  BY <1>1 DEF TypeOK, vars, manager, counts, clocks, frames
<1>2. ASSUME NEW p \in Call, Start(p) PROVE TypeOK'
  <2>1. backoff \in BOOLEAN /\ Seek(p, backoff) /\ UNCHANGED <<route, expired, origin>>
    BY <1>2 DEF TypeOK, Start
  <2>2. QED
    BY <1>2, <2>1, SeekTyped, TypedParts DEF TypeOK, Start, FrameTyped
<1>3. ASSUME NEW p \in Call, ConnectReturns(p) PROVE TypeOK'
  BY <1>3, TypedParts, RaiseTyped DEF TypeOK, ManagerTyped, CountsTyped, FrameTyped, manager, counts, clocks, frames,
     PC, Resting, ConnectReturns, Goto
<1>4. ASSUME NEW p \in Call, ListenReturns(p) PROVE TypeOK'
  BY <1>4, TypedParts, RaiseTyped DEF TypeOK, ManagerTyped, CountsTyped, FrameTyped, manager, counts, clocks, frames,
     PC, Resting, ListenReturns, Goto
<1>5. ASSUME NEW p \in Call, AuthReturns(p) PROVE TypeOK'
  BY <1>5, TypedParts, CloseTyped DEF TypeOK, ManagerTyped, CountsTyped, FrameTyped, manager, counts, clocks, frames,
     PC, Resting, AuthReturns, Goto
<1>6. ASSUME NEW p \in Call, AuthClosed(p) PROVE TypeOK'
  <2>1. /\ backoff' \in BOOLEAN
        /\ UNCHANGED <<route, expired, origin, authTried, aborted, why, ran>>
    BY <1>6 DEF AuthClosed, TypeOK
  <2>2. CASE Seek(p, FALSE)
    BY <2>1, <2>2, SeekTyped, TypedParts DEF TypeOK, FrameTyped
  <2>3. CASE Join(p, "connect", None) /\ UNCHANGED <<counts, quiet>>
    BY <2>1, <2>3, JoinTyped, TypedParts DEF TypeOK, FrameTyped, CountsTyped, counts, PC
  <2>4. QED
    BY <1>6, <2>2, <2>3 DEF AuthClosed
<1>7. ASSUME NEW p \in Call, FailingReturns(p) PROVE TypeOK'
  BY <1>7, TypedParts, LowerTyped DEF TypeOK, ManagerTyped, CountsTyped, FrameTyped, manager, counts, clocks, frames,
     PC, Resting, FailingReturns, Leave, Goto
<1>8. ASSUME NEW p \in Call, RecoverReturns(p) PROVE TypeOK'
  <2>1. UNCHANGED <<backoff, authTried, aborted, ran>> /\ at[p] \in Maybe /\ route \in Maybe
    BY <1>8 DEF RecoverReturns, TypeOK
  <2>2. CASE Fail(p, "lost") /\ UNCHANGED at
    BY <2>1, <2>2, FailTyped, TypedParts DEF TypeOK, FrameTyped, Reasons
  <2>3. ASSUME NEW k \in Maybe, Retry(p, k) PROVE TypeOK'
    BY <2>1, <2>3, RetryTyped, TypedParts DEF TypeOK
  <2>4. CASE Goto(p, "reauth") /\ UNCHANGED <<manager, counts, quiet, at, why>>
    BY <2>1, <2>4, TypedParts DEF TypeOK, ManagerTyped, CountsTyped, FrameTyped, Goto, PC, manager, counts
  <2>5. QED
    BY <1>8, <2>1, <2>2, <2>3, <2>4 DEF RecoverReturns
<1>9. ASSUME NEW p \in Call, ReauthReturns(p) PROVE TypeOK'
  <2>1. /\ authTried' \in [Call -> BOOLEAN] /\ UNCHANGED <<aborted, ran>> /\ route \in Maybe
    BY <1>9 DEF ReauthReturns, TypeOK
  <2>2. CASE Leave(p) /\ UNCHANGED <<manager, backoff, at, why>>
    BY <2>1, <2>2, LowerTyped, TypedParts DEF TypeOK, ManagerTyped, FrameTyped, Leave, Goto, PC, Resting, manager
  <2>3. CASE Retry(p, route) /\ UNCHANGED backoff
    BY <2>1, <2>3, RetryTyped, TypedParts DEF TypeOK
  <2>4. CASE CloseByName /\ Goto(p, "reauthClosed") /\ UNCHANGED <<counts, clocks, at, why>>
    BY <2>1, <2>4, CloseTyped, TypedParts DEF TypeOK, CountsTyped, FrameTyped, Goto, PC, counts, clocks
  <2>5. CASE /\ backoff' = FALSE /\ Join(p, "relazy", None)
             /\ UNCHANGED <<route, expired, origin, counts, quiet, why>>
    BY <2>1, <2>5, JoinTyped, TypedParts DEF TypeOK, CountsTyped, FrameTyped, PC, counts
  <2>6. QED
    BY <1>9, <2>2, <2>3, <2>4, <2>5 DEF ReauthReturns
<1>10. ASSUME NEW p \in Call, ReauthClosed(p) PROVE TypeOK'
  <2>1. backoff' = FALSE /\ UNCHANGED <<route, expired, origin, authTried, aborted, why, ran>>
    BY <1>10 DEF ReauthClosed
  <2>2. CASE Wait(p, "relazy", route) /\ UNCHANGED <<status, target, owner, attempt, counts, quiet>>
    BY <2>1, <2>2, TypedParts DEF TypeOK, ManagerTyped, CountsTyped, FrameTyped, Wait, Goto, PC, counts
  <2>3. CASE Leave(p) /\ UNCHANGED <<status, target, owner, attempt, at>>
    BY <2>1, <2>3, LowerTyped, TypedParts DEF TypeOK, ManagerTyped, FrameTyped, Leave, Goto, PC, Resting
  <2>4. CASE Join(p, "relazy", None) /\ UNCHANGED <<counts, quiet>>
    BY <2>1, <2>4, JoinTyped, TypedParts DEF TypeOK, CountsTyped, FrameTyped, PC, counts
  <2>5. QED
    BY <1>10, <2>2, <2>3, <2>4 DEF ReauthClosed
<1>11. ASSUME NEW p \in Call, RelazyReturns(p) PROVE TypeOK'
  <2>1. UNCHANGED <<authTried, aborted, ran>> /\ at[p] \in Maybe /\ route \in Maybe
    BY <1>11 DEF RelazyReturns, TypeOK
  <2>2. CASE /\ backoff' = (backoff \/ p \in Direct)
             /\ Leave(p) /\ UNCHANGED <<manager, at, why>>
    BY <2>1, <2>2, LowerTyped, TypedParts DEF TypeOK, ManagerTyped, FrameTyped, Leave, Goto, PC, Resting, manager
  <2>3. ASSUME NEW k \in Maybe, Retry(p, k), UNCHANGED backoff PROVE TypeOK'
    BY <2>1, <2>3, RetryTyped, TypedParts DEF TypeOK
  <2>4. QED
    BY <1>11, <2>1, <2>2, <2>3 DEF RelazyReturns
<1>12. ASSUME NEW p \in Call, AbortThrows(p) PROVE TypeOK'
  BY <1>12, TypedParts, LowerTyped DEF TypeOK, ManagerTyped, CountsTyped, FrameTyped, manager, counts, clocks, frames,
     PC, Resting, AbortThrows, Leave, Goto, Ran, InFlight
<1>13. ASSUME NEW p \in Call, Answered(p) PROVE TypeOK'
  BY <1>13, TypedParts, LowerTyped DEF TypeOK, ManagerTyped, CountsTyped, FrameTyped, manager, counts, clocks, frames,
     PC, Resting, Answered, Leave, Goto, Ran
<1>14. ASSUME NEW p \in Call, BecomesTask(p) PROVE TypeOK'
  BY <1>14, TypedParts DEF TypeOK, ManagerTyped, CountsTyped, FrameTyped, manager, counts, clocks, frames,
     PC, Resting, BecomesTask, Goto, Ran
<1>15. ASSUME NEW p \in Call, Paused(p) PROVE TypeOK'
  BY <1>15, TypedParts DEF TypeOK, ManagerTyped, CountsTyped, FrameTyped, manager, counts, clocks, frames,
     PC, Resting, Paused, Goto, Ran
<1>16. ASSUME NEW p \in Call, RequestFails(p) PROVE TypeOK'
  <2>1. ran' \in [Call -> Nat]
    BY <1>16 DEF RequestFails, TypeOK, Ran
  <2>2. QED
    BY <1>16, <2>1, FailTyped, TypedParts DEF RequestFails, TypeOK, FrameTyped, Reasons
<1>17. ASSUME NEW p \in Call, Refused(p) PROVE TypeOK'
  BY <1>17, TypedParts, RecoverTyped DEF TypeOK, ManagerTyped, CountsTyped, FrameTyped, manager, counts, clocks, frames,
     PC, Resting, Refused
<1>18. ASSUME NEW p \in Call, RefusedAgain(p) PROVE TypeOK'
  BY <1>18, TypedParts, FailTyped DEF TypeOK, ManagerTyped, CountsTyped, FrameTyped, manager, counts, clocks, frames,
     PC, Resting, RefusedAgain, Reasons
<1>19. ASSUME NEW p \in Call, Approve(p) PROVE TypeOK'
  <2>1. CASE Fail(p, "lost") /\ UNCHANGED at
    BY <1>19, <2>1, FailTyped, TypedParts DEF Approve, TypeOK, FrameTyped, Reasons
  <2>2. CASE Wait(p, "sent", route) /\ UNCHANGED <<manager, counts, quiet, why>>
    BY <1>19, <2>2, TypedParts DEF Approve, TypeOK, ManagerTyped, CountsTyped, FrameTyped, Wait, Goto, PC,
       InFlight, manager, counts
  <2>3. QED
    BY <1>19, <2>1, <2>2 DEF Approve
<1>20. ASSUME NEW p \in Call, Refuse(p) PROVE TypeOK'
  BY <1>20, TypedParts, LowerTyped DEF TypeOK, ManagerTyped, CountsTyped, FrameTyped, manager, counts, clocks, frames,
     PC, Resting, Refuse, Leave, Goto
<1>21. ASSUME NEW p \in Call, Resume(p) PROVE TypeOK'
  BY <1>21, TypedParts DEF TypeOK, ManagerTyped, CountsTyped, FrameTyped, manager, counts, clocks, frames,
     PC, Resting, Resume, Goto, InFlight
<1>22. ASSUME NEW p \in Call, Abort(p) PROVE TypeOK'
  BY <1>22, TypedParts DEF TypeOK, ManagerTyped, CountsTyped, FrameTyped, manager, counts, clocks, frames,
     PC, Resting, Abort
<1>23. ASSUME NEW p \in Call, TaskEnds(p) PROVE TypeOK'
  BY <1>23, TypedParts, LowerTyped DEF TypeOK, ManagerTyped, CountsTyped, FrameTyped, manager, counts, clocks, frames,
     PC, Resting, TaskEnds, Leave, Goto
<1>24. ASSUME NEW k \in Conn, NEW s \in {"connected", "needs-auth"}, Publish(k, s) PROVE TypeOK'
  BY <1>24, TypedParts DEF TypeOK, ManagerTyped, CountsTyped, FrameTyped, frames, Publish, InheritedCount, Statuses
<1>25. ASSUME NEW k \in Conn, AttemptFails(k) \/ SessionEnds(k) PROVE TypeOK'
  BY <1>25 DEF TypeOK, AttemptFails, SessionEnds, counts, clocks, frames, Statuses
<1>26. CASE UserCloses \/ IdleShutdown
  BY <1>26, CloseTyped, TypedParts DEF TypeOK, CountsTyped, FrameTyped, counts, clocks, frames, UserCloses, IdleShutdown
<1>27. CASE RemoteClose \/ TimePasses
  BY <1>27 DEF TypeOK, RemoteClose, TimePasses, manager, counts, clocks, frames, Statuses
<1>28. QED
  BY <1>1, <1>2, <1>3, <1>4, <1>5, <1>6, <1>7, <1>8, <1>9, <1>10, <1>11, <1>12, <1>13, <1>14, <1>15, <1>16, <1>17, <1>18, <1>19, <1>20, <1>21, <1>22, <1>23, <1>24, <1>25, <1>26, <1>27
     DEF Next, Runs, Request, User, Settles

-----------------------------------------------------------------------------
(* Effects of a step on the counts. *)

\* A step leaves the counts alone and at most drops the route, ...
Keeps ==
  /\ UNCHANGED <<counts, origin>> /\ route' \in {route, None}
  /\ \A q \in Call : pc'[q] \in Counted <=> pc[q] \in Counted

\* ... or a call enters, ...
Enters(p) ==
  /\ Raise(p) /\ UNCHANGED <<route, origin>>
  /\ pc[p] \notin Counted /\ pc' = [pc EXCEPT ![p] = "approval"]

\* ... or a call leaves, or an attempt is published.
Leaves(p) ==
  /\ Lower(p) /\ UNCHANGED <<route, origin>>
  /\ pc[p] \in Counted /\ pc' = [pc EXCEPT ![p] = "done"]

Publishes == \E k \in Conn, s \in {"connected", "needs-auth"} : Publish(k, s)

Effect == Keeps \/ Publishes \/ \E p \in Call : Enters(p) \/ Leaves(p)

\* The catch block of a counted call closes the server or gives the count back.
LEMMA FailEffect ==
  ASSUME TypeOK, NEW p \in Call, NEW reason, Fail(p, reason), pc[p] \in Counted
  PROVE  Keeps \/ Leaves(p)
BY DEF TypeOK, Fail, CloseByName, Leave, Goto, Keeps, Leaves, Counted, InFlight, manager, counts

\* What follows a recovery counts, or closes, or leaves both alone.
LEMMA RetryEffect ==
  ASSUME TypeOK, NEW p \in Call, NEW k \in Maybe, Retry(p, k), pc[p] \in Counted
  PROVE  Keeps \/ Leaves(p)
<1>1. CASE Wait(p, "resent", k) /\ UNCHANGED <<manager, counts, quiet, why>>
  BY <1>1 DEF TypeOK, Wait, Goto, Keeps, Counted, InFlight, manager, counts
<1>2. CASE Leave(p) /\ UNCHANGED <<manager, at, why>>
  BY <1>2 DEF Leave, Goto, Leaves, manager
<1>3. QED
  BY <1>1, <1>2, FailEffect DEF Retry

\* A call that joins an attempt only changes where it waits.
LEMMA JoinEffect ==
  ASSUME TypeOK, NEW p \in Call, NEW where, NEW k, Join(p, where, k),
         UNCHANGED <<route, origin, counts>>, where \in Counted <=> pc[p] \in Counted
  PROVE  Keeps
BY DEF TypeOK, Join, Wait, Goto, Keeps

\* Asking for a replacement publishes nothing and counts nothing.
LEMMA RecoverEffect ==
  ASSUME TypeOK, NEW p \in Call, Recover(p), UNCHANGED <<route, origin, counts>>, pc[p] \in Counted
  PROVE  Keeps
BY DEF TypeOK, Recover, Join, Wait, Goto, Keeps, Counted

\* Reaching the server raises the count of a call that had not raised it, or counts nothing.
LEMMA SeekEffect ==
  ASSUME TypeOK, NEW p \in Call, NEW waits \in BOOLEAN, Seek(p, waits), UNCHANGED <<route, origin>>,
         pc[p] \notin Counted
  PROVE  Keeps \/ Enters(p)
<1>1. CASE Join(p, "connect", None) /\ UNCHANGED <<counts, quiet>>
  BY <1>1, JoinEffect DEF Counted, InFlight
<1>2. CASE Wait(p, "approval", route) /\ Raise(p)
  BY <1>2 DEF Wait, Goto, Enters
<1>3. CASE UNCHANGED <<counts, quiet>> /\ \E x \in {"listen", "done", "auth"} : Goto(p, x)
  BY <1>3 DEF TypeOK, Goto, Keeps, Counted, InFlight, counts
<1>4. QED
  BY <1>1, <1>2, <1>3 DEF Seek, Wait

\* Every step has one of these effects.
LEMMA StepEffect ==
  TypeOK /\ Next => Effect
<1> SUFFICES ASSUME TypeOK, Next PROVE Effect
  OBVIOUS
<1> USE DEF Effect
<1>1. ASSUME NEW p \in Call, Start(p) \/ AuthClosed(p) PROVE Effect
  <2>1. pc[p] \notin Counted /\ UNCHANGED <<route, origin>> /\ backoff \in BOOLEAN
    BY <1>1 DEF Start, AuthClosed, Counted, InFlight, TypeOK
  <2>2. CASE \E waits \in BOOLEAN : Seek(p, waits)
    BY <2>1, <2>2, SeekEffect
  <2>3. CASE Join(p, "connect", None) /\ UNCHANGED <<counts, quiet>>
    BY <2>1, <2>3, JoinEffect DEF Counted, InFlight
  <2>4. QED
    BY <1>1, <2>1, <2>2, <2>3 DEF Start, AuthClosed
<1>2. ASSUME NEW p \in Call, ConnectReturns(p) \/ ListenReturns(p) PROVE Effect
  <2>1. pc[p] \notin Counted /\ UNCHANGED <<route, origin>>
    BY <1>2 DEF ConnectReturns, ListenReturns, Counted, InFlight, manager
  <2>2. CASE Goto(p, "approval") /\ Raise(p)
    BY <2>1, <2>2 DEF Goto, Enters
  <2>3. CASE UNCHANGED <<counts, quiet>> /\ \E x \in {"done", "auth"} : Goto(p, x)
    BY <2>1, <2>3 DEF TypeOK, Goto, Keeps, Counted, InFlight, counts
  <2>4. QED
    BY <1>2, <2>2, <2>3 DEF ConnectReturns, ListenReturns
<1>3. ASSUME NEW p \in Call, AuthReturns(p) PROVE Effect
  BY <1>3 DEF AuthReturns, CloseByName, TypeOK, Goto, Keeps, Counted, InFlight, manager, counts
<1>4. ASSUME NEW p \in Call, FailingReturns(p) \/ Refuse(p) \/ Answered(p) \/ TaskEnds(p) PROVE Effect
  BY <1>4 DEF FailingReturns, Refuse, Answered, TaskEnds, Leave, Goto, Leaves, Counted, InFlight, manager
<1>5. ASSUME NEW p \in Call, BecomesTask(p) \/ Paused(p) \/ Resume(p) \/ Abort(p) PROVE Effect
  BY <1>5 DEF BecomesTask, Paused, Resume, Abort, TypeOK, Goto, Keeps, Counted, InFlight, manager, counts
<1>6. ASSUME NEW p \in Call, RequestFails(p) \/ RefusedAgain(p) PROVE Effect
  <2>1. pc[p] \in Counted
    BY <1>6 DEF RequestFails, RefusedAgain, Counted, InFlight
  <2>2. QED
    BY <1>6, <2>1, FailEffect DEF RequestFails, RefusedAgain
<1>7. ASSUME NEW p \in Call, Approve(p) PROVE Effect
  <2>1. CASE Fail(p, "lost")
    BY <1>7, <2>1, FailEffect DEF Approve, Counted, InFlight
  <2>2. CASE Wait(p, "sent", route) /\ UNCHANGED <<manager, counts, quiet, why>>
    BY <1>7, <2>2 DEF Approve, TypeOK, Wait, Goto, Keeps, Counted, InFlight, manager, counts
  <2>3. QED
    BY <1>7, <2>1, <2>2 DEF Approve
<1>8. ASSUME NEW p \in Call, Refused(p) PROVE Effect
  <2>1. pc[p] \in Counted /\ Recover(p) /\ UNCHANGED <<route, origin, counts>>
    BY <1>8 DEF Refused, Counted, InFlight
  <2>2. QED
    BY <2>1, RecoverEffect
<1>9. ASSUME NEW p \in Call, RecoverReturns(p) PROVE Effect
  <2>1. pc[p] \in Counted /\ route \in Maybe /\ at[p] \in Maybe
    BY <1>9 DEF RecoverReturns, TypeOK, Counted
  <2>2. CASE Goto(p, "reauth") /\ UNCHANGED <<manager, counts, quiet, at, why>>
    BY <2>1, <2>2 DEF TypeOK, Goto, Keeps, Counted, manager, counts
  <2>3. QED
    BY <1>9, <2>1, <2>2, FailEffect, RetryEffect DEF RecoverReturns
<1>10. ASSUME NEW p \in Call, ReauthReturns(p) PROVE Effect
  <2>1. pc[p] \in Counted /\ route \in Maybe
    BY <1>10 DEF ReauthReturns, TypeOK, Counted
  <2>2. CASE Leave(p) /\ UNCHANGED <<manager, backoff, at, why>>
    BY <2>1, <2>2 DEF Leave, Goto, Leaves, manager
  <2>3. CASE Retry(p, route)
    BY <2>1, <2>3, RetryEffect
  <2>4. CASE CloseByName /\ Goto(p, "reauthClosed") /\ UNCHANGED <<counts, clocks, at, why>>
    BY <2>1, <2>4 DEF TypeOK, CloseByName, Goto, Keeps, Counted, counts
  <2>5. CASE Join(p, "relazy", None) /\ UNCHANGED <<route, expired, origin, counts, quiet, why>>
    BY <2>1, <2>5, JoinEffect DEF Counted
  <2>6. QED
    BY <1>10, <2>2, <2>3, <2>4, <2>5 DEF ReauthReturns
<1>11. ASSUME NEW p \in Call, ReauthClosed(p) PROVE Effect
  <2>1. pc[p] \in Counted /\ UNCHANGED <<route, origin>>
    BY <1>11 DEF ReauthClosed, Counted
  <2>2. CASE Wait(p, "relazy", route) /\ UNCHANGED <<counts, quiet>>
    BY <2>1, <2>2 DEF TypeOK, Wait, Goto, Keeps, Counted, counts
  <2>3. CASE Leave(p)
    BY <2>1, <2>3 DEF Leave, Goto, Leaves
  <2>4. CASE Join(p, "relazy", None) /\ UNCHANGED <<counts, quiet>>
    BY <2>1, <2>4, JoinEffect DEF Counted
  <2>5. QED
    BY <1>11, <2>2, <2>3, <2>4 DEF ReauthClosed
<1>12. ASSUME NEW p \in Call, RelazyReturns(p) PROVE Effect
  <2>1. pc[p] \in Counted /\ route \in Maybe /\ at[p] \in Maybe
    BY <1>12 DEF RelazyReturns, TypeOK, Counted
  <2>2. CASE Leave(p) /\ UNCHANGED <<manager, at, why>>
    BY <2>1, <2>2 DEF Leave, Goto, Leaves, manager
  <2>3. QED
    BY <1>12, <2>1, <2>2, RetryEffect DEF RelazyReturns
<1>13. ASSUME NEW p \in Call, AbortThrows(p) PROVE Effect
  <2>1. CASE pc[p] \in {"connect", "auth"} /\ Goto(p, "done") /\ UNCHANGED <<counts, quiet, ran>>
    BY <1>13, <2>1 DEF AbortThrows, TypeOK, Goto, Keeps, Counted, InFlight, manager, counts
  <2>2. CASE pc[p] \in Counted /\ Leave(p)
    BY <1>13, <2>2 DEF AbortThrows, Leave, Goto, Leaves, manager
  <2>3. QED
    BY <1>13, <2>1, <2>2 DEF AbortThrows, Counted
<1>14. ASSUME NEW k \in Conn, AttemptFails(k) \/ SessionEnds(k) PROVE Effect
  BY <1>14 DEF AttemptFails, SessionEnds, Keeps, counts, frames
<1>15. CASE UserCloses \/ IdleShutdown \/ RemoteClose \/ TimePasses
  BY <1>15 DEF UserCloses, IdleShutdown, CloseByName, RemoteClose, TimePasses, Keeps, manager, counts, frames
<1>16. QED
  BY <1>1, <1>2, <1>3, <1>4, <1>5, <1>6, <1>7, <1>8, <1>9, <1>10, <1>11, <1>12, <1>13, <1>14, <1>15
     DEF Next, Runs, Request, User, Settles, Publishes

-----------------------------------------------------------------------------
(* The invariant. *)

\* Only the calls between increment and decrement hold a count.
LEMMA HoldersStep ==
  TypeOK /\ HoldersAreCounted /\ Effect => HoldersAreCounted'
<1> SUFFICES ASSUME TypeOK, HoldersAreCounted, Effect PROVE HoldersAreCounted'
  OBVIOUS
<1> USE DEF HoldersAreCounted
<1>1. CASE Keeps
  BY <1>1 DEF Keeps, counts
<1>2. CASE Publishes
  BY <1>2 DEF Publishes, Publish, frames
<1>3. ASSUME NEW p \in Call, Enters(p) PROVE HoldersAreCounted'
  BY <1>3 DEF TypeOK, Enters, Raise, Counted
<1>4. ASSUME NEW p \in Call, Leaves(p) PROVE HoldersAreCounted'
  BY <1>4 DEF TypeOK, Leaves, Lower, Counted, InFlight
<1>5. QED
  BY <1>1, <1>2, <1>3, <1>4 DEF Effect

\* Lineages begin with published connections.
LEMMA LineageStep ==
  TypeOK /\ AttemptIsPrivate /\ LineagesArePublished /\ Effect => LineagesArePublished'
<1> SUFFICES ASSUME TypeOK, AttemptIsPrivate, LineagesArePublished, Effect
             PROVE  LineagesArePublished'
  OBVIOUS
<1> USE NoneIsNoConn DEF LineagesArePublished, Maybe
<1>1. CASE Keeps
  BY <1>1 DEF Keeps, counts
<1>2. ASSUME NEW k \in Conn, NEW s \in {"connected", "needs-auth"}, Publish(k, s)
      PROVE  LineagesArePublished'
  <2>1. origin[k] = None /\ target[k] \in {None, route} /\ route' = k /\ UNCHANGED home
    BY <1>2 DEF Publish, AttemptIsPrivate, Maybe
  <2>2. /\ target[k] = None => origin' = [origin EXCEPT ![k] = k]
        /\ target[k] # None => origin' = [origin EXCEPT ![k] = origin[route]] /\ route # None
    BY <1>2, <2>1 DEF Publish
  <2>3. QED
    BY <2>1, <2>2 DEF TypeOK
<1>3. ASSUME NEW p \in Call, Enters(p) PROVE LineagesArePublished'
  BY <1>3 DEF TypeOK, Enters, Raise, Lineage
<1>4. ASSUME NEW p \in Call, Leaves(p) PROVE LineagesArePublished'
  BY <1>4 DEF Leaves, Lower
<1>5. QED
  BY <1>1, <1>2, <1>3, <1>4 DEF Effect, Publishes

\* The holders of a lineage are finitely many.
LEMMA HoldersFinite ==
  ASSUME NEW lineage
  PROVE  IsFiniteSet(Holders(lineage)) /\ Cardinality(Holders(lineage)) \in Nat
<1>1. IsFiniteSet(Holders(lineage))
  BY FS_Subset, CallsAreFinite DEF Holders
<1>2. QED
  BY <1>1, FS_CardinalityType

\* Whatever a step does, the count of the route stands for its calls.
LEMMA RouteStep ==
  ASSUME TypeOK, HoldersAreCounted, AttemptIsPrivate, LineagesArePublished, RouteCounted, Effect
  PROVE  RouteCounted'
<1> USE NoneIsNoConn DEF RouteCounted, NeverOverCounted, CountCovers, Maybe
<1>1. CASE Keeps
  BY <1>1 DEF Keeps, counts, Holders
<1>2. ASSUME NEW k \in Conn, NEW s \in {"connected", "needs-auth"}, Publish(k, s)
      PROVE  RouteCounted'
  <2>1. /\ origin[k] = None /\ target[k] \in {None, route} /\ route' = k
        /\ UNCHANGED <<home, holds, strayed>>
    BY <1>2 DEF Publish, AttemptIsPrivate
  <2>2. CASE target[k] = None
    <3>1. origin'[k] = k /\ count'[k] = 0
      BY <1>2, <2>2 DEF Publish, InheritedCount, TypeOK
    <3>2. \A q \in Call : home[q] # k
      BY <2>1 DEF LineagesArePublished
    <3>3. Holders(origin[route])' = {}
      BY <2>1, <3>1, <3>2 DEF Holders
    <3>4. QED
      BY <2>1, <3>1, <3>3, FS_EmptySet
  <2>3. CASE target[k] # None
    <3>1. route # None /\ route \in Conn /\ target[k] = route
      BY <2>1, <2>3 DEF TypeOK
    <3>2. origin'[k] = origin[route] /\ count'[k] = count[route]
      BY <1>2, <3>1, <2>3 DEF Publish, InheritedCount, TypeOK
    <3>3. Holders(origin[route])' = Holders(origin[route])
      BY <2>1, <3>2 DEF Holders
    <3>4. QED
      BY <2>1, <3>1, <3>2, <3>3
  <2>4. QED
    BY <2>2, <2>3
<1>3. ASSUME NEW p \in Call, Enters(p), route # None PROVE RouteCounted'
  <2> DEFINE L == origin[route]
  <2>1. /\ route' = route /\ origin' = origin /\ strayed' = strayed /\ route \in Conn
        /\ count' = [count EXCEPT ![route] = @ + 1]
        /\ holds' = [holds EXCEPT ![p] = TRUE] /\ home' = [home EXCEPT ![p] = L]
    BY <1>3 DEF Enters, Raise, Lineage, TypeOK
  <2>2. p \notin Holders(L)
    BY <1>3 DEF Enters, HoldersAreCounted, Holders
  <2>3. Holders(origin[route])' = Holders(L) \cup {p}
    BY <2>1 DEF Holders, TypeOK
  <2>4. Cardinality(Holders(L) \cup {p}) = Cardinality(Holders(L)) + 1
    BY <2>2, HoldersFinite, FS_AddElement
  <2>5. count'[route] = count[route] + 1 /\ count[route] \in Nat
    BY <2>1 DEF TypeOK
  <2>6. Cardinality(Holders(L)) \in Nat
    BY HoldersFinite
  <2>7. Cardinality(Holders(origin[route])') = Cardinality(Holders(L)) + 1
    BY <2>3, <2>4
  <2>8. NeverOverCounted'
    BY <1>3, <2>1, <2>5, <2>6, <2>7
  <2>9. CountCovers'
    BY <1>3, <2>1, <2>5, <2>6, <2>7
  <2>10. QED
    BY <2>8, <2>9
<1>4. ASSUME NEW p \in Call, Leaves(p), route # None PROVE RouteCounted'
  <2> DEFINE L == origin[route]
  <2>1. /\ route' = route /\ origin' = origin /\ home' = home /\ route \in Conn
        /\ count' = IF count[route] = 0 THEN count ELSE [count EXCEPT ![route] = @ - 1]
        /\ strayed' = IF home[p] # L THEN strayed \cup {L} ELSE strayed
        /\ holds' = [holds EXCEPT ![p] = FALSE]
        /\ holds[p]
    BY <1>4 DEF Leaves, Lower, Lineage, TypeOK, HoldersAreCounted
  <2>2. /\ count[route] \in Nat
        /\ count'[route] = IF count[route] = 0 THEN 0 ELSE count[route] - 1
    BY <2>1 DEF TypeOK
  <2>3. IsFiniteSet(Holders(L)) /\ Cardinality(Holders(L)) \in Nat
    BY HoldersFinite
  <2>4. CASE home[p] # L
    <3>1. Holders(origin[route])' = Holders(L)
      BY <2>1, <2>4 DEF Holders, TypeOK
    <3>2. count[route] <= Cardinality(Holders(L))
      BY <1>4
    <3>3. QED
      BY <2>1, <2>2, <2>3, <2>4, <3>1, <3>2
  <2>5. CASE home[p] = L
    <3>1. p \in Holders(L)
      BY <2>1, <2>5 DEF Holders
    <3>2. Holders(origin[route])' = Holders(L) \ {p}
      BY <2>1 DEF Holders, TypeOK
    <3>3. Cardinality(Holders(L) \ {p}) = Cardinality(Holders(L)) - 1
      BY <2>3, <3>1, FS_RemoveElement
    <3>4. Cardinality(Holders(L)) # 0
      BY <2>3, <3>1, FS_EmptySet
    <3>5. count[route] <= Cardinality(Holders(L))
      BY <1>4
    <3>6. Cardinality(Holders(origin[route])') = Cardinality(Holders(L)) - 1
      BY <3>2, <3>3
    <3>7. NeverOverCounted'
      BY <2>1, <2>2, <2>3, <3>4, <3>5, <3>6
    <3>8. CountCovers'
      BY <1>4, <2>1, <2>2, <2>3, <2>5, <3>4, <3>6
    <3>9. QED
      BY <3>7, <3>8
  <2>6. QED
    BY <2>4, <2>5
<1>5. CASE route' = None
  BY <1>5
<1>6. QED
  BY <1>1, <1>2, <1>3, <1>4, <1>5 DEF Effect, Publishes, Enters, Leaves

-----------------------------------------------------------------------------
(* Attempts. *)

Idles  == UNCHANGED <<route, status, target, attempt, origin>>
Joins  == /\ UNCHANGED <<route, origin>>
          /\ \E p \in Call, where \in PC, k \in {None, route} : Join(p, where, k)
Manages == Idles \/ Joins \/ CloseByName \/ RemoteClose \/ Publishes
           \/ \E k \in Conn : AttemptFails(k)

\* The catch block closes the server by name or leaves the manager alone.
LEMMA FailManages ==
  ASSUME NEW p \in Call, NEW reason, Fail(p, reason)
  PROVE  Manages
BY DEF Fail, Manages, Idles, manager

\* So does what follows a recovery.
LEMMA RetryManages ==
  ASSUME NEW p \in Call, NEW k, Retry(p, k)
  PROVE  Manages
BY FailManages DEF Retry, Manages, Idles, manager

\* Asking for a replacement joins an attempt or waits for the route.
LEMMA RecoverManages ==
  ASSUME NEW p \in Call, Recover(p), UNCHANGED <<route, expired, origin>>
  PROVE  Manages
<1>1. CASE Join(p, "recover", route)
  BY <1>1 DEF Manages, Joins, PC
<1>2. CASE ~Join(p, "recover", route)
  BY <1>2 DEF Recover, Manages, Idles
<1>3. QED
  BY <1>1, <1>2

\* Reaching the server joins an attempt or leaves the manager alone.
LEMMA SeekManages ==
  ASSUME NEW p \in Call, NEW waits, Seek(p, waits), UNCHANGED <<route, expired, origin>>
  PROVE  Manages
<1>1. CASE Join(p, "connect", None)
  BY <1>1 DEF Manages, Joins, PC
<1>2. CASE UNCHANGED <<status, target, owner, attempt>>
  BY <1>2 DEF Manages, Idles
<1>3. QED
  BY <1>1, <1>2 DEF Seek

\* Every step leaves the manager alone or does one of the manager's operations.
LEMMA StepManages ==
  Next => Manages
<1> SUFFICES ASSUME Next PROVE Manages
  OBVIOUS
<1>1. ASSUME NEW p \in Call, Start(p) \/ AuthClosed(p) PROVE Manages
  <2>1. CASE Join(p, "connect", None) /\ UNCHANGED <<route, origin>>
    BY <2>1 DEF Manages, Joins, PC
  <2>2. QED
    BY <1>1, <2>1, SeekManages DEF Start, AuthClosed
<1>2. ASSUME NEW p \in Call,
             \/ ConnectReturns(p) \/ ListenReturns(p) \/ FailingReturns(p) \/ Refuse(p) \/ Answered(p)
             \/ TaskEnds(p) \/ BecomesTask(p) \/ Paused(p) \/ Resume(p) \/ Abort(p) \/ AbortThrows(p)
      PROVE  Manages
  BY <1>2 DEF ConnectReturns, ListenReturns, FailingReturns, Refuse, Answered, TaskEnds, BecomesTask, Paused,
     Resume, Abort, AbortThrows, manager, Manages, Idles
<1>3. ASSUME NEW p \in Call, AuthReturns(p) \/ RequestFails(p) \/ RefusedAgain(p) \/ Approve(p)
      PROVE  Manages
  BY <1>3, FailManages DEF AuthReturns, RequestFails, RefusedAgain, Approve, manager, Manages, Idles
<1>4. ASSUME NEW p \in Call, Refused(p) PROVE Manages
  BY <1>4, RecoverManages DEF Refused
<1>5. ASSUME NEW p \in Call, RecoverReturns(p) \/ RelazyReturns(p) PROVE Manages
  BY <1>5, FailManages, RetryManages DEF RecoverReturns, RelazyReturns, manager, Manages, Idles
<1>6. ASSUME NEW p \in Call, ReauthReturns(p) PROVE Manages
  <2>1. CASE Join(p, "relazy", None) /\ UNCHANGED <<route, origin>>
    BY <2>1 DEF Manages, Joins, PC
  <2>2. QED
    BY <1>6, <2>1, RetryManages DEF ReauthReturns, manager, Manages, Idles
<1>7. ASSUME NEW p \in Call, ReauthClosed(p) PROVE Manages
  <2>1. CASE Join(p, "relazy", None) /\ UNCHANGED <<route, origin>>
    BY <2>1 DEF Manages, Joins, PC
  <2>2. QED
    BY <1>7, <2>1 DEF ReauthClosed, Manages, Idles
<1>8. ASSUME NEW k \in Conn, SessionEnds(k) PROVE Manages
  BY <1>8 DEF SessionEnds, Manages, Idles
<1>9. CASE UserCloses \/ IdleShutdown \/ TimePasses
  BY <1>9 DEF UserCloses, IdleShutdown, TimePasses, manager, Manages, Idles
<1>10. QED
  BY <1>1, <1>2, <1>3, <1>4, <1>5, <1>6, <1>7, <1>8, <1>9
     DEF Next, Runs, Request, User, Settles, Publishes, Manages

\* A running attempt stays private until it is published.
LEMMA AttemptStep ==
  TypeOK /\ AttemptIsPrivate /\ Manages => AttemptIsPrivate'
<1> SUFFICES ASSUME TypeOK, AttemptIsPrivate, Manages PROVE AttemptIsPrivate'
  OBVIOUS
<1> USE NoneIsNoConn DEF AttemptIsPrivate, TypeOK, Maybe
<1>1. CASE Idles
  BY <1>1 DEF Idles
<1>2. CASE Joins
  BY <1>2 DEF Joins, Join
<1>3. CASE CloseByName
  BY <1>3 DEF CloseByName
<1>4. CASE RemoteClose
  BY <1>4 DEF RemoteClose, Connected
<1>5. ASSUME NEW k \in Conn, NEW s \in {"connected", "needs-auth"}, Publish(k, s) PROVE AttemptIsPrivate'
  BY <1>5 DEF Publish
<1>6. ASSUME NEW k \in Conn, AttemptFails(k) PROVE AttemptIsPrivate'
  BY <1>6 DEF AttemptFails
<1>7. QED
  BY <1>1, <1>2, <1>3, <1>4, <1>5, <1>6 DEF Manages, Publishes

-----------------------------------------------------------------------------
(* Runs. *)

\* A step moves at most one call, which was not run by this step, and only on to a place
\* it may be in after as many runs.
Moves(p) == \E x \in PC : pc' = [pc EXCEPT ![p] = x] /\ (x \in NotYetRun => pc[p] \in NotYetRun)

\* Or the server runs the request of a call that has not run yet, for the last time.
RunsNow(p) ==
  /\ pc[p] \in NotYetRun /\ ran' = [ran EXCEPT ![p] = @ + 1]
  /\ \E x \in PC \ NotYetRun : pc' = [pc EXCEPT ![p] = x]

Progress == \/ UNCHANGED <<pc, ran>>
            \/ \E p \in Call : (Moves(p) /\ UNCHANGED ran) \/ RunsNow(p)

\* A call that failed is not sent again.
LEMMA FailMoves ==
  ASSUME NEW p \in Call, NEW reason, Fail(p, reason)
  PROVE  \E x \in PC \ NotYetRun : pc' = [pc EXCEPT ![p] = x]
BY DEF Fail, Leave, Goto, PC, Resting, NotYetRun

\* A call that is sent again had not run.
LEMMA RetryMoves ==
  ASSUME NEW p \in Call, NEW k, Retry(p, k), pc[p] \in NotYetRun
  PROVE  Moves(p)
BY FailMoves DEF Retry, Leave, Wait, Goto, PC, Resting, InFlight, NotYetRun, Moves

\* Every step has one of these effects.
LEMMA StepProgress ==
  TypeOK /\ Next => Progress
<1> SUFFICES ASSUME TypeOK, Next PROVE Progress
  OBVIOUS
<1> USE DEF Progress
<1>1. ASSUME NEW p \in Call,
             Start(p) \/ ConnectReturns(p) \/ ListenReturns(p) \/ AuthReturns(p) \/ AuthClosed(p) \/ Refused(p)
      PROVE  Progress
  BY <1>1 DEF Start, ConnectReturns, ListenReturns, AuthReturns, AuthClosed, Refused, Seek, Recover, Join,
     Wait, Goto, PC, Resting, InFlight, NotYetRun, Moves
<1>2. ASSUME NEW p \in Call,
             FailingReturns(p) \/ Refuse(p) \/ TaskEnds(p) \/ Resume(p) \/ ReauthClosed(p)
      PROVE  Progress
  BY <1>2 DEF FailingReturns, Refuse, TaskEnds, Resume, ReauthClosed, Leave, Join, Wait, Goto,
     PC, Resting, InFlight, NotYetRun, Moves
<1>3. ASSUME NEW p \in Call, Answered(p) \/ BecomesTask(p) \/ Paused(p) PROVE Progress
  BY <1>3 DEF Answered, BecomesTask, Paused, Leave, Goto, Ran, PC, Resting, InFlight, NotYetRun, Moves, RunsNow
<1>4. ASSUME NEW p \in Call, RequestFails(p) \/ RefusedAgain(p) PROVE Progress
  <2>1. PICK x \in PC \ NotYetRun : pc' = [pc EXCEPT ![p] = x]
    BY <1>4, FailMoves DEF RequestFails, RefusedAgain
  <2>2. \/ UNCHANGED ran
        \/ pc[p] \in NotYetRun /\ ran' = [ran EXCEPT ![p] = @ + 1]
    BY <1>4 DEF RequestFails, RefusedAgain, Ran, InFlight, NotYetRun
  <2>3. QED
    BY <2>1, <2>2 DEF Moves, RunsNow
<1>5. ASSUME NEW p \in Call, Approve(p) PROVE Progress
  <2>1. CASE Fail(p, "lost")
    BY <1>5, <2>1, FailMoves DEF Approve, Moves
  <2>2. CASE Wait(p, "sent", route)
    BY <1>5, <2>2 DEF Approve, Wait, Goto, PC, InFlight, NotYetRun, Moves
  <2>3. QED
    BY <1>5, <2>1, <2>2 DEF Approve
<1>6. ASSUME NEW p \in Call, RecoverReturns(p) PROVE Progress
  <2>1. CASE Goto(p, "reauth")
    BY <1>6, <2>1 DEF RecoverReturns, Goto, PC, NotYetRun, Moves
  <2>2. CASE Fail(p, "lost")
    BY <1>6, <2>2, FailMoves DEF RecoverReturns, Moves
  <2>3. ASSUME NEW k \in Maybe, Retry(p, k) PROVE Progress
    BY <1>6, <2>3, RetryMoves DEF RecoverReturns, NotYetRun
  <2>4. QED
    BY <1>6, <2>1, <2>2, <2>3 DEF RecoverReturns, TypeOK
<1>7. ASSUME NEW p \in Call, ReauthReturns(p) PROVE Progress
  <2>1. CASE Retry(p, route)
    BY <1>7, <2>1, RetryMoves DEF ReauthReturns, NotYetRun
  <2>2. CASE ~Retry(p, route)
    BY <1>7, <2>2 DEF ReauthReturns, Leave, Join, Wait, Goto, PC, Resting, NotYetRun, Moves
  <2>3. QED
    BY <2>1, <2>2
<1>8. ASSUME NEW p \in Call, RelazyReturns(p) PROVE Progress
  <2>1. CASE Leave(p)
    BY <1>8, <2>1 DEF RelazyReturns, Leave, Goto, PC, Resting, NotYetRun, Moves
  <2>2. ASSUME NEW k \in Maybe, Retry(p, k) PROVE Progress
    BY <1>8, <2>2, RetryMoves DEF RelazyReturns, NotYetRun
  <2>3. QED
    BY <1>8, <2>1, <2>2 DEF RelazyReturns, TypeOK
<1>9. ASSUME NEW p \in Call, AbortThrows(p) PROVE Progress
  <2>1. pc' = [pc EXCEPT ![p] = "done"]
    BY <1>9 DEF AbortThrows, Leave, Goto
  <2>2. \/ UNCHANGED ran
        \/ pc[p] \in NotYetRun /\ ran' = [ran EXCEPT ![p] = @ + 1]
    BY <1>9 DEF AbortThrows, Ran, InFlight, NotYetRun
  <2>3. PICK x \in PC \ NotYetRun : pc' = [pc EXCEPT ![p] = x]
    BY <2>1 DEF PC, Resting, NotYetRun
  <2>4. QED
    BY <2>2, <2>3 DEF Moves, RunsNow
<1>10. ASSUME NEW p \in Call, Abort(p) PROVE Progress
  BY <1>10 DEF Abort
<1>11. ASSUME NEW k \in Conn, NEW s \in {"connected", "needs-auth"},
              Publish(k, s) \/ AttemptFails(k) \/ SessionEnds(k)
       PROVE  Progress
  BY <1>11 DEF Publish, AttemptFails, SessionEnds, frames
<1>12. CASE UserCloses \/ IdleShutdown \/ RemoteClose \/ TimePasses
  BY <1>12 DEF UserCloses, IdleShutdown, RemoteClose, TimePasses, frames
<1>13. QED
  BY <1>1, <1>2, <1>3, <1>4, <1>5, <1>6, <1>7, <1>8, <1>9, <1>10, <1>11, <1>12
     DEF Next, Runs, Request, User, Settles

\* What has been sent again has not run before.
LEMMA RunStep ==
  TypeOK /\ SentBeforeRun /\ Progress => SentBeforeRun'
BY DEF TypeOK, SentBeforeRun, Progress, Moves, RunsNow

-----------------------------------------------------------------------------
(* Theorems. *)

\* The invariant holds when no call has begun.
LEMMA InitInvariant ==
  Init => IInv
<1> SUFFICES ASSUME Init PROVE IInv
  OBVIOUS
<1>1. TypeOK
  BY DEF Init, TypeOK, Maybe, Statuses, PC, Resting, Reasons
<1>2. HoldersAreCounted /\ SentBeforeRun
  BY DEF Init, HoldersAreCounted, SentBeforeRun, Counted, InFlight
<1>3. AttemptIsPrivate /\ LineagesArePublished /\ RouteCounted
  BY NoneIsNoConn DEF Init, AttemptIsPrivate, LineagesArePublished, RouteCounted, NeverOverCounted, CountCovers
<1>4. QED
  BY <1>1, <1>2, <1>3 DEF IInv

\* The inductive invariant holds in every behaviour, for any finite set of calls of any
\* kind and any number of connections.
THEOREM Invariance == Spec => []IInv
<1>1. IInv /\ [Next]_vars => IInv'
  <2> SUFFICES ASSUME IInv, [Next]_vars PROVE IInv'
    OBVIOUS
  <2>1. CASE Next
    BY <2>1, StepTyped, StepEffect, StepManages, StepProgress, HoldersStep, LineageStep, RouteStep,
       AttemptStep, RunStep DEF IInv
  <2>2. CASE UNCHANGED vars
    BY <2>2, StepTyped DEF IInv, vars, manager, counts, clocks, frames, HoldersAreCounted, SentBeforeRun,
       AttemptIsPrivate, LineagesArePublished, RouteCounted, NeverOverCounted, CountCovers, Holders
  <2>3. QED
    BY <2>1, <2>2
<1>2. QED
  BY <1>1, InitInvariant, PTL DEF Spec

\* The manager's record of the server and the frames of its calls stay well typed.
THEOREM TypeCorrect == Spec => []TypeOK
<1>1. IInv => TypeOK
  BY DEF IInv
<1>2. QED
  BY <1>1, Invariance, PTL

\* No recovery, sign-in or Executor pause makes the server run a call twice
\* (withSessionRecovery, answerPauses).
THEOREM NoCallRunsTwice == Spec => []AtMostOnce
<1>1. IInv => AtMostOnce
  BY DEF IInv, SentBeforeRun, AtMostOnce
<1>2. QED
  BY <1>1, Invariance, PTL

\* The in-flight count of the route is never too high, so an idle server is not kept
\* running by calls that are over (decrementInFlight, doReconnect).
THEOREM CountsAreGivenBack == Spec => []NeverOverCounted
<1>1. IInv => NeverOverCounted
  BY DEF IInv, RouteCounted
<1>2. QED
  BY <1>1, Invariance, PTL

\* It is exact as long as only the calls that raised a lineage's count lower it, through
\* any number of replacements (incrementInFlight, decrementInFlight, doReconnect).
THEOREM CountsCoverTheirCalls == Spec => []CountCovers
<1>1. IInv => CountCovers
  BY DEF IInv, RouteCounted
<1>2. QED
  BY <1>1, Invariance, PTL


-----------------------------------------------------------------------------
(* ProxyCalls: names *)

\* There is a server, there are finitely many, and None is none of them.
SomeServers == Server # {} /\ IsFiniteSet(Server) /\ None \notin Server

Listings == [Server -> Proxy!Listing]

\* The instance counts as FiniteSets does.
LEMMA ProxyCount == \A S : Proxy!Cardinality(S) = Cardinality(S)
BY DEF Proxy!Cardinality, Cardinality

\* There are finitely many tools.
LEMMA ToolsAreFinite == ASSUME SomeServers PROVE IsFiniteSet(Proxy!Tools)
<1> DEFINE ways == Proxy!Kinds \X (1..2)
           f == [t \in Proxy!Tools |-> <<t.server, <<t.kind, t.nth>>>>]
<1>1. IsFiniteSet(Proxy!Kinds)
  <2>1. IsFiniteSet({"displayed"})
    BY FS_Singleton
  <2>2. IsFiniteSet({"displayed"} \cup {"original"})
    BY <2>1, FS_AddElement
  <2>3. IsFiniteSet(({"displayed"} \cup {"original"}) \cup {"spelt"})
    BY <2>2, FS_AddElement
  <2>4. IsFiniteSet((({"displayed"} \cup {"original"}) \cup {"spelt"}) \cup {"alias"})
    BY <2>3, FS_AddElement
  <2>5. Proxy!Kinds = (({"displayed"} \cup {"original"}) \cup {"spelt"}) \cup {"alias"}
    BY DEF Proxy!Kinds
  <2>6. QED
    BY <2>4, <2>5
<1>2. IsFiniteSet(1..2)
  <2>1. IsFiniteSet({1} \cup {2})
    BY FS_Singleton, FS_AddElement
  <2>2. 1..2 = {1} \cup {2}
    OBVIOUS
  <2>3. QED
    BY <2>1, <2>2
<1>3. IsFiniteSet(ways)
  BY <1>1, <1>2, FS_Product
<1>4. IsFiniteSet(Server \X ways)
  BY <1>3, FS_Product DEF SomeServers
<1>5. f \in [Proxy!Tools -> Server \X ways]
  <2>1. \A t \in Proxy!Tools : t.server \in Server /\ t.kind \in Proxy!Kinds /\ t.nth \in 1..2
    BY DEF Proxy!Tools
  <2>2. QED
    BY <2>1
<1>6. \A t, u \in Proxy!Tools : f[t] = f[u] => t = u
  BY DEF Proxy!Tools
<1>7. f \in Injection(Proxy!Tools, Server \X ways)
  BY <1>5, <1>6 DEF Injection, IsInjective
<1>8. QED
  BY <1>4, <1>7, FS_Injection

\* A set with one element is that of The.
LEMMA UniqueIs ==
  ASSUME NEW S, IsFiniteSet(S), Proxy!Unique(S)
  PROVE  S = {Proxy!The(S)}
<1>1. Cardinality(S) = 1
  BY ProxyCount DEF Proxy!Unique
<1>2. PICK x : S = {x}
  BY <1>1, FS_Singleton
<1>3. Proxy!The(S) = x
  BY <1>2 DEF Proxy!The
<1>4. QED
  BY <1>2, <1>3

\* What matches, tool by tool.
LEMMA MatchesAre ==
  ASSUME NEW servers \in SUBSET Server, NEW kinds \in SUBSET Proxy!Kinds, NEW known \in Listings
  PROVE  /\ Proxy!Matches(servers, kinds, known) \subseteq Proxy!Tools
         /\ \A t \in Proxy!Matches(servers, kinds, known) : t.server \in servers /\ t.kind \in kinds
         /\ \A t \in Proxy!Tools :
              t \in Proxy!Matches(servers, kinds, known)
                <=> t.server \in servers /\ t.kind \in kinds /\ t.nth \in 1..known[t.server][t.kind]
<1>1. \A s \in Server, k \in Proxy!Kinds : known[s][k] \in 0..2
  BY DEF Listings, Proxy!Listing
<1>2. ASSUME NEW t \in Proxy!Matches(servers, kinds, known)
      PROVE  t \in Proxy!Tools /\ t.server \in servers /\ t.kind \in kinds /\ t.nth \in 1..known[t.server][t.kind]
  <2> DEFINE Of(s, k) == [server : {s}, kind : {k}, nth : 1..known[s][k]]
  <2>0. t \in UNION {Of(s, k) : s \in servers, k \in kinds}
    BY <1>2 DEF Proxy!Matches
  <2> HIDE DEF Of
  <2>1. PICK s \in servers, k \in kinds : t \in Of(s, k)
    BY <2>0
  <2> USE DEF Of
  <2>2. t.server = s /\ t.kind = k /\ t.nth \in 1..known[s][k] /\ t = [server |-> t.server, kind |-> t.kind, nth |-> t.nth]
    BY <2>1
  <2>3. t.nth \in 1..2
    BY <1>1, <2>2
  <2>4. QED
    BY <2>2, <2>3 DEF Proxy!Tools
<1>3. ASSUME NEW t \in Proxy!Tools, t.server \in servers, t.kind \in kinds, t.nth \in 1..known[t.server][t.kind]
      PROVE  t \in Proxy!Matches(servers, kinds, known)
  <2>1. t = [server |-> t.server, kind |-> t.kind, nth |-> t.nth]
    BY DEF Proxy!Tools
  <2>2. t \in [server : {t.server}, kind : {t.kind}, nth : 1..known[t.server][t.kind]]
    BY <1>3, <2>1
  <2> DEFINE Of(s, k) == [server : {s}, kind : {k}, nth : 1..known[s][k]]
  <2>3. t \in Of(t.server, t.kind)
    BY <2>2
  <2> HIDE DEF Of
  <2>4. t \in UNION {Of(s, k) : s \in servers, k \in kinds}
    BY <1>3, <2>3
  <2>5. QED
    BY <2>4 DEF Proxy!Matches, Of
<1>4. QED
  BY <1>2, <1>3

\* Where nothing matches by its displayed name, nothing is displayed so.
LEMMA NothingDisplayed ==
  ASSUME NEW servers \in SUBSET Server, NEW known \in Listings, Proxy!Matches(servers, {"displayed"}, known) = {},
         NEW s \in servers
  PROVE  known[s]["displayed"] = 0
<1> DEFINE t == [server |-> s, kind |-> "displayed", nth |-> 1]
<1>1. "displayed" \in Proxy!Kinds /\ {"displayed"} \in SUBSET Proxy!Kinds
  BY DEF Proxy!Kinds
<1>2. known[s]["displayed"] \in 0..2
  BY <1>1 DEF Listings, Proxy!Listing
<1>3. t \in Proxy!Tools
  BY <1>1 DEF Proxy!Tools
<1>4. t \notin Proxy!Matches(servers, {"displayed"}, known)
  OBVIOUS
<1>5. ~(1 \in 1..known[s]["displayed"])
  BY <1>1, <1>3, <1>4, MatchesAre
<1>6. QED
  BY <1>2, <1>5

\* What a server offers for the name.
LEMMA OnServerIs ==
  ASSUME NEW s \in Server, NEW known \in Listings
  PROVE  /\ Proxy!OnServer(s, known) \subseteq Proxy!Tools
         /\ \A t \in Proxy!OnServer(s, known) :
              t.server = s /\ (t.kind # "displayed" => known[s]["displayed"] = 0)
<1>1. {s} \in SUBSET Server /\ {"displayed"} \in SUBSET Proxy!Kinds /\ Proxy!Kinds \in SUBSET Proxy!Kinds
  BY DEF Proxy!Kinds
<1>2. CASE Proxy!Matches({s}, {"displayed"}, known) # {}
  <2>1. Proxy!OnServer(s, known) = Proxy!Matches({s}, {"displayed"}, known)
    BY <1>2 DEF Proxy!OnServer
  <2>2. QED
    BY <1>1, <2>1, MatchesAre
<1>3. CASE Proxy!Matches({s}, {"displayed"}, known) = {}
  <2>1. Proxy!OnServer(s, known) = Proxy!Matches({s}, Proxy!Kinds, known)
    BY <1>3 DEF Proxy!OnServer
  <2>2. known[s]["displayed"] = 0
    BY <1>1, <1>3, NothingDisplayed
  <2>3. QED
    BY <1>1, <2>1, <2>2, MatchesAre
<1>4. QED
  BY <1>2, <1>3

\* The listings of servers.
LEMMA KnownIs ==
  ASSUME server \in [Server -> Proxy!Servers]
  PROVE  Proxy!Known \in Listings /\ \A s \in Server : Proxy!Known[s] = server[s].known
BY DEF Proxy!Known, Proxy!Servers, Listings

\* A prefix names an enabled server.
LEMMA PrefixScopeIs ==
  ASSUME SomeServers, Proxy!PrefixScope # None
  PROVE  Proxy!PrefixScope \in Proxy!Enabled
<1> DEFINE longest == Proxy!Longest(Proxy!Prefixed)
<1>1. longest \subseteq Proxy!Enabled /\ Proxy!Enabled \subseteq Server
  BY DEF Proxy!Longest, Proxy!Prefixed, Proxy!Enabled
<1>2. IsFiniteSet(longest)
  BY <1>1, FS_Subset DEF SomeServers
<1>3. Proxy!Unique(longest) /\ Proxy!PrefixScope = Proxy!The(longest)
  BY DEF Proxy!PrefixScope
<1> HIDE DEF longest
<1>4. longest = {Proxy!The(longest)}
  BY <1>2, <1>3, UniqueIs
<1>5. QED
  BY <1>1, <1>3, <1>4

\* A tool that is looked up is an enabled server's, under another form of the name only where none
\* displays it; and if it is the only one, no other server displays one.
LEMMA LookupIs ==
  ASSUME SomeServers, server \in [Server -> Proxy!Servers]
  PROVE  /\ Proxy!Lookup \subseteq Proxy!Tools
         /\ \A t \in Proxy!Lookup :
              /\ t.server \in Proxy!Enabled
              /\ t.kind # "displayed" => server[t.server].known["displayed"] = 0
              /\ Proxy!Lookup = {t} =>
                   {u.server : u \in Proxy!Matches(Proxy!Enabled, {"displayed"}, Proxy!Known)} \subseteq {t.server}
         /\ Proxy!Lookup = {} => Proxy!Matches(Proxy!Enabled, {"displayed"}, Proxy!Known) = {}
<1> DEFINE exact == Proxy!Matches(Proxy!Enabled, {"displayed"}, Proxy!Known)
           original == Proxy!Matches(Proxy!Enabled, {"original"}, Proxy!Known)
           rest == Proxy!Matches(Proxy!Enabled, {"spelt", "alias"}, Proxy!Known)
<1>1. /\ Proxy!Enabled \in SUBSET Server /\ Proxy!Known \in Listings /\ \A s \in Server : Proxy!Known[s] = server[s].known
      /\ {"displayed"} \in SUBSET Proxy!Kinds /\ {"original"} \in SUBSET Proxy!Kinds
      /\ {"spelt", "alias"} \in SUBSET Proxy!Kinds
  BY KnownIs DEF Proxy!Enabled, Proxy!Kinds
<1>2. /\ exact \subseteq Proxy!Tools /\ original \subseteq Proxy!Tools /\ rest \subseteq Proxy!Tools
      /\ \A t \in exact \cup original \cup rest : t.server \in Proxy!Enabled
      /\ \A t \in exact : t.kind = "displayed"
  BY <1>1, MatchesAre
<1>3. CASE exact # {}
  <2>1. Proxy!Lookup = exact
    BY <1>3 DEF Proxy!Lookup
  <2> HIDE DEF exact
  <2>2. QED
    BY <1>2, <1>3, <2>1 DEF exact
<1>4. CASE exact = {}
  <2>1. \A s \in Proxy!Enabled : server[s].known["displayed"] = 0
    BY <1>1, <1>4, NothingDisplayed
  <2>2. Proxy!Lookup \subseteq Proxy!Tools /\ \A t \in Proxy!Lookup : t.server \in Proxy!Enabled
    <3>1. CASE original # {}
      <4>1. Proxy!Lookup = original
        BY <1>4, <3>1 DEF Proxy!Lookup
      <4>2. QED
        BY <1>2, <4>1
    <3>2. CASE original = {} /\ Proxy!PrefixScope # None
      <4>1. Proxy!Lookup = Proxy!OnServer(Proxy!PrefixScope, Proxy!Known)
        BY <1>4, <3>2 DEF Proxy!Lookup
      <4>2. Proxy!PrefixScope \in Proxy!Enabled
        BY <3>2, PrefixScopeIs
      <4>3. QED
        BY <1>1, <4>1, <4>2, OnServerIs
    <3>3. CASE original = {} /\ Proxy!PrefixScope = None
      <4>1. Proxy!Lookup = rest
        BY <1>4, <3>3 DEF Proxy!Lookup
      <4>2. QED
        BY <1>2, <4>1
    <3>4. QED
      BY <3>1, <3>2, <3>3
  <2>3. QED
    BY <1>4, <2>1, <2>2
<1>5. QED
  BY <1>3, <1>4

\* What describe shows is what a call reaches, or one of the exceptions.
LEMMA DescribedAreCalled ==
  ASSUME SomeServers, server \in [Server -> Proxy!Servers]
  PROVE  Proxy!DescribedIsCalled
<1> DEFINE exact == Proxy!Matches(Proxy!Enabled, {"displayed"}, Proxy!Known)
           original == Proxy!Matches(Proxy!Enabled, {"original"}, Proxy!Known)
           rest == Proxy!Matches(Proxy!Enabled, {"spelt", "alias"}, Proxy!Known)
           By(kind) == Proxy!Matches(Proxy!Offered, {kind}, Proxy!Known)
<1>1. /\ Proxy!Enabled \in SUBSET Server /\ Proxy!Offered \in SUBSET Proxy!Enabled /\ Proxy!Known \in Listings
      /\ Proxy!Offered \in SUBSET Server
      /\ {"displayed"} \in SUBSET Proxy!Kinds /\ {"original"} \in SUBSET Proxy!Kinds
      /\ {"spelt"} \in SUBSET Proxy!Kinds /\ {"spelt", "alias"} \in SUBSET Proxy!Kinds
  BY KnownIs DEF Proxy!Enabled, Proxy!Offered, Proxy!Kinds
<1>2. SUFFICES ASSUME Proxy!Unique(Proxy!Described), \A t \in Proxy!Lookup : ~Proxy!InBackoff(t.server),
                      ~(Proxy!Cardinality(Proxy!Lookup) > 1),
                      ~(Proxy!The(Proxy!Described).kind = "spelt" /\ Proxy!PrefixScope # None)
               PROVE  Proxy!Lookup = Proxy!Described
  BY DEF Proxy!DescribedIsCalled
<1>3. \A s \in Proxy!Enabled : ~Proxy!InBackoff(s) => s \in Proxy!Offered
  BY DEF Proxy!Offered
<1>4. /\ exact \subseteq Proxy!Tools /\ original \subseteq Proxy!Tools /\ rest \subseteq Proxy!Tools
      /\ By("displayed") \subseteq exact /\ By("original") \subseteq original /\ By("spelt") \subseteq rest
      /\ By("spelt") \subseteq Proxy!Tools /\ \A t \in By("spelt") : t.kind = "spelt"
      /\ \A t \in exact : t.server \in Proxy!Enabled /\ (t.server \in Proxy!Offered => t \in By("displayed"))
      /\ \A t \in original : t.server \in Proxy!Enabled /\ (t.server \in Proxy!Offered => t \in By("original"))
  BY <1>1, MatchesAre
<1>5. Proxy!Described = IF By("displayed") # {} THEN By("displayed")
                        ELSE IF By("original") # {} THEN By("original") ELSE By("spelt")
  BY DEF Proxy!Described
<1>6. Proxy!Lookup = IF exact # {} THEN exact ELSE IF original # {} THEN original
                     ELSE IF Proxy!PrefixScope # None THEN Proxy!OnServer(Proxy!PrefixScope, Proxy!Known) ELSE rest
  BY DEF Proxy!Lookup
<1> HIDE DEF exact, original, rest, By
<1>7. CASE exact # {}
  <2>1. exact = By("displayed")
    BY <1>2, <1>3, <1>4, <1>6, <1>7
  <2>2. QED
    BY <1>5, <1>6, <1>7, <2>1
<1>8. CASE exact = {} /\ original # {}
  <2>1. original = By("original") /\ By("displayed") = {}
    BY <1>2, <1>3, <1>4, <1>6, <1>8
  <2>2. QED
    BY <1>5, <1>6, <1>8, <2>1
<1>9. CASE exact = {} /\ original = {}
  <2>1. Proxy!Described = By("spelt")
    BY <1>4, <1>5, <1>9
  <2>2. IsFiniteSet(By("spelt")) /\ IsFiniteSet(rest)
    BY <1>4, ToolsAreFinite, FS_Subset
  <2>3. By("spelt") = {Proxy!The(By("spelt"))}
    BY <1>2, <2>1, <2>2, UniqueIs
  <2>4. Proxy!PrefixScope = None
    BY <1>2, <1>4, <2>1, <2>3
  <2>5. Proxy!Lookup = rest
    BY <1>6, <1>9, <2>4
  <2>6. Cardinality(rest) <= 1
    <3>1. Cardinality(rest) \in Nat /\ ~(Cardinality(rest) > 1)
      BY <1>2, <2>2, <2>5, ProxyCount, FS_CardinalityType
    <3>2. QED
      BY <3>1
  <2>7. Cardinality(By("spelt")) = 1
    BY <1>2, <2>1, ProxyCount DEF Proxy!Unique
  <2>8. Cardinality(By("spelt")) = Cardinality(rest)
    <3>1. Cardinality(By("spelt")) <= Cardinality(rest) /\ Cardinality(rest) \in Nat
      BY <1>4, <2>2, FS_Subset, FS_CardinalityType
    <3>2. QED
      BY <2>6, <2>7, <3>1
  <2>9. By("spelt") = rest
    BY <1>4, <2>2, <2>8, FS_Subset
  <2>10. QED
    BY <2>1, <2>5, <2>9
<1>10. QED
  BY <1>7, <1>8, <1>9

-----------------------------------------------------------------------------
(* ProxyCalls: calls *)

Fits(r, known) == r \in Proxy!Calls /\ Proxy!CallHolds(r, known)

\* A call that may go on: it signed in once at most, and keeps to what it was asked for.
May(r, known) ==
  /\ r \in Proxy!Calls /\ (r.attempted => r.signIns <= 1) /\ (~r.attempted => r.signIns = 0)
  /\ r.next = "loop" => Proxy!Finds(r, known)

\* What the fields of a call are.
LEMMA CallFields ==
  ASSUME NEW r \in Proxy!Calls
  PROVE  /\ r.at \in {"free", "loop", "connecting", "auth", "signedIn", "dialog", "running"}
         /\ r.next \in {"scoped", "loop", "direct", "again", "connect"}
         /\ r.scope \in Server \cup {None} /\ r.server \in Server \cup {None} /\ r.tool \in Proxy!Tools \cup {Proxy!NoTool}
         /\ r.attempted \in BOOLEAN /\ r.signIns \in Nat /\ r.todo \in SUBSET Server /\ r.exact \in SUBSET Proxy!Tools
         /\ r.other \in SUBSET Proxy!Tools /\ r.retried \in BOOLEAN /\ r.rivals \in SUBSET Server
BY DEF Proxy!Calls

\* What a call finds is about its own finds, not about where it waits.
LEMMA SameFinds ==
  ASSUME NEW r, NEW q, NEW known, Proxy!Finds(r, known), q.scope = r.scope, q.rivals = r.rivals,
         q.todo \subseteq r.todo, q.exact = r.exact, q.other = r.other
  PROVE  Proxy!Finds(q, known)
BY DEF Proxy!Finds

\* What is meant is about the server and the scope.
LEMMA SameMeans ==
  ASSUME NEW r, NEW q, NEW known, Proxy!Means(r, known), q.server = r.server, q.next = r.next,
         q.scope = r.scope, q.rivals = r.rivals, q.todo \subseteq r.todo, q.exact = r.exact, q.other = r.other
  PROVE  Proxy!Means(q, known)
BY SameFinds DEF Proxy!Means

\* A free call asks for nothing.
LEMMA FreeFits ==
  ASSUME NEW known
  PROVE  Fits(Proxy!Free, known) /\ Proxy!Free.at = "free"
<1>1. Proxy!Free \in Proxy!Calls
  BY DEF Proxy!Free, Proxy!Calls
<1>2. QED
  BY <1>1 DEF Fits, Proxy!Free, Proxy!CallHolds

\* A call that waits where it may.
LEMMA PlaceFits ==
  ASSUME NEW r, NEW known, May(r, known), NEW place \in {"loop", "connecting", "dialog", "running"},
         place = "loop" => r.next = "loop", place = "connecting" => Proxy!Means(r, known),
         place \in {"dialog", "running"} => r.server \in Server
  PROVE  /\ Fits([r EXCEPT !.at = place], known) /\ [r EXCEPT !.at = place].at = place
         /\ [r EXCEPT !.at = place].server = r.server /\ [r EXCEPT !.at = place].next = r.next
<1> DEFINE q == [r EXCEPT !.at = place]
<1>1. r \in Proxy!Calls
  BY DEF May
<1>2. /\ q \in Proxy!Calls /\ q.at = place /\ q.server = r.server /\ q.next = r.next /\ q.scope = r.scope /\ q.rivals = r.rivals
      /\ q.todo = r.todo /\ q.exact = r.exact /\ q.other = r.other /\ q.attempted = r.attempted /\ q.signIns = r.signIns
  BY <1>1 DEF Proxy!Calls
<1> HIDE DEF q
<1>3. place = "loop" => Proxy!Finds(q, known)
  BY <1>2, SameFinds DEF May
<1>4. place = "connecting" => Proxy!Means(q, known)
  BY <1>2, SameMeans
<1>5. Fits(q, known)
  BY <1>2, <1>3, <1>4 DEF Fits, Proxy!CallHolds, May
<1>6. QED
  BY <1>2, <1>5 DEF q

\* A call gives up, or asks the user to sign in.
LEMMA GivesUpFits ==
  ASSUME NEW r, NEW known, May(r, known)
  PROVE  Fits(Proxy!GivesUp(r), known) /\ Proxy!GivesUp(r).at \in {"free", "loop"}
BY FreeFits, PlaceFits DEF Proxy!GivesUp

\* It asks only if it has not asked before.
LEMMA SignsInFits ==
  ASSUME NEW r, NEW known, May(r, known), Proxy!Means(r, known)
  PROVE  Fits(Proxy!SignsIn(r), known) /\ Proxy!SignsIn(r).at \in {"free", "loop", "auth"}
<1>1. CASE r.attempted
  BY <1>1, GivesUpFits DEF Proxy!SignsIn
<1>2. CASE ~r.attempted
  <2> DEFINE q == [r EXCEPT !.at = "auth", !.attempted = TRUE]
  <2>1. Proxy!SignsIn(r) = q
    BY <1>2 DEF Proxy!SignsIn
  <2>2. r \in Proxy!Calls
    BY DEF May
  <2>3. /\ q \in Proxy!Calls /\ q.at = "auth" /\ q.server = r.server /\ q.next = r.next /\ q.scope = r.scope /\ q.rivals = r.rivals
        /\ q.todo = r.todo /\ q.exact = r.exact /\ q.other = r.other /\ q.attempted = TRUE /\ q.signIns = r.signIns
    BY <2>2 DEF Proxy!Calls
  <2> HIDE DEF q
  <2>4. Proxy!Means(q, known)
    BY <2>3, SameMeans
  <2>5. r.signIns = 0
    BY <1>2 DEF May
  <2>6. QED
    BY <2>1, <2>3, <2>4, <2>5 DEF Fits, Proxy!CallHolds
<1>3. QED
  BY <1>1, <1>2 DEF May, Proxy!Calls

\* A call connects lazily.
LEMMA LazilyFits ==
  ASSUME NEW r, NEW known, NEW s, May(r, known), Proxy!Means(r, known)
  PROVE  /\ Fits(Proxy!Lazily(r, s), known) /\ Proxy!Lazily(r, s).at \in {"free", "loop", "auth", "connecting"}
         /\ Proxy!Lazily(r, s).at = "connecting" =>
              Proxy!Lazily(r, s).server = r.server /\ (s.status = "connected" \/ ~s.failed)
<1>1. CASE s.status = "needs-auth"
  <2>1. Proxy!Lazily(r, s) = Proxy!SignsIn(r)
    BY <1>1 DEF Proxy!Lazily
  <2>2. QED
    BY <2>1, SignsInFits
<1>2. CASE s.status # "needs-auth" /\ (s.status = "connected" \/ (~s.failed /\ s.on))
  <2> DEFINE q == [r EXCEPT !.at = "connecting"]
  <2>1. Proxy!Lazily(r, s) = q
    BY <1>2 DEF Proxy!Lazily
  <2>2. Fits(q, known) /\ q.at = "connecting" /\ q.server = r.server
    BY PlaceFits
  <2> HIDE DEF q
  <2>3. QED
    BY <1>2, <2>1, <2>2
<1>3. CASE s.status # "needs-auth" /\ ~(s.status = "connected" \/ (~s.failed /\ s.on))
  <2>1. Proxy!Lazily(r, s) = Proxy!GivesUp(r)
    BY <1>3 DEF Proxy!Lazily
  <2>2. QED
    BY <2>1, GivesUpFits
<1>4. QED
  BY <1>1, <1>2, <1>3

\* The server of a chosen tool is the one that is meant.
Chooses(r, known) ==
  /\ r.server \in Server /\ known[r.server].on
  /\ IF r.scope = None THEN r.rivals \subseteq {r.server} ELSE r.server = r.scope

\* A call goes on with the tool it chose.
LEMMA DirectlyFits ==
  ASSUME NEW r, NEW known, NEW s, r \in Proxy!Calls, (r.attempted => r.signIns <= 1) /\ (~r.attempted => r.signIns = 0),
         r.next = "loop" => Proxy!Finds(r, known), Chooses(r, known)
  PROVE  /\ Fits(Proxy!Directly(r, s), known) /\ Proxy!Directly(r, s).at \in {"free", "loop", "auth", "connecting", "dialog"}
         /\ Proxy!Directly(r, s).at = "connecting" =>
              Proxy!Directly(r, s).server = r.server /\ (s.status = "connected" \/ ~s.failed)
         /\ Proxy!Directly(r, s).at = "dialog" => Proxy!Directly(r, s) = [r EXCEPT !.at = "dialog"]
<1>1. CASE s.status = "connected"
  <2> DEFINE q == [r EXCEPT !.at = "dialog"]
  <2>1. Proxy!Directly(r, s) = q
    BY <1>1 DEF Proxy!Directly
  <2>2. May(r, known) /\ r.server \in Server
    BY DEF May, Chooses
  <2>3. Fits(q, known) /\ q.at = "dialog"
    BY <2>2, PlaceFits
  <2>4. Proxy!Directly(r, s) = q /\ Proxy!Directly(r, s).at = "dialog" /\ Fits(Proxy!Directly(r, s), known)
    BY <2>1, <2>3
  <2>5. QED
    BY <2>4
<1>2. CASE s.status # "connected"
  <2> DEFINE q == [r EXCEPT !.next = "direct"]
  <2>1. Proxy!Directly(r, s) = Proxy!Lazily(q, s)
    BY <1>2 DEF Proxy!Directly
  <2>2. /\ q \in Proxy!Calls /\ q.server = r.server /\ q.next = "direct" /\ q.scope = r.scope /\ q.rivals = r.rivals
        /\ q.attempted = r.attempted /\ q.signIns = r.signIns
    BY DEF Proxy!Calls
  <2> HIDE DEF q
  <2>3. May(q, known) /\ Proxy!Means(q, known)
    BY <2>2 DEF May, Proxy!Means, Chooses
  <2>4. QED
    BY <2>1, <2>2, <2>3, LazilyFits
<1>3. QED
  BY <1>1, <1>2

-----------------------------------------------------------------------------
(* ProxyCalls: steps *)

\* A server stays enabled or not and lists what it has, once it is listed.
ServersTurn ==
  /\ server' \in [Server -> Proxy!Servers]
  /\ \A s \in Server : /\ server'[s].on = server[s].on /\ server'[s].real = server[s].real
                       /\ server'[s].known = server[s].known \/ server'[s].known = server[s].real

\* What the tool of a call must be when it is chosen, and the server it connects to.
ToolFits(r) ==
  LET t == r.tool IN
  /\ server[t.server].on /\ t.server = r.server
  /\ IF r.scope # None THEN t.server = r.scope ELSE r.rivals \subseteq {t.server}
  /\ t.kind # "displayed" => server'[t.server].known["displayed"] = 0
MayConnect(r) ==
  LET s == server[r.server] IN s.status = "connected" \/ ~s.failed \/ r.next = "connect"

\* A step of one call.
Turns(c, r) ==
  /\ Fits(r, server')
  /\ r.at = "dialog" => calls[c].at = "dialog" \/ ToolFits(r)
  /\ r.at = "connecting" => calls[c].at \in {"connecting", "signedIn"} \/ MayConnect(r)

\* The parts of the invariant.
LEMMA ProxyParts ==
  ASSUME Proxy!ProxyInv
  PROVE  /\ server \in [Server -> Proxy!Servers] /\ calls \in [Caller -> Proxy!Calls]
         /\ watch \in [Server -> {"new", "no", "waiting", "closing", "checking"}]
         /\ \A c \in Caller : Fits(calls[c], server)
         /\ Proxy!BeginsUnset /\ Proxy!SignedInIsUsable
BY DEF Proxy!ProxyInv, Proxy!TypeOK, Fits

\* What servers do leaves a call what it may be.
LEMMA FitsStays ==
  ASSUME SomeServers, server \in [Server -> Proxy!Servers], ServersTurn, NEW r, Fits(r, server)
  PROVE  Fits(r, server')
<1>1. /\ r.server \in Server \cup {None} /\ r.todo \subseteq Server
      /\ r.exact \subseteq Proxy!Tools /\ r.other \subseteq Proxy!Tools
  BY CallFields DEF Fits
<1>2. \A t \in Proxy!Tools : t.server \in Server
  BY DEF Proxy!Tools
<1>3. ASSUME Proxy!Finds(r, server) PROVE Proxy!Finds(r, server')
  <2>1. /\ r.scope = None /\ r.rivals = {} /\ \A s \in r.todo : server'[s].on
        /\ \A t \in r.exact \cup r.other : server'[t.server].on
        /\ \A t \in r.exact : t.kind = "displayed"
    BY <1>1, <1>2, <1>3 DEF Proxy!Finds, ServersTurn
  <2>2. \A t \in r.other : /\ server'[t.server].known = server'[t.server].real
                           /\ server'[t.server].real["displayed"] = 0
    BY <1>1, <1>2, <1>3 DEF Proxy!Finds, ServersTurn
  <2>3. QED
    BY <2>1, <2>2 DEF Proxy!Finds
<1>4. ASSUME Proxy!Means(r, server) PROVE Proxy!Means(r, server')
  BY <1>3, <1>4 DEF Proxy!Means, ServersTurn
<1>5. QED
  BY <1>3, <1>4 DEF Fits, Proxy!CallHolds

\* Nothing but a beginning begins.
LEMMA StaysBegun ==
  ASSUME Proxy!BeginsUnset, ~Proxy!New, \A s \in Server : watch[s] # "new" => watch'[s] # "new"
  PROVE  Proxy!BeginsUnset' /\ ~Proxy!New'
BY DEF Proxy!BeginsUnset, Proxy!New

\* A call has begun only with the session.
LEMMA HasBegun ==
  ASSUME Proxy!ProxyInv, NEW c \in Caller, calls[c].at # "free"
  PROVE  ~Proxy!New
<1>1. SUFFICES ASSUME Proxy!New PROVE FALSE
  OBVIOUS
<1>2. calls[c] = Proxy!Free
  BY <1>1, ProxyParts DEF Proxy!BeginsUnset
<1>3. QED
  BY <1>2, FreeFits

\* Before the session starts, servers are as they are made.
LEMMA IsUnset ==
  ASSUME Proxy!ProxyInv, NEW s \in Server, server[s].busy \/ server[s].status # "none" \/ server[s].failed
  PROVE  ~Proxy!New
<1>1. SUFFICES ASSUME Proxy!New PROVE FALSE
  OBVIOUS
<1>2. server[s] = Proxy!Unset
  BY <1>1, ProxyParts DEF Proxy!BeginsUnset
<1>3. QED
  BY <1>2 DEF Proxy!Unset

\* A call's step keeps the invariant.
LEMMA CallTurns ==
  ASSUME SomeServers, Proxy!ProxyInv, ~Proxy!New, NEW c \in Caller, NEW r, calls' = [calls EXCEPT ![c] = r],
         Turns(c, r), ServersTurn, watch' = watch, Proxy!SignedInIsUsable'
  PROVE  Proxy!ProxyInv'
<1>1. calls' \in [Caller -> Proxy!Calls] /\ calls'[c] = r /\ \A d \in Caller \ {c} : calls'[d] = calls[d]
  BY ProxyParts DEF Turns, Fits
<1>2. \A d \in Caller : Fits(calls'[d], server')
  BY <1>1, ProxyParts, FitsStays DEF Turns
<1>3. Proxy!BeginsUnset'
  BY ProxyParts, StaysBegun
<1>4. Proxy!TypeOK'
  BY <1>1, ProxyParts DEF Proxy!TypeOK, ServersTurn
<1>5. QED
  BY <1>2, <1>3, <1>4 DEF Proxy!ProxyInv, Fits

\* A step of a call that leaves the servers alone.
LEMMA QuietTurns ==
  ASSUME SomeServers, Proxy!ProxyInv, ~Proxy!New, NEW c \in Caller, NEW r, calls' = [calls EXCEPT ![c] = r],
         Turns(c, r), server' = server, watch' = watch, calls[c].at # "signedIn"
  PROVE  Proxy!ProxyInv'
<1>1. ServersTurn
  BY ProxyParts DEF ServersTurn
<1>2. \A d \in Caller : calls[d].at = "signedIn" => calls'[d] = calls[d]
  BY ProxyParts
<1>3. Proxy!SignedInIsUsable'
  BY <1>2, ProxyParts DEF Proxy!SignedInIsUsable
<1>4. QED
  BY <1>1, <1>3, CallTurns

\* One that changes the server it is about.
LEMMA ServerTurns ==
  ASSUME SomeServers, Proxy!ProxyInv, ~Proxy!New, NEW c \in Caller, NEW r, calls' = [calls EXCEPT ![c] = r],
         Turns(c, r), NEW s \in Server, NEW now \in Proxy!Servers, server' = [server EXCEPT ![s] = now], watch' = watch,
         now.on = server[s].on, now.real = server[s].real, now.known = server[s].known \/ now.known = server[s].real,
         calls[c].at = "signedIn" => calls[c].server = s,
         \/ ~(now.token /\ now.status = "needs-auth")
         \/ r.at = "signedIn" /\ r.server = s
         \/ now.status = server[s].status /\ now.token = server[s].token /\ calls[c].at # "signedIn"
  PROVE  Proxy!ProxyInv'
<1>1. /\ server' \in [Server -> Proxy!Servers] /\ server'[s] = now
      /\ \A o \in Server \ {s} : server'[o] = server[o]
  BY ProxyParts
<1>2. ServersTurn
  BY <1>1 DEF ServersTurn
<1>3. calls'[c] = r /\ \A d \in Caller \ {c} : calls'[d] = calls[d]
  BY ProxyParts
<1>4. Proxy!SignedInIsUsable'
  <2> SUFFICES ASSUME NEW o \in Server, server'[o].token, server'[o].status = "needs-auth"
               PROVE  watch'[o] = "closing" \/ \E d \in Caller : calls'[d].at = "signedIn" /\ calls'[d].server = o
    BY DEF Proxy!SignedInIsUsable
  <2>1. CASE o = s
    <3>1. CASE now.status = server[s].status /\ now.token = server[s].token /\ calls[c].at # "signedIn"
      <4>1. watch[s] = "closing" \/ \E d \in Caller : calls[d].at = "signedIn" /\ calls[d].server = s
        BY <1>1, <2>1, <3>1, ProxyParts DEF Proxy!SignedInIsUsable
      <4>2. QED
        BY <1>3, <2>1, <3>1, <4>1
    <3>2. QED
      BY <1>1, <1>3, <2>1, <3>1
  <2>2. CASE o # s
    <3>1. watch[o] = "closing" \/ \E d \in Caller : calls[d].at = "signedIn" /\ calls[d].server = o
      BY <1>1, <2>2, ProxyParts DEF Proxy!SignedInIsUsable
    <3>2. QED
      BY <1>3, <2>2, <3>1
  <2>3. QED
    BY <2>1, <2>2
<1>5. QED
  BY <1>2, <1>4, CallTurns

\* What an action keeps: the invariant, and what a step of a call is.
StepKeeps ==
  /\ Proxy!ProxyInv'
  /\ calls' = calls \/ \E c \in Caller : \E r : calls' = [calls EXCEPT ![c] = r] /\ Turns(c, r)

\* A step that is not a call's.
LEMMA Elsewhere ==
  ASSUME SomeServers, Proxy!ProxyInv, ~Proxy!New, calls' = calls, NEW s \in Server, NEW now \in Proxy!Servers,
         NEW w \in {"no", "waiting", "closing", "checking"},
         server' = [server EXCEPT ![s] = now], watch' = [watch EXCEPT ![s] = w],
         now.on = server[s].on, now.real = server[s].real, now.known = server[s].known \/ now.known = server[s].real,
         \/ ~(now.token /\ now.status = "needs-auth")
         \/ w = "closing"
         \/ now.status = server[s].status /\ now.token = server[s].token /\ watch[s] # "closing"
  PROVE  StepKeeps
<1>1. /\ server' \in [Server -> Proxy!Servers] /\ server'[s] = now
      /\ \A o \in Server \ {s} : server'[o] = server[o]
  BY ProxyParts
<1>2. ServersTurn
  BY <1>1 DEF ServersTurn
<1>3. /\ watch' \in [Server -> {"new", "no", "waiting", "closing", "checking"}] /\ watch'[s] = w
      /\ \A o \in Server \ {s} : watch'[o] = watch[o]
  BY ProxyParts
<1>4. Proxy!SignedInIsUsable'
  <2> SUFFICES ASSUME NEW o \in Server, server'[o].token, server'[o].status = "needs-auth"
               PROVE  watch'[o] = "closing" \/ \E d \in Caller : calls'[d].at = "signedIn" /\ calls'[d].server = o
    BY DEF Proxy!SignedInIsUsable
  <2>1. CASE o = s /\ ~(now.status = server[s].status /\ now.token = server[s].token /\ watch[s] # "closing")
    BY <1>1, <1>3, <2>1
  <2>2. CASE o # s \/ (now.status = server[s].status /\ now.token = server[s].token /\ watch[s] # "closing")
    <3>1. watch[o] = "closing" \/ \E d \in Caller : calls[d].at = "signedIn" /\ calls[d].server = o
      BY <1>1, <2>2, ProxyParts DEF Proxy!SignedInIsUsable
    <3>2. QED
      BY <1>3, <2>2, <3>1
  <2>3. QED
    BY <2>1, <2>2
<1>5. \A d \in Caller : Fits(calls'[d], server')
  BY <1>2, ProxyParts, FitsStays
<1>6. Proxy!BeginsUnset'
  BY <1>3, ProxyParts, StaysBegun
<1>7. Proxy!TypeOK'
  BY <1>1, <1>3, ProxyParts DEF Proxy!TypeOK
<1>8. QED
  BY <1>4, <1>5, <1>6, <1>7 DEF StepKeeps, Proxy!ProxyInv, Fits

\* The fields of a server.
LEMMA ServerFields ==
  ASSUME NEW n \in Proxy!Servers
  PROVE  /\ n.real \in Proxy!Listing /\ n.known \in Proxy!Listing /\ n.on \in BOOLEAN
         /\ n.status \in {"none", "connected", "needs-auth"} /\ n.failed \in BOOLEAN /\ n.token \in BOOLEAN
         /\ n.busy \in BOOLEAN
BY DEF Proxy!Servers

\* A tool that is offered can be called.
LEMMA OfferedAreCallable ==
  ASSUME server \in [Server -> Proxy!Servers]
  PROVE  Proxy!OfferedIsCallable
<1> SUFFICES ASSUME NEW s \in Proxy!Offered
             PROVE  Proxy!Directly([Proxy!Free EXCEPT !.server = s], server[s]).at \in {"dialog", "connecting", "auth"}
  BY DEF Proxy!OfferedIsCallable
<1> DEFINE r == [Proxy!Free EXCEPT !.server = s]
           q == [r EXCEPT !.next = "direct"]
<1>1. s \in Server /\ server[s].on /\ ~Proxy!InBackoff(s) /\ server[s] \in Proxy!Servers
  BY DEF Proxy!Offered, Proxy!Enabled
<1>2. /\ [r EXCEPT !.at = "dialog"].at = "dialog" /\ q.attempted = FALSE
      /\ [q EXCEPT !.at = "connecting"].at = "connecting"
      /\ [q EXCEPT !.at = "auth", !.attempted = TRUE].at = "auth"
  BY DEF Proxy!Free
<1> HIDE DEF q, r
<1>3. CASE server[s].status = "connected"
  <2>1. Proxy!Directly(r, server[s]) = [r EXCEPT !.at = "dialog"]
    BY <1>3 DEF Proxy!Directly
  <2>2. QED
    BY <1>2, <2>1 DEF r
<1>4. CASE server[s].status = "needs-auth"
  <2>1. Proxy!Directly(r, server[s]) = Proxy!SignsIn(q)
    BY <1>4 DEF Proxy!Directly, Proxy!Lazily, q
  <2>2. Proxy!SignsIn(q) = [q EXCEPT !.at = "auth", !.attempted = TRUE]
    BY <1>2 DEF Proxy!SignsIn
  <2>3. QED
    BY <1>2, <2>1, <2>2 DEF r
<1>5. CASE server[s].status = "none"
  <2>1. ~server[s].failed
    BY <1>1, <1>5 DEF Proxy!InBackoff
  <2>2. Proxy!Directly(r, server[s]) = [q EXCEPT !.at = "connecting"]
    BY <1>1, <1>5, <2>1 DEF Proxy!Directly, Proxy!Lazily, q
  <2>3. QED
    BY <1>2, <2>2 DEF r
<1>6. QED
  BY <1>1, <1>3, <1>4, <1>5, ServerFields

\* Listings that a session starts with are listings.
LEMMA ListingsAre ==
  /\ Proxy!Nothing \in Proxy!Listing /\ [Proxy!Nothing EXCEPT !.original = 2] \in Proxy!Listing
  /\ \A k \in Proxy!Kinds : Proxy!Only(k) \in Proxy!Listing
  /\ [Proxy!Only("displayed") EXCEPT !.alias = 1] \in Proxy!Listing
<1>1. Proxy!Nothing \in Proxy!Listing
  BY DEF Proxy!Nothing, Proxy!Listing
<1>2. {"displayed", "original", "alias"} \subseteq Proxy!Kinds /\ {0, 1, 2} \subseteq 0..2
  BY DEF Proxy!Kinds
<1>3. [Proxy!Nothing EXCEPT !.original = 2] \in Proxy!Listing
  <2> DEFINE l == Proxy!Nothing
  <2> HIDE DEF l
  <2>1. l \in [Proxy!Kinds -> 0..2]
    BY <1>1 DEF l, Proxy!Listing
  <2>2. [l EXCEPT !["original"] = 2] \in [Proxy!Kinds -> 0..2]
    BY <1>2, <2>1
  <2>3. QED
    BY <2>2 DEF l, Proxy!Listing
<1>4. ASSUME NEW k \in Proxy!Kinds PROVE Proxy!Only(k) \in Proxy!Listing
  <2> DEFINE l == Proxy!Nothing
  <2> HIDE DEF l
  <2>1. l \in [Proxy!Kinds -> 0..2]
    BY <1>1 DEF l, Proxy!Listing
  <2>2. [l EXCEPT ![k] = 1] \in [Proxy!Kinds -> 0..2]
    BY <1>2, <2>1
  <2>3. QED
    BY <2>2 DEF l, Proxy!Listing, Proxy!Only
<1>5. [Proxy!Only("displayed") EXCEPT !.alias = 1] \in Proxy!Listing
  <2> DEFINE l == Proxy!Only("displayed")
  <2> HIDE DEF l
  <2>1. l \in [Proxy!Kinds -> 0..2]
    BY <1>2, <1>4 DEF l, Proxy!Listing
  <2>2. [l EXCEPT !["alias"] = 1] \in [Proxy!Kinds -> 0..2]
    BY <1>2, <2>1
  <2>3. QED
    BY <2>2 DEF l, Proxy!Listing
<1>6. QED
  BY <1>1, <1>3, <1>4, <1>5

\* A session starts with servers.
LEMMA UnsetIs ==
  /\ Proxy!Unset \in Proxy!Servers /\ Proxy!Unset.status = "none"
  /\ Proxy!Absent \in Proxy!Servers /\ Proxy!Absent.status = "none"
<1>1. Proxy!Unset \in Proxy!Servers /\ Proxy!Unset.status = "none"
  BY ListingsAre DEF Proxy!Unset, Proxy!Servers
<1>2. \A n \in Proxy!Servers : [n EXCEPT !.on = FALSE] \in Proxy!Servers /\ [n EXCEPT !.on = FALSE].status = n.status
  BY DEF Proxy!Servers
<1>3. QED
  BY <1>1, <1>2 DEF Proxy!Absent

\* Nothing has happened when the instance starts.
LEMMA ProxyBegins ==
  ASSUME SomeServers, Proxy!Init
  PROVE  Proxy!ProxyInv
<1>1. /\ \A s \in Server : server[s] = Proxy!Unset /\ watch[s] = "new"
      /\ \A c \in Caller : calls[c] = Proxy!Free
  BY DEF Proxy!Init
<1>2. \A c \in Caller : Fits(calls[c], server)
  BY <1>1, FreeFits
<1>3. Proxy!TypeOK
  BY <1>1, <1>2, UnsetIs DEF Proxy!Init, Proxy!TypeOK, Fits
<1>4. Proxy!BeginsUnset /\ Proxy!SignedInIsUsable
  BY <1>1, UnsetIs DEF Proxy!BeginsUnset, Proxy!SignedInIsUsable, Proxy!New, Proxy!Init
<1>5. QED
  BY <1>2, <1>3, <1>4 DEF Proxy!ProxyInv, Fits

\* Where a session starts, no server is signed in and refused.
LEMMA Starting ==
  ASSUME SomeServers, Proxy!ProxyInv, Proxy!New, NEW one \in Proxy!Servers, NEW two \in Proxy!Servers,
         Proxy!Begin(one, two), ~(one.token /\ one.status = "needs-auth"), ~(two.token /\ two.status = "needs-auth")
  PROVE  StepKeeps
<1>1. /\ server' \in [Server -> Proxy!Servers] /\ \A s \in Server : server'[s] = one \/ server'[s] = two
      /\ watch' \in [Server -> {"new", "no", "waiting", "closing", "checking"}] /\ \A s \in Server : watch'[s] = "no"
      /\ calls' = calls
  BY DEF Proxy!Begin
<1>2. \A c \in Caller : calls[c] = Proxy!Free
  BY ProxyParts DEF Proxy!BeginsUnset
<1>3. \A c \in Caller : Fits(calls'[c], server')
  BY <1>1, <1>2, FreeFits
<1>4. Proxy!TypeOK'
  BY <1>1, ProxyParts DEF Proxy!TypeOK
<1>5. Proxy!BeginsUnset' /\ Proxy!SignedInIsUsable'
  BY <1>1 DEF Proxy!BeginsUnset, Proxy!SignedInIsUsable, Proxy!New, SomeServers
<1>6. QED
  BY <1>1, <1>3, <1>4, <1>5 DEF StepKeeps, Proxy!ProxyInv, Fits

\* It starts with any names,
LEMMA BeginNamesKeeps ==
  ASSUME SomeServers, Proxy!ProxyInv, Proxy!BeginNames
  PROVE  StepKeeps
<1>1. PICK shown \in Proxy!Names, other \in Proxy!Names :
        \E one \in Proxy!Listed(shown), two \in Proxy!Listed(other) : Proxy!Begin(one, two)
  BY DEF Proxy!BeginNames
<1>2. ASSUME NEW n \in Proxy!Names, NEW m \in Proxy!Listed(n)
      PROVE  m \in Proxy!Servers /\ m.status = "none"
  <2>1. n \in Proxy!Servers /\ n.status = "none"
    <3>1. /\ n.real \in Proxy!Listing /\ n.known \in Proxy!Listing /\ n.prefix \in 0..2 /\ n.on \in BOOLEAN
          /\ n.status = "none" /\ n.failed \in BOOLEAN /\ n.token \in BOOLEAN /\ n.busy \in BOOLEAN
      <4> DEFINE reals == {Proxy!Nothing, [Proxy!Nothing EXCEPT !.original = 2],
                           [Proxy!Only("displayed") EXCEPT !.alias = 1]} \cup {Proxy!Only(k) : k \in Proxy!Kinds}
      <4>1. reals \subseteq Proxy!Listing
        BY ListingsAre
      <4>2. n \in [real : reals, known : {Proxy!Nothing}, prefix : 0..2, on : BOOLEAN, status : {"none"},
                    failed : BOOLEAN, token : {TRUE}, busy : {FALSE}]
        BY DEF Proxy!Names
      <4> HIDE DEF reals
      <4>3. n.token = TRUE /\ n.busy = FALSE /\ n.known = Proxy!Nothing
        BY <4>2
      <4>4. QED
        BY <4>1, <4>2, <4>3, ListingsAre
    <3>2. n = [real |-> n.real, known |-> n.known, prefix |-> n.prefix, on |-> n.on, status |-> n.status,
               failed |-> n.failed, token |-> n.token, busy |-> n.busy]
      BY DEF Proxy!Names
    <3>3. QED
      BY <3>1, <3>2 DEF Proxy!Servers
  <2>2. [n EXCEPT !.known = n.real] \in Proxy!Servers /\ [n EXCEPT !.known = n.real].status = "none"
    BY <2>1 DEF Proxy!Servers
  <2>3. QED
    BY <2>1, <2>2 DEF Proxy!Listed
<1>3. PICK one \in Proxy!Listed(shown), two \in Proxy!Listed(other) : Proxy!Begin(one, two)
  BY <1>1
<1>4. QED
  BY <1>2, <1>3, Starting DEF Proxy!BeginNames

\* or with one server in any state.
LEMMA BeginStatesKeeps ==
  ASSUME SomeServers, Proxy!ProxyInv, Proxy!BeginStates
  PROVE  StepKeeps
<1>1. PICK shown \in Proxy!States : Proxy!Begin(shown, Proxy!Absent)
  BY DEF Proxy!BeginStates
<1>2. Proxy!Only("displayed") \in Proxy!Listing /\ Proxy!Only("alias") \in Proxy!Listing /\ Proxy!Nothing \in Proxy!Listing
  BY ListingsAre DEF Proxy!Kinds
<1>3. shown \in Proxy!Servers /\ ~(shown.token /\ shown.status = "needs-auth")
  <2>1. /\ shown.real \in Proxy!Listing /\ shown.known \in Proxy!Listing /\ shown.prefix = 1 /\ shown.on \in BOOLEAN
        /\ shown.status \in {"none", "needs-auth", "connected"} /\ shown.failed \in BOOLEAN
        /\ shown.token \in BOOLEAN /\ shown.busy \in BOOLEAN
    BY <1>2 DEF Proxy!States
  <2>2. shown = [real |-> shown.real, known |-> shown.known, prefix |-> shown.prefix, on |-> shown.on,
                 status |-> shown.status, failed |-> shown.failed, token |-> shown.token, busy |-> shown.busy]
    BY DEF Proxy!States
  <2>3. shown.status = "needs-auth" => ~shown.token
    BY DEF Proxy!States
  <2>4. QED
    BY <2>1, <2>2, <2>3 DEF Proxy!Servers
<1>4. QED
  BY <1>1, <1>3, UnsetIs, Starting DEF Proxy!BeginStates

\* The servers and tools of a name that is about one tool.
LEMMA OneFound ==
  ASSUME SomeServers, NEW found, found \subseteq Proxy!Tools, found # {}, Proxy!Cardinality(found) <= 1
  PROVE  found = {Proxy!The(found)} /\ Proxy!The(found) \in Proxy!Tools
<1>1. IsFiniteSet(found)
  BY ToolsAreFinite, FS_Subset
<1>2. Cardinality(found) \in Nat /\ Cardinality(found) # 0 /\ Cardinality(found) <= 1
  BY <1>1, ProxyCount, FS_CardinalityType, FS_EmptySet
<1>3. Proxy!Unique(found)
  BY <1>2, ProxyCount DEF Proxy!Unique
<1>4. QED
  BY <1>1, <1>3, UniqueIs

\* A call with the tool it chose.
LEMMA ChosenIs ==
  ASSUME NEW r \in Proxy!Calls, NEW t \in Proxy!Tools
  PROVE  LET q == Proxy!Chosen(r, t) IN
         /\ q \in Proxy!Calls /\ q.tool = t /\ q.server = t.server /\ q.next = r.next /\ q.scope = r.scope
         /\ q.rivals = r.rivals /\ q.todo = r.todo /\ q.exact = r.exact /\ q.other = r.other
         /\ q.attempted = r.attempted /\ q.signIns = r.signIns
<1>1. t.server \in Server
  BY DEF Proxy!Tools
<1>2. QED
  BY <1>1 DEF Proxy!Chosen, Proxy!Calls

\* A call whose tool is chosen goes on with it.
LEMMA ChosenTurns ==
  ASSUME NEW c, NEW r \in Proxy!Calls, NEW t \in Proxy!Tools, server' = server,
         (r.attempted => r.signIns <= 1) /\ (~r.attempted => r.signIns = 0),
         r.next = "loop" => Proxy!Finds(r, server), server[t.server].on,
         IF r.scope = None THEN r.rivals \subseteq {t.server} ELSE t.server = r.scope,
         t.kind # "displayed" => server[t.server].known["displayed"] = 0
  PROVE  Turns(c, Proxy!Directly(Proxy!Chosen(r, t), server[t.server]))
<1> DEFINE q == Proxy!Chosen(r, t)
           d == Proxy!Directly(q, server[t.server])
<1>1. /\ q \in Proxy!Calls /\ q.tool = t /\ q.server = t.server /\ q.next = r.next /\ q.scope = r.scope
      /\ q.rivals = r.rivals /\ q.todo = r.todo /\ q.exact = r.exact /\ q.other = r.other
      /\ q.attempted = r.attempted /\ q.signIns = r.signIns
  BY ChosenIs
<1> HIDE DEF q
<1>2. t.server \in Server
  BY DEF Proxy!Tools
<1>3. Chooses(q, server) /\ (q.next = "loop" => Proxy!Finds(q, server))
  BY <1>1, <1>2, SameFinds DEF Chooses
<1>4. /\ Fits(d, server)
      /\ d.at = "connecting" => d.server = q.server /\ (server[t.server].status = "connected" \/ ~server[t.server].failed)
      /\ d.at = "dialog" => d = [q EXCEPT !.at = "dialog"]
  <2> DEFINE now == server[t.server]
  <2> HIDE DEF now
  <2>1. q \in Proxy!Calls /\ (q.attempted => q.signIns <= 1) /\ (~q.attempted => q.signIns = 0)
    BY <1>1
  <2>2. /\ Fits(Proxy!Directly(q, now), server)
        /\ Proxy!Directly(q, now).at = "connecting" =>
             Proxy!Directly(q, now).server = q.server /\ (now.status = "connected" \/ ~now.failed)
    BY <2>1, <1>3, DirectlyFits
  <2>3. Proxy!Directly(q, now).at = "dialog" => Proxy!Directly(q, now) = [q EXCEPT !.at = "dialog"]
    BY ONLY <2>1, <1>3, DirectlyFits
  <2>4. QED
    BY <2>2, <2>3 DEF now
<1> HIDE DEF d
<1>5. d.at = "connecting" => MayConnect(d)
  BY <1>1, <1>4 DEF MayConnect
<1>6. d.at = "dialog" => ToolFits(d)
  <2>1. [q EXCEPT !.at = "dialog"].tool = t /\ [q EXCEPT !.at = "dialog"].server = t.server
        /\ [q EXCEPT !.at = "dialog"].scope = r.scope /\ [q EXCEPT !.at = "dialog"].rivals = r.rivals
    BY <1>1 DEF Proxy!Calls
  <2>2. SUFFICES ASSUME d.at = "dialog" PROVE ToolFits(d)
    OBVIOUS
  <2>3. d.tool = t /\ d.server = t.server /\ d.scope = r.scope /\ d.rivals = r.rivals
    BY <1>4, <2>1, <2>2
  <2>4. QED
    BY <1>1, <2>3 DEF ToolFits
<1>7. Turns(c, d)
  BY <1>4, <1>5, <1>6 DEF Turns
<1>8. QED
  BY <1>7 DEF d, q

\* A call that is asked for.
LEMMA ExecuteKeeps ==
  ASSUME SomeServers, Proxy!ProxyInv, NEW c \in Caller, NEW scope \in Server \cup {None}, Proxy!Execute(c, scope)
  PROVE  StepKeeps
<1> DEFINE found == IF scope = None THEN Proxy!Lookup ELSE Proxy!OnServer(scope, Proxy!Known)
           aimed == IF scope = None THEN Proxy!PrefixScope ELSE scope
           shown == Proxy!Matches(Proxy!Enabled, {"displayed"}, Proxy!Known)
           rivals == {t.server : t \in shown}
           start == [Proxy!Free EXCEPT !.scope = scope, !.rivals = rivals]
           r == IF found # {}
                THEN Proxy!Directly(Proxy!Chosen(start, Proxy!The(found)), server[Proxy!The(found).server])
                ELSE IF aimed # None
                THEN Proxy!Lazily([start EXCEPT !.next = "scoped", !.server = aimed], server[aimed])
                ELSE [start EXCEPT !.at = "loop", !.todo = Proxy!Prefixed]
<1>1. /\ ~Proxy!New /\ calls[c].at = "free" /\ (scope # None => server[scope].on)
      /\ Proxy!Cardinality(found) <= 1 /\ calls' = [calls EXCEPT ![c] = r]
      /\ server' = server /\ watch' = watch
  BY DEF Proxy!Execute, Proxy!Becomes
<1>2. /\ server \in [Server -> Proxy!Servers] /\ Proxy!Known \in Listings
      /\ \A s \in Server : Proxy!Known[s] = server[s].known
      /\ Proxy!Enabled \in SUBSET Server /\ {"displayed"} \in SUBSET Proxy!Kinds
  BY ProxyParts, KnownIs DEF Proxy!Enabled, Proxy!Kinds
<1>3. rivals \in SUBSET Server
  BY <1>2, MatchesAre
<1>4. found \subseteq Proxy!Tools /\ \A t \in found :
        /\ t.server \in Server /\ server[t.server].on /\ (t.kind # "displayed" => server[t.server].known["displayed"] = 0)
        /\ scope # None => t.server = scope
        /\ scope = None /\ found = {t} => rivals \subseteq {t.server}
  <2>1. CASE scope = None
    BY <1>2, <2>1, LookupIs DEF Proxy!Enabled
  <2>2. CASE scope # None
    BY <1>1, <1>2, <2>2, OnServerIs
  <2>3. QED
    BY <2>1, <2>2
<1>5. /\ aimed # None => aimed \in Server /\ server[aimed].on /\ (scope # None => aimed = scope)
      /\ scope = None /\ found = {} => rivals = {}
      /\ aimed = None => scope = None
  <2>1. scope = None /\ aimed # None => aimed \in Proxy!Enabled
    BY PrefixScopeIs
  <2>2. scope = None /\ found = {} => rivals = {}
    BY <1>2, LookupIs
  <2>3. QED
    BY <1>1, <2>1, <2>2 DEF Proxy!Enabled
<1>6. Proxy!Prefixed \subseteq Server /\ \A s \in Proxy!Prefixed : server[s].on
  BY DEF Proxy!Prefixed, Proxy!Enabled
<1> HIDE DEF found, aimed, rivals
<1>7. /\ start \in Proxy!Calls /\ start.scope = scope /\ start.rivals = rivals /\ start.attempted = FALSE
      /\ start.signIns = 0 /\ start.next = "direct" /\ start.exact = {} /\ start.other = {}
  <2>1. Proxy!Free \in Proxy!Calls /\ Proxy!Free.attempted = FALSE /\ Proxy!Free.signIns = 0 /\ Proxy!Free.next = "direct"
        /\ Proxy!Free.exact = {} /\ Proxy!Free.other = {}
    BY FreeFits DEF Fits, Proxy!Free
  <2>2. QED
    BY <1>3, <2>1 DEF Proxy!Calls
<1> HIDE DEF start
<1>8. CASE found # {}
  <2> DEFINE t == Proxy!The(found)
  <2>1. found = {t} /\ t \in Proxy!Tools
    BY <1>1, <1>4, <1>8, OneFound
  <2> HIDE DEF t
  <2>2. Turns(c, Proxy!Directly(Proxy!Chosen(start, t), server[t.server]))
    BY <1>1, <1>4, <1>7, <2>1, ChosenTurns
  <2>3. QED
    BY <1>1, <1>8, <2>2, QuietTurns DEF StepKeeps, t
<1>9. CASE found = {} /\ aimed # None
  <2> DEFINE q == [start EXCEPT !.next = "scoped", !.server = aimed]
             d == Proxy!Lazily(q, server[aimed])
  <2>1. /\ q \in Proxy!Calls /\ q.scope = scope /\ q.rivals = rivals /\ q.attempted = FALSE
        /\ q.signIns = 0 /\ q.next = "scoped" /\ q.server = aimed
    BY <1>5, <1>7, <1>9 DEF Proxy!Calls
  <2>2. r = d
    BY <1>9
  <2> HIDE DEF q, r
  <2>3. May(q, server) /\ Proxy!Means(q, server)
    BY <1>5, <1>9, <2>1 DEF May, Proxy!Means
  <2>4. /\ Fits(d, server) /\ d.at \in {"free", "loop", "auth", "connecting"}
        /\ d.at = "connecting" => d.server = q.server /\ (server[aimed].status = "connected" \/ ~server[aimed].failed)
    BY <2>3, LazilyFits
  <2> HIDE DEF d
  <2>5. Turns(c, d)
    BY <1>1, <2>1, <2>4 DEF Turns, MayConnect
  <2>6. QED
    BY <1>1, <2>2, <2>5, QuietTurns DEF StepKeeps
<1>10. CASE found = {} /\ aimed = None
  <2> DEFINE q == [start EXCEPT !.at = "loop", !.todo = Proxy!Prefixed]
  <2>1. /\ q \in Proxy!Calls /\ q.scope = scope /\ q.rivals = rivals /\ q.attempted = FALSE
        /\ q.signIns = 0 /\ q.at = "loop" /\ q.todo = Proxy!Prefixed /\ q.exact = {} /\ q.other = {}
    BY <1>6, <1>7 DEF Proxy!Calls
  <2>2. r = q
    BY <1>10
  <2> HIDE DEF q, r
  <2>3. Fits(q, server)
    BY <1>5, <1>6, <1>10, <2>1 DEF Fits, Proxy!CallHolds, Proxy!Finds
  <2>4. Turns(c, q)
    BY <1>1, <2>1, <2>3 DEF Turns
  <2>5. QED
    BY <1>1, <2>2, <2>4, QuietTurns DEF StepKeeps
<1>11. QED
  BY <1>8, <1>9, <1>10

\* A call that waits fits where it waits.
LEMMA WaitsFit ==
  ASSUME Proxy!ProxyInv, NEW c \in Caller
  PROVE  /\ calls[c] \in Proxy!Calls /\ Proxy!CallHolds(calls[c], server)
         /\ calls[c].at \in {"connecting", "auth", "signedIn"} =>
              Proxy!Means(calls[c], server) /\ May(calls[c], server) /\ calls[c].server \in Server
         /\ calls[c].at \in {"dialog", "running"} => calls[c].server \in Server
<1>1. calls[c] \in Proxy!Calls /\ Proxy!CallHolds(calls[c], server)
  BY ProxyParts DEF Fits
<1>2. QED
  BY <1>1 DEF Proxy!CallHolds, May, Proxy!Means

\* A step that ends a call.
LEMMA EndsKeeps ==
  ASSUME SomeServers, Proxy!ProxyInv, NEW c \in Caller, calls[c].at \notin {"free", "signedIn"},
         calls' = [calls EXCEPT ![c] = Proxy!Free], server' = server, watch' = watch
  PROVE  StepKeeps
<1>1. Turns(c, Proxy!Free)
  BY FreeFits DEF Turns
<1>2. ~Proxy!New
  BY HasBegun
<1>3. QED
  BY <1>1, <1>2, QuietTurns DEF StepKeeps

\* mcp({ connect })
LEMMA ConnectKeeps ==
  ASSUME SomeServers, Proxy!ProxyInv, NEW c \in Caller, NEW s \in Server, Proxy!Connect(c, s)
  PROVE  StepKeeps
<1> DEFINE r == [Proxy!Free EXCEPT !.at = "connecting", !.next = "connect", !.server = s]
<1>1. /\ r \in Proxy!Calls /\ r.at = "connecting" /\ r.next = "connect" /\ r.server = s /\ r.attempted = FALSE
      /\ r.signIns = 0
  <2>1. Proxy!Free \in Proxy!Calls /\ Proxy!Free.attempted = FALSE /\ Proxy!Free.signIns = 0
    BY FreeFits DEF Fits, Proxy!Free
  <2>2. QED
    BY <2>1 DEF Proxy!Calls
<1>2. calls[c].at = "free" /\ server[s].busy /\ calls' = [calls EXCEPT ![c] = r] /\ server' = server /\ watch' = watch
  BY DEF Proxy!Connect, Proxy!Becomes
<1> HIDE DEF r
<1>3. Turns(c, r)
  BY <1>1, <1>2 DEF Turns, Fits, Proxy!CallHolds, Proxy!Means, MayConnect
<1>4. ~Proxy!New
  BY <1>2, IsUnset
<1>5. QED
  BY <1>2, <1>3, <1>4, QuietTurns DEF StepKeeps

\* A call tries the next server.
LEMMA TriesNextKeeps ==
  ASSUME SomeServers, Proxy!ProxyInv, NEW c \in Caller, Proxy!TriesNext(c)
  PROVE  StepKeeps
<1>1. PICK s \in Proxy!Longest(calls[c].todo) :
        LET r == [calls[c] EXCEPT !.todo = @ \ {s}, !.server = s, !.next = "loop"] IN
        calls' = [calls EXCEPT ![c] = IF server[s].failed /\ server[s].status # "needs-auth" THEN r
                                      ELSE Proxy!Lazily(r, server[s])]
  BY DEF Proxy!TriesNext, Proxy!Becomes
<1>2. calls[c].at = "loop" /\ server' = server /\ watch' = watch
  BY DEF Proxy!TriesNext
<1> DEFINE r == [calls[c] EXCEPT !.todo = @ \ {s}, !.server = s, !.next = "loop"]
           now == server[s]
           d == Proxy!Lazily(r, now)
<1>3. calls[c] \in Proxy!Calls /\ Proxy!CallHolds(calls[c], server) /\ Proxy!Finds(calls[c], server)
  BY <1>2, WaitsFit DEF Proxy!CallHolds
<1>4. s \in calls[c].todo /\ s \in Server /\ server[s].on
  BY <1>3, CallFields DEF Proxy!Longest, Proxy!Finds
<1>5. /\ r \in Proxy!Calls /\ r.at = "loop" /\ r.next = "loop" /\ r.server = s /\ r.scope = calls[c].scope
      /\ r.rivals = calls[c].rivals /\ r.todo \subseteq calls[c].todo /\ r.exact = calls[c].exact
      /\ r.other = calls[c].other /\ r.attempted = calls[c].attempted /\ r.signIns = calls[c].signIns
  BY <1>2, <1>3, <1>4 DEF Proxy!Calls
<1>6. calls' = [calls EXCEPT ![c] = IF now.failed /\ now.status # "needs-auth" THEN r ELSE d]
  BY <1>1
<1> HIDE DEF r
<1>7. Proxy!Finds(r, server)
  BY <1>3, <1>5, SameFinds
<1>8. May(r, server) /\ Proxy!Means(r, server) /\ Fits(r, server)
  BY <1>3, <1>4, <1>5, <1>7 DEF May, Proxy!Means, Fits, Proxy!CallHolds
<1> HIDE DEF now
<1>9. /\ Fits(d, server) /\ d.at \in {"free", "loop", "auth", "connecting"}
      /\ d.at = "connecting" => d.server = r.server /\ (now.status = "connected" \/ ~now.failed)
  BY <1>8, LazilyFits
<1> HIDE DEF d
<1>10. Turns(c, d) /\ Turns(c, r)
  BY <1>2, <1>5, <1>8, <1>9 DEF Turns, MayConnect, now
<1>11. ~Proxy!New
  BY <1>2, HasBegun
<1>12. CASE now.failed /\ now.status # "needs-auth"
  BY <1>2, <1>6, <1>10, <1>11, <1>12, QuietTurns DEF StepKeeps
<1>13. CASE ~(now.failed /\ now.status # "needs-auth")
  BY <1>2, <1>6, <1>10, <1>11, <1>13, QuietTurns DEF StepKeeps
<1>14. QED
  BY <1>12, <1>13

\* A call has tried them all.
LEMMA DecidesKeeps ==
  ASSUME SomeServers, Proxy!ProxyInv, NEW c \in Caller, Proxy!Decides(c)
  PROVE  StepKeeps
<1> DEFINE r == calls[c]
           found == IF r.exact # {} THEN r.exact ELSE r.other
           t == Proxy!The(found)
<1>1. /\ r.at = "loop" /\ server' = server /\ watch' = watch
      /\ calls' = [calls EXCEPT ![c] = IF Proxy!Unique(found)
                                      THEN Proxy!Directly(Proxy!Chosen(r, t), server[t.server]) ELSE Proxy!Free]
  BY DEF Proxy!Decides, Proxy!Becomes
<1>2. r \in Proxy!Calls /\ Proxy!CallHolds(r, server) /\ Proxy!Finds(r, server)
  BY <1>1, WaitsFit DEF Proxy!CallHolds
<1>3. r.exact \subseteq Proxy!Tools /\ r.other \subseteq Proxy!Tools
  BY <1>2, CallFields
<1>4. CASE ~Proxy!Unique(found)
  <2>1. calls' = [calls EXCEPT ![c] = Proxy!Free]
    BY <1>1, <1>4
  <2>2. QED
    BY <1>1, <2>1, EndsKeeps
<1>5. CASE Proxy!Unique(found)
  <2>1. found \subseteq Proxy!Tools /\ IsFiniteSet(found)
    BY <1>3, ToolsAreFinite, FS_Subset
  <2>2. found = {t}
    BY <1>5, <2>1, UniqueIs
  <2> HIDE DEF t
  <2>3. t \in Proxy!Tools /\ (t \in r.exact \/ t \in r.other)
    BY <2>1, <2>2
  <2>4. t.server \in Server
    BY <2>3 DEF Proxy!Tools
  <2>5. /\ r.scope = None /\ r.rivals = {} /\ server[t.server].on
        /\ t.kind # "displayed" => server[t.server].known["displayed"] = 0
    BY <1>2, <2>3 DEF Proxy!Finds
  <2>6. (r.attempted => r.signIns <= 1) /\ (~r.attempted => r.signIns = 0)
    BY <1>2 DEF Proxy!CallHolds
  <2> HIDE DEF r
  <2>7. Turns(c, Proxy!Directly(Proxy!Chosen(r, t), server[t.server]))
    BY <1>1, <1>2, <2>3, <2>5, <2>6, ChosenTurns
  <2>8. ~Proxy!New
    BY <1>1, HasBegun DEF r
  <2>9. calls' = [calls EXCEPT ![c] = Proxy!Directly(Proxy!Chosen(r, t), server[t.server])]
    BY <1>1, <1>5 DEF t, r
  <2>10. QED
    BY <1>1, <2>7, <2>8, <2>9, QuietTurns DEF StepKeeps, r
<1>6. QED
  BY <1>4, <1>5

\* What a call asked for is still meant once its server has changed.
LEMMA StillMeant ==
  ASSUME SomeServers, Proxy!ProxyInv, NEW c \in Caller, calls[c].at \in {"connecting", "auth", "signedIn", "dialog", "running"},
         NEW s \in Server, s = calls[c].server, NEW now \in Proxy!Servers, server' = [server EXCEPT ![s] = now],
         now.on = server[s].on, now.real = server[s].real, now.known = server[s].known \/ now.known = server[s].real
  PROVE  /\ ServersTurn /\ server' \in [Server -> Proxy!Servers] /\ server'[s] = now
         /\ Fits(calls[c], server')
         /\ calls[c].at \in {"connecting", "auth", "signedIn"} =>
              Proxy!Means(calls[c], server') /\ May(calls[c], server')
<1>1. server' \in [Server -> Proxy!Servers] /\ server'[s] = now /\ \A o \in Server \ {s} : server'[o] = server[o]
  BY ProxyParts
<1>2. ServersTurn
  BY <1>1 DEF ServersTurn
<1>3. Fits(calls[c], server')
  BY <1>2, ProxyParts, FitsStays
<1>4. QED
  BY <1>1, <1>2, <1>3 DEF Fits, Proxy!CallHolds, May, Proxy!Means

\* What a call does on a connection that is there.
LEMMA ReachedTurns ==
  ASSUME SomeServers, Proxy!ProxyInv, NEW c \in Caller, NEW known \in Listings, server' \in [Server -> Proxy!Servers],
         ServersTurn, NEW r, r = calls[c], r \in Proxy!Calls, Proxy!Means(r, server'), May(r, server'), Proxy!Means(r, server),
         r.next # "again" => known[r.server] = server'[r.server].known /\ server'[r.server].known = server'[r.server].real
  PROVE  Turns(c, Proxy!Reached(r, known)) /\ Proxy!Reached(r, known).at \in {"free", "running", "loop", "dialog"}
<1> DEFINE s == r.server
           found == Proxy!OnServer(s, known)
           t == Proxy!The(found)
<1>1. s \in Server
  BY DEF Proxy!Means
<1>2. found \subseteq Proxy!Tools /\ \A u \in found : u.server = s /\ (u.kind # "displayed" => known[s]["displayed"] = 0)
  BY <1>1, OnServerIs
<1>3. Proxy!Unique(found) => found = {t} /\ t \in Proxy!Tools
  BY <1>2, ToolsAreFinite, FS_Subset, UniqueIs
<1> HIDE DEF t
<1>4. CASE r.next = "connect"
  <2>1. Proxy!Reached(r, known) = Proxy!Free
    BY <1>4 DEF Proxy!Reached
  <2>2. QED
    BY <2>1, FreeFits DEF Turns
<1>5. CASE r.next = "again"
  <2> DEFINE q == [r EXCEPT !.at = "running", !.retried = TRUE]
  <2>1. Proxy!Reached(r, known) = q
    BY <1>5 DEF Proxy!Reached
  <2>2. q \in Proxy!Calls /\ q.at = "running" /\ q.server = r.server /\ q.attempted = r.attempted /\ q.signIns = r.signIns
    BY DEF Proxy!Calls
  <2> HIDE DEF q
  <2>3. Fits(q, server')
    BY <1>1, <2>2 DEF Fits, Proxy!CallHolds, May
  <2>4. QED
    BY <2>1, <2>2, <2>3 DEF Turns
<1>6. CASE r.next = "loop"
  <2>1. Proxy!Finds(r, server') /\ server'[s].on /\ known[s] = server'[s].known /\ server'[s].known = server'[s].real
    BY <1>6 DEF Proxy!Means, May
  <2>2. CASE ~Proxy!Unique(found)
    <3>1. Proxy!Reached(r, known) = IF found = {} THEN [r EXCEPT !.at = "loop"] ELSE Proxy!Free
      BY <1>6, <2>2 DEF Proxy!Reached
    <3>2. Fits([r EXCEPT !.at = "loop"], server') /\ [r EXCEPT !.at = "loop"].at = "loop"
      <4>1. May(r, server') /\ r.next = "loop"
        BY <1>6
      <4>2. QED
        BY ONLY <4>1, PlaceFits
    <3>3. CASE found = {}
      <4>1. Proxy!Reached(r, known) = [r EXCEPT !.at = "loop"]
        BY <3>1, <3>3
      <4>2. QED
        BY <3>2, <4>1 DEF Turns
    <3>4. CASE found # {}
      <4>1. Proxy!Reached(r, known) = Proxy!Free
        BY <3>1, <3>4
      <4>2. QED
        BY <4>1, FreeFits DEF Turns
    <3>5. QED
      BY <3>3, <3>4
  <2>3. CASE Proxy!Unique(found) /\ t.kind = "displayed"
    <3> DEFINE q == [r EXCEPT !.at = "loop", !.exact = @ \cup found]
    <3>1. Proxy!Reached(r, known) = q
      BY <1>6, <2>3 DEF Proxy!Reached, t
    <3>2. /\ q \in Proxy!Calls /\ q.at = "loop" /\ q.scope = r.scope /\ q.rivals = r.rivals /\ q.todo = r.todo
          /\ q.exact = r.exact \cup found /\ q.other = r.other /\ q.attempted = r.attempted /\ q.signIns = r.signIns
      BY <1>2 DEF Proxy!Calls
    <3> HIDE DEF q
    <3>3. Proxy!Finds(q, server')
      BY <1>2, <1>3, <2>1, <2>3, <3>2 DEF Proxy!Finds
    <3>4. Fits(q, server')
      BY <3>2, <3>3 DEF Fits, Proxy!CallHolds, May
    <3>5. QED
      BY <3>1, <3>2, <3>4 DEF Turns
  <2>4. CASE Proxy!Unique(found) /\ t.kind # "displayed"
    <3> DEFINE q == [r EXCEPT !.at = "loop", !.other = @ \cup found]
    <3>1. Proxy!Reached(r, known) = q
      BY <1>6, <2>4 DEF Proxy!Reached, t
    <3>2. /\ q \in Proxy!Calls /\ q.at = "loop" /\ q.scope = r.scope /\ q.rivals = r.rivals /\ q.todo = r.todo
          /\ q.exact = r.exact /\ q.other = r.other \cup found /\ q.attempted = r.attempted /\ q.signIns = r.signIns
      BY <1>2 DEF Proxy!Calls
    <3> HIDE DEF q
    <3>3. Proxy!Finds(q, server')
      BY <1>2, <1>3, <2>1, <2>4, <3>2 DEF Proxy!Finds
    <3>4. Fits(q, server')
      BY <3>2, <3>3 DEF Fits, Proxy!CallHolds, May
    <3>5. QED
      BY <3>1, <3>2, <3>4 DEF Turns
  <2>5. QED
    BY <2>2, <2>3, <2>4
<1>7. CASE r.next \in {"scoped", "direct"}
  <2>1. CASE Proxy!Unique(found)
    <3> DEFINE q == Proxy!Chosen(r, t)
               d == [q EXCEPT !.at = "dialog"]
    <3>1. Proxy!Reached(r, known) = d
      BY <1>7, <2>1 DEF Proxy!Reached, t
    <3>2. /\ q \in Proxy!Calls /\ q.tool = t /\ q.server = t.server /\ q.next = r.next /\ q.scope = r.scope
          /\ q.rivals = r.rivals /\ q.attempted = r.attempted /\ q.signIns = r.signIns
      BY <1>3, <2>1, ChosenIs
    <3> HIDE DEF q
    <3>3. /\ d \in Proxy!Calls /\ d.at = "dialog" /\ d.tool = t /\ d.server = t.server /\ d.scope = r.scope
          /\ d.rivals = r.rivals /\ d.attempted = r.attempted /\ d.signIns = r.signIns
      BY <3>2 DEF Proxy!Calls
    <3> HIDE DEF d
    <3>4. t.server = s /\ (t.kind # "displayed" => server'[s].known["displayed"] = 0)
      BY <1>2, <1>3, <1>7, <2>1
    <3>5. server[s].on /\ IF r.scope # None THEN s = r.scope ELSE r.rivals \subseteq {s}
      BY <1>7 DEF Proxy!Means
    <3>6. ToolFits(d)
      BY <3>3, <3>4, <3>5 DEF ToolFits
    <3>7. Fits(d, server')
      BY <1>1, <3>3, <3>4 DEF Fits, Proxy!CallHolds, May
    <3>8. QED
      BY <3>1, <3>3, <3>6, <3>7 DEF Turns
  <2>2. CASE ~Proxy!Unique(found)
    <3>1. Proxy!Reached(r, known) = Proxy!Free
      BY <1>7, <2>2 DEF Proxy!Reached
    <3>2. QED
      BY <3>1, FreeFits DEF Turns
  <2>3. QED
    BY <2>1, <2>2
<1>8. QED
  BY <1>4, <1>5, <1>6, <1>7, CallFields

\* A connection is made, or is there.
LEMMA ConnectsKeeps ==
  ASSUME SomeServers, Proxy!ProxyInv, NEW c \in Caller, Proxy!Connects(c)
  PROVE  StepKeeps
<1> DEFINE s == calls[c].server
           now == [server[s] EXCEPT !.status = "connected", !.known = server[s].real, !.failed = FALSE]
           known == [Proxy!Known EXCEPT ![s] = server[s].real]
           r == Proxy!Reached(calls[c], known)
<1>1. /\ calls[c].at = "connecting" /\ watch' = watch /\ calls' = [calls EXCEPT ![c] = r]
      /\ server' = [server EXCEPT ![s] = now]
  BY DEF Proxy!Connects, Proxy!Becomes
<1>2. s \in Server /\ Proxy!Means(calls[c], server) /\ calls[c] \in Proxy!Calls
  BY <1>1, WaitsFit
<1>3. server[s] \in Proxy!Servers /\ Proxy!Known \in Listings
  BY <1>2, ProxyParts, KnownIs
<1>4. /\ now \in Proxy!Servers /\ now.on = server[s].on /\ now.real = server[s].real /\ now.known = server[s].real
      /\ now.status = "connected"
  BY <1>3 DEF Proxy!Servers
<1>5. known \in Listings /\ known[s] = server[s].real
  BY <1>2, <1>3, ServerFields DEF Listings
<1> HIDE DEF now, known
<1>6. /\ ServersTurn /\ server' \in [Server -> Proxy!Servers] /\ server'[s] = now
      /\ Proxy!Means(calls[c], server') /\ May(calls[c], server')
  BY <1>1, <1>2, <1>4, StillMeant
<1>7. Turns(c, r)
  <2>1. known[s] = server'[s].known /\ server'[s].known = server'[s].real
    BY <1>4, <1>5, <1>6
  <2> HIDE DEF r, s
  <2>2. Turns(c, Proxy!Reached(calls[c], known))
    BY <1>2, <1>5, <1>6, <2>1, ReachedTurns DEF s
  <2>3. QED
    BY <2>2 DEF r
<1>8. ~Proxy!New
  BY <1>1, HasBegun
<1>9. Proxy!ProxyInv'
  <2> HIDE DEF r, s
  <2>1. ~(now.token /\ now.status = "needs-auth") /\ now.known = server[s].real /\ calls[c].at # "signedIn"
    BY <1>1, <1>4
  <2>2. QED
    BY <1>1, <1>2, <1>4, <1>7, <1>8, <2>1, ServerTurns
<1>10. QED
  BY <1>1, <1>7, <1>9 DEF StepKeeps

\* A connection is refused for want of a token.
LEMMA ConnectUnauthorizedKeeps ==
  ASSUME SomeServers, Proxy!ProxyInv, NEW c \in Caller, Proxy!ConnectUnauthorized(c)
  PROVE  StepKeeps
<1> DEFINE s == calls[c].server
           now == [server[s] EXCEPT !.status = "needs-auth"]
           r == Proxy!SignsIn(calls[c])
<1>1. /\ calls[c].at = "connecting" /\ watch' = watch /\ calls' = [calls EXCEPT ![c] = r] /\ ~server[s].token
      /\ server' = [server EXCEPT ![s] = now]
  BY DEF Proxy!ConnectUnauthorized, Proxy!Becomes
<1>2. s \in Server
  BY <1>1, WaitsFit
<1>3. server[s] \in Proxy!Servers
  BY <1>2, ProxyParts
<1>4. /\ now \in Proxy!Servers /\ now.on = server[s].on /\ now.real = server[s].real /\ now.known = server[s].known
      /\ now.token = server[s].token
  BY <1>3 DEF Proxy!Servers
<1> HIDE DEF now
<1>6. Proxy!Means(calls[c], server') /\ May(calls[c], server')
  BY <1>1, <1>2, <1>4, StillMeant
<1>7. Turns(c, r)
  BY <1>6, SignsInFits DEF Turns
<1>8. ~Proxy!New
  BY <1>1, HasBegun
<1>9. Proxy!ProxyInv'
  <2> HIDE DEF r, s
  <2>1. ~(now.token /\ now.status = "needs-auth") /\ calls[c].at # "signedIn"
    BY <1>1, <1>4
  <2>2. QED
    BY <1>1, <1>2, <1>4, <1>7, <1>8, <2>1, ServerTurns
<1>10. QED
  BY <1>1, <1>7, <1>9 DEF StepKeeps

\* A connection fails.
LEMMA ConnectFailsKeeps ==
  ASSUME SomeServers, Proxy!ProxyInv, NEW c \in Caller, Proxy!ConnectFails(c)
  PROVE  StepKeeps
<1> DEFINE s == calls[c].server
           now == [server[s] EXCEPT !.failed = @ \/ calls[c].next # "again"]
           r == Proxy!GivesUp(calls[c])
<1>1. /\ calls[c].at = "connecting" /\ watch' = watch /\ calls' = [calls EXCEPT ![c] = r]
      /\ server' = [server EXCEPT ![s] = now]
  BY DEF Proxy!ConnectFails, Proxy!Becomes
<1>2. s \in Server
  BY <1>1, WaitsFit
<1>3. server[s] \in Proxy!Servers
  BY <1>2, ProxyParts
<1>4. /\ now \in Proxy!Servers /\ now.on = server[s].on /\ now.real = server[s].real /\ now.known = server[s].known
      /\ now.token = server[s].token /\ now.status = server[s].status
  BY <1>3 DEF Proxy!Servers
<1> HIDE DEF now
<1>6. May(calls[c], server')
  BY <1>1, <1>2, <1>4, StillMeant
<1>7. Turns(c, r)
  BY <1>6, GivesUpFits DEF Turns
<1>8. ~Proxy!New
  BY <1>1, HasBegun
<1>9. Proxy!ProxyInv'
  <2> HIDE DEF r, s
  <2>1. calls[c].at # "signedIn"
    BY <1>1
  <2>2. QED
    BY <1>1, <1>2, <1>4, <1>7, <1>8, <2>1, ServerTurns
<1>10. QED
  BY <1>1, <1>7, <1>9 DEF StepKeeps

\* The user signs in.
LEMMA SignInSucceedsKeeps ==
  ASSUME SomeServers, Proxy!ProxyInv, NEW c \in Caller, Proxy!SignInSucceeds(c)
  PROVE  StepKeeps
<1> DEFINE s == calls[c].server
           now == [server[s] EXCEPT !.token = TRUE]
           r == [calls[c] EXCEPT !.at = "signedIn", !.signIns = @ + 1]
<1>1. /\ calls[c].at = "auth" /\ watch' = watch /\ calls' = [calls EXCEPT ![c] = r]
      /\ server' = [server EXCEPT ![s] = now]
  BY DEF Proxy!SignInSucceeds, Proxy!Becomes
<1>2. s \in Server /\ calls[c] \in Proxy!Calls /\ calls[c].attempted /\ calls[c].signIns = 0
  BY <1>1, WaitsFit DEF Proxy!CallHolds
<1>3. server[s] \in Proxy!Servers
  BY <1>2, ProxyParts
<1>4. /\ now \in Proxy!Servers /\ now.on = server[s].on /\ now.real = server[s].real /\ now.known = server[s].known
  BY <1>3 DEF Proxy!Servers
<1> HIDE DEF now
<1>6. Proxy!Means(calls[c], server')
  BY <1>1, <1>2, <1>4, StillMeant
<1>7. Turns(c, r) /\ r.at = "signedIn" /\ r.server = s
  <2>1. /\ r \in Proxy!Calls /\ r.at = "signedIn" /\ r.server = calls[c].server /\ r.next = calls[c].next
        /\ r.scope = calls[c].scope /\ r.rivals = calls[c].rivals /\ r.todo = calls[c].todo /\ r.exact = calls[c].exact
        /\ r.other = calls[c].other /\ r.attempted = calls[c].attempted /\ r.signIns = 1
    <3> DEFINE old == calls[c]
               more == old.signIns + 1
    <3>1. old \in Proxy!Calls /\ more = 1 /\ old.signIns = 0
      BY <1>2
    <3>2. r = [old EXCEPT !.at = "signedIn", !.signIns = more]
      OBVIOUS
    <3> HIDE DEF old, more, r
    <3>3. r \in Proxy!Calls
      BY <3>1, <3>2 DEF Proxy!Calls
    <3>4. /\ r.at = "signedIn" /\ r.server = old.server /\ r.next = old.next
          /\ r.scope = old.scope /\ r.rivals = old.rivals /\ r.todo = old.todo /\ r.exact = old.exact
          /\ r.other = old.other /\ r.signIns = more
      BY <3>1, <3>2 DEF Proxy!Calls
    <3>5. r.attempted = old.attempted
      BY <3>1, <3>2 DEF Proxy!Calls
    <3>6. QED
      BY <3>1, <3>3, <3>4, <3>5 DEF old
  <2> HIDE DEF r
  <2>2. Proxy!Means(r, server')
    BY <1>6, <2>1, SameMeans
  <2>3. QED
    BY <1>2, <2>1, <2>2 DEF Turns, Fits, Proxy!CallHolds
<1>8. ~Proxy!New
  BY <1>1, HasBegun
<1>9. Proxy!ProxyInv'
  <2> HIDE DEF r, s
  <2>1. calls[c].at # "signedIn"
    BY <1>1
  <2>2. QED
    BY <1>1, <1>2, <1>4, <1>7, <1>8, <2>1, ServerTurns
<1>10. QED
  BY <1>1, <1>7, <1>9 DEF StepKeeps

\* The user is not asked.
LEMMA SignInSkippedKeeps ==
  ASSUME SomeServers, Proxy!ProxyInv, NEW c \in Caller, Proxy!SignInSkipped(c)
  PROVE  StepKeeps
<1> DEFINE r == Proxy!GivesUp(calls[c])
<1>1. calls[c].at = "auth" /\ watch' = watch /\ server' = server /\ calls' = [calls EXCEPT ![c] = r]
  BY DEF Proxy!SignInSkipped, Proxy!Becomes
<1>2. May(calls[c], server)
  BY <1>1, WaitsFit
<1>3. Turns(c, r)
  BY <1>1, <1>2, GivesUpFits DEF Turns
<1>4. ~Proxy!New
  BY <1>1, HasBegun
<1>5. QED
  BY <1>1, <1>3, <1>4, QuietTurns DEF StepKeeps

\* The connection that was refused is closed, and a new one is made.
LEMMA GoesOnKeeps ==
  ASSUME SomeServers, Proxy!ProxyInv, NEW c \in Caller, Proxy!GoesOn(c)
  PROVE  /\ StepKeeps
         /\ calls[c].next = "again" /\ server[calls[c].server].status = "connected" =>
              server' = server /\ watch' = watch
<1> DEFINE s == calls[c].server
           now == Proxy!Closing(calls[c], server[s])
           r == IF now.status = "connected" THEN Proxy!Reached(calls[c], Proxy!Known)
                ELSE [calls[c] EXCEPT !.at = "connecting"]
<1>1. /\ calls[c].at = "signedIn" /\ watch' = watch /\ calls' = [calls EXCEPT ![c] = r]
      /\ server' = [server EXCEPT ![s] = now]
  BY DEF Proxy!GoesOn, Proxy!Becomes
<1>2. s \in Server /\ Proxy!Means(calls[c], server) /\ calls[c] \in Proxy!Calls
  BY <1>1, WaitsFit
<1>3. server[s] \in Proxy!Servers /\ Proxy!Known \in Listings /\ server \in [Server -> Proxy!Servers]
  BY <1>2, ProxyParts, KnownIs
<1>4. /\ now \in Proxy!Servers /\ now.on = server[s].on /\ now.real = server[s].real /\ now.known = server[s].known
      /\ now.status = "none" \/ (now.status = "connected" /\ calls[c].next = "again")
      /\ calls[c].next = "again" /\ server[s].status = "connected" => now = server[s]
  <2>1. CASE calls[c].next = "again" /\ server[s].status = "connected"
    BY <1>3, <2>1 DEF Proxy!Closing
  <2>2. CASE ~(calls[c].next = "again" /\ server[s].status = "connected")
    <3> DEFINE n == [server[s] EXCEPT !.status = "none", !.failed = FALSE]
    <3>1. /\ n \in Proxy!Servers /\ n.on = server[s].on /\ n.real = server[s].real /\ n.known = server[s].known
          /\ n.status = "none"
      BY <1>3 DEF Proxy!Servers
    <3>2. now = n
      BY <2>2 DEF Proxy!Closing
    <3>3. QED
      BY <2>2, <3>1, <3>2
  <2>3. QED
    BY <2>1, <2>2
<1>5. calls[c].next = "again" /\ server[s].status = "connected" => server' = server /\ watch' = watch
  BY <1>1, <1>3, <1>4
<1> HIDE DEF now
<1>6. /\ ServersTurn /\ server' \in [Server -> Proxy!Servers] /\ server'[s] = now
      /\ Proxy!Means(calls[c], server') /\ May(calls[c], server')
  BY <1>1, <1>2, <1>4, StillMeant
<1>7. Turns(c, r)
  <2>1. CASE now.status = "connected"
    <3>1. calls[c].next = "again" /\ r = Proxy!Reached(calls[c], Proxy!Known)
      BY <1>4, <2>1
    <3>2. Turns(c, Proxy!Reached(calls[c], Proxy!Known))
      BY <1>2, <1>3, <1>6, <3>1, ReachedTurns
    <3>3. QED
      BY <3>1, <3>2
  <2>2. CASE now.status # "connected"
    <3> DEFINE q == [calls[c] EXCEPT !.at = "connecting"]
    <3>1. r = q
      BY <2>2
    <3>2. Fits(q, server') /\ q.at = "connecting"
      <4>1. May(calls[c], server') /\ Proxy!Means(calls[c], server')
        BY <1>6
      <4> HIDE DEF r, s
      <4>2. Fits([calls[c] EXCEPT !.at = "connecting"], server') /\ [calls[c] EXCEPT !.at = "connecting"].at = "connecting"
        BY ONLY <4>1, PlaceFits
      <4>3. QED
        BY <4>2
    <3> HIDE DEF q, r
    <3>3. QED
      BY <1>1, <3>1, <3>2 DEF Turns
  <2>3. QED
    BY <2>1, <2>2
<1>8. ~Proxy!New
  BY <1>1, HasBegun
<1>9. Proxy!ProxyInv'
  <2>1. calls[c].at = "signedIn" => calls[c].server = s
    OBVIOUS
  <2> HIDE DEF r, s
  <2>2. ~(now.token /\ now.status = "needs-auth")
    BY <1>4
  <2>3. QED
    BY <1>1, <1>2, <1>4, <1>7, <1>8, <2>1, <2>2, ServerTurns
<1>10. QED
  BY <1>1, <1>5, <1>7, <1>9 DEF StepKeeps

\* The user approves of a call.
LEMMA ApprovedKeeps ==
  ASSUME SomeServers, Proxy!ProxyInv, NEW c \in Caller, Proxy!Approved(c)
  PROVE  StepKeeps
<1> DEFINE q == [calls[c] EXCEPT !.at = "running", !.tool = Proxy!NoTool, !.rivals = {}, !.exact = {},
                                 !.other = {}, !.next = "direct", !.scope = None]
           r == IF server[calls[c].server].status = "connected" THEN q ELSE Proxy!Free
<1>1. calls[c].at = "dialog" /\ watch' = watch /\ server' = server /\ calls' = [calls EXCEPT ![c] = r]
  BY DEF Proxy!Approved, Proxy!Becomes
<1>2. /\ calls[c] \in Proxy!Calls /\ calls[c].server \in Server
      /\ calls[c].attempted => calls[c].signIns <= 1
      /\ ~calls[c].attempted => calls[c].signIns = 0
  BY <1>1, WaitsFit DEF Proxy!CallHolds
<1>3. /\ q \in Proxy!Calls /\ q.at = "running" /\ q.server = calls[c].server /\ q.attempted = calls[c].attempted
      /\ q.signIns = calls[c].signIns
  BY <1>2 DEF Proxy!Calls
<1> HIDE DEF q
<1>4. Turns(c, q) /\ Turns(c, Proxy!Free)
  BY <1>1, <1>2, <1>3, FreeFits DEF Turns, Fits, Proxy!CallHolds
<1>5. Turns(c, r)
  BY <1>4
<1>6. ~Proxy!New
  BY <1>1, HasBegun
<1> HIDE DEF r
<1>7. QED
  BY <1>1, <1>5, <1>6, QuietTurns DEF StepKeeps

\* A session ends under a call.
LEMMA SessionEndsKeeps ==
  ASSUME SomeServers, Proxy!ProxyInv, NEW c \in Caller, NEW reconnected \in {"yes", "refused", "no"},
         Proxy!SessionEnds(c, reconnected)
  PROVE  StepKeeps
<1> DEFINE s == calls[c].server
           became == IF reconnected = "yes" THEN "connected" ELSE IF reconnected = "refused" THEN "needs-auth" ELSE "none"
           now == [server[s] EXCEPT !.status = became]
           again == [calls[c] EXCEPT !.next = "again"]
           tried == [calls[c] EXCEPT !.retried = TRUE]
           r == IF reconnected = "yes" THEN tried ELSE IF reconnected = "refused" THEN Proxy!SignsIn(again) ELSE Proxy!Free
<1>1. /\ calls[c].at = "running" /\ watch' = watch /\ (reconnected = "refused" => ~server[s].token)
  BY DEF Proxy!SessionEnds
<1>2. calls' = [calls EXCEPT ![c] = r] /\ server' = [server EXCEPT ![s] = now]
  <2>1. CASE reconnected = "yes"
    BY <2>1 DEF Proxy!SessionEnds, Proxy!Becomes
  <2>2. CASE reconnected = "refused"
    BY <2>2 DEF Proxy!SessionEnds, Proxy!Becomes
  <2>3. CASE reconnected = "no"
    BY <2>3 DEF Proxy!SessionEnds, Proxy!Becomes
  <2>4. QED
    BY <2>1, <2>2, <2>3
<1>3. /\ calls[c] \in Proxy!Calls /\ calls[c].server \in Server
      /\ calls[c].attempted => calls[c].signIns <= 1
      /\ ~calls[c].attempted => calls[c].signIns = 0
  BY <1>1, WaitsFit DEF Proxy!CallHolds
<1>4. server[s] \in Proxy!Servers
  BY <1>3, ProxyParts
<1>5. /\ now \in Proxy!Servers /\ now.on = server[s].on /\ now.real = server[s].real /\ now.known = server[s].known
      /\ now.token = server[s].token /\ now.status = became
  BY <1>4 DEF Proxy!Servers
<1>6. ~(now.token /\ now.status = "needs-auth")
  BY <1>1, <1>5
<1>7. /\ again \in Proxy!Calls /\ again.next = "again" /\ again.server = calls[c].server
      /\ again.attempted = calls[c].attempted /\ again.signIns = calls[c].signIns
  BY <1>3 DEF Proxy!Calls
<1>8. /\ tried \in Proxy!Calls /\ tried.at = "running" /\ tried.server = calls[c].server
      /\ tried.attempted = calls[c].attempted /\ tried.signIns = calls[c].signIns
  BY <1>1, <1>3 DEF Proxy!Calls
<1> HIDE DEF now, again, tried, became
<1>9. Turns(c, r)
  <2>1. CASE reconnected = "yes"
    <3>1. Turns(c, tried)
      BY <1>3, <1>8 DEF Turns, Fits, Proxy!CallHolds
    <3>2. QED
      BY <2>1, <3>1
  <2>2. CASE reconnected = "refused"
    <3>1. May(again, server') /\ Proxy!Means(again, server')
      BY <1>3, <1>7 DEF May, Proxy!Means
    <3>2. Turns(c, Proxy!SignsIn(again))
      BY <3>1, SignsInFits DEF Turns
    <3>3. QED
      BY <2>2, <3>2
  <2>3. CASE reconnected = "no"
    <3>1. Turns(c, Proxy!Free)
      BY FreeFits DEF Turns
    <3>2. QED
      BY <2>3, <3>1
  <2>4. QED
    BY <2>1, <2>2, <2>3
<1>10. ~Proxy!New
  BY <1>1, HasBegun
<1>11. Proxy!ProxyInv'
  <2>1. calls[c].at # "signedIn" /\ s \in Server
    BY <1>1, <1>3
  <2> HIDE DEF r, s
  <2>2. QED
    BY <1>1, <1>2, <1>5, <1>6, <1>9, <1>10, <2>1, ServerTurns
<1>12. QED
  BY <1>2, <1>9, <1>11 DEF StepKeeps

\* Sign-ins that are not a call's, and the rest of the world.
LEMMA OthersKeep ==
  ASSUME SomeServers, Proxy!ProxyInv, NEW s \in Server,
         \/ Proxy!AuthStart(s) \/ Proxy!WatchedSignIn(s) \/ Proxy!Announce(s) \/ Proxy!AuthComplete(s)
         \/ Proxy!WatchedFails(s) \/ Proxy!Checks(s) \/ Proxy!TokenEnds(s) \/ Proxy!BackoffEnds(s)
         \/ Proxy!OthersConnect(s) \/ Proxy!OthersClose(s)
  PROVE  StepKeeps
<1>1. /\ server \in [Server -> Proxy!Servers] /\ server[s] \in Proxy!Servers
      /\ watch \in [Server -> {"new", "no", "waiting", "closing", "checking"}]
  BY ProxyParts
<1>2. watch[s] # "new" => ~Proxy!New
  BY DEF Proxy!New
<1>3. ~Proxy!New
  BY <1>2, IsUnset DEF Proxy!AuthStart, Proxy!WatchedSignIn, Proxy!Announce, Proxy!AuthComplete,
     Proxy!WatchedFails, Proxy!Checks, Proxy!TokenEnds, Proxy!BackoffEnds, Proxy!OthersConnect, Proxy!OthersClose
<1>4. watch[s] \in {"no", "waiting", "closing", "checking"}
  BY <1>1, <1>3, ProxyParts DEF Proxy!BeginsUnset
<1>5. server = [server EXCEPT ![s] = server[s]] /\ watch = [watch EXCEPT ![s] = watch[s]]
  BY <1>1
<1>6. CASE Proxy!AuthStart(s) \/ Proxy!WatchedFails(s) \/ Proxy!Checks(s)
  <2>1. PICK w \in {"no", "waiting", "checking"} : watch' = [watch EXCEPT ![s] = w] /\ watch[s] # "closing"
    BY <1>6 DEF Proxy!AuthStart, Proxy!WatchedFails, Proxy!Checks
  <2>2. server' = [server EXCEPT ![s] = server[s]] /\ calls' = calls
    BY <1>5, <1>6 DEF Proxy!AuthStart, Proxy!WatchedFails, Proxy!Checks
  <2>3. QED
    BY <1>1, <1>3, <2>1, <2>2, Elsewhere
<1>7. CASE Proxy!WatchedSignIn(s)
  <2> DEFINE now == [server[s] EXCEPT !.token = TRUE]
  <2>1. now \in Proxy!Servers /\ now.on = server[s].on /\ now.real = server[s].real /\ now.known = server[s].known
    BY <1>1 DEF Proxy!Servers
  <2>2. server' = [server EXCEPT ![s] = now] /\ watch' = [watch EXCEPT ![s] = "closing"] /\ calls' = calls
    BY <1>7 DEF Proxy!WatchedSignIn
  <2> HIDE DEF now
  <2>3. QED
    BY <1>3, <2>1, <2>2, Elsewhere
<1>8. CASE Proxy!Announce(s)
  <2> DEFINE now == [server[s] EXCEPT !.status = "none", !.failed = FALSE]
  <2>1. /\ now \in Proxy!Servers /\ now.on = server[s].on /\ now.real = server[s].real /\ now.known = server[s].known
        /\ now.status = "none"
    BY <1>1 DEF Proxy!Servers
  <2>2. server' = [server EXCEPT ![s] = now] /\ watch' = [watch EXCEPT ![s] = "no"] /\ calls' = calls
    BY <1>8 DEF Proxy!Announce
  <2> HIDE DEF now
  <2>3. QED
    BY <1>3, <2>1, <2>2, Elsewhere
<1>9. CASE Proxy!AuthComplete(s)
  <2> DEFINE now == [server[s] EXCEPT !.token = TRUE, !.status = "none", !.failed = FALSE]
  <2>1. /\ now \in Proxy!Servers /\ now.on = server[s].on /\ now.real = server[s].real /\ now.known = server[s].known
        /\ now.status = "none"
    BY <1>1 DEF Proxy!Servers
  <2>2. server' = [server EXCEPT ![s] = now] /\ watch' = [watch EXCEPT ![s] = "checking"] /\ calls' = calls
    BY <1>9 DEF Proxy!AuthComplete
  <2> HIDE DEF now
  <2>3. QED
    BY <1>3, <2>1, <2>2, Elsewhere
<1>10. CASE Proxy!TokenEnds(s)
  <2> DEFINE now == [server[s] EXCEPT !.token = FALSE]
  <2>1. /\ now \in Proxy!Servers /\ now.on = server[s].on /\ now.real = server[s].real /\ now.known = server[s].known
        /\ now.token = FALSE
    BY <1>1 DEF Proxy!Servers
  <2>2. server' = [server EXCEPT ![s] = now] /\ watch' = [watch EXCEPT ![s] = watch[s]] /\ calls' = calls
    BY <1>5, <1>10 DEF Proxy!TokenEnds
  <2> HIDE DEF now
  <2>3. QED
    BY <1>3, <1>4, <2>1, <2>2, Elsewhere
<1>11. CASE Proxy!BackoffEnds(s)
  <2> DEFINE now == [server[s] EXCEPT !.failed = FALSE]
  <2>1. /\ now \in Proxy!Servers /\ now.on = server[s].on /\ now.real = server[s].real /\ now.known = server[s].known
        /\ now.status = server[s].status /\ now.token = server[s].token
    BY <1>1 DEF Proxy!Servers
  <2>2. server' = [server EXCEPT ![s] = now] /\ watch' = [watch EXCEPT ![s] = watch[s]] /\ calls' = calls
    BY <1>5, <1>11 DEF Proxy!BackoffEnds
  <2> HIDE DEF now
  <2>3. watch[s] = "closing" \/ watch[s] # "closing"
    OBVIOUS
  <2>4. QED
    BY <1>3, <1>4, <2>1, <2>2, <2>3, Elsewhere
<1>12. CASE Proxy!OthersConnect(s)
  <2> DEFINE now == [server[s] EXCEPT !.status = "connected", !.failed = FALSE, !.known = server[s].real]
  <2>1. /\ now \in Proxy!Servers /\ now.on = server[s].on /\ now.real = server[s].real /\ now.known = server[s].real
        /\ now.status = "connected"
    BY <1>1 DEF Proxy!Servers
  <2>2. server' = [server EXCEPT ![s] = now] /\ watch' = [watch EXCEPT ![s] = watch[s]] /\ calls' = calls
    BY <1>5, <1>12 DEF Proxy!OthersConnect
  <2> HIDE DEF now
  <2>3. QED
    BY <1>3, <1>4, <2>1, <2>2, Elsewhere
<1>13. CASE Proxy!OthersClose(s)
  <2> DEFINE now == [server[s] EXCEPT !.status = "none"]
  <2>1. /\ now \in Proxy!Servers /\ now.on = server[s].on /\ now.real = server[s].real /\ now.known = server[s].known
        /\ now.status = "none"
    BY <1>1 DEF Proxy!Servers
  <2>2. server' = [server EXCEPT ![s] = now] /\ watch' = [watch EXCEPT ![s] = watch[s]] /\ calls' = calls
    BY <1>5, <1>13 DEF Proxy!OthersClose
  <2> HIDE DEF now
  <2>3. QED
    BY <1>3, <1>4, <2>1, <2>2, Elsewhere
<1>14. QED
  BY <1>6, <1>7, <1>8, <1>9, <1>10, <1>11, <1>12, <1>13

\* Every step keeps the invariant, and is one call's or none's.
LEMMA ProxyNextKeeps ==
  ASSUME SomeServers, Proxy!ProxyInv, Proxy!Next
  PROVE  StepKeeps
<1>1. CASE Proxy!BeginNames \/ Proxy!BeginStates
  BY <1>1, BeginNamesKeeps, BeginStatesKeeps
<1>2. ASSUME NEW c \in Caller,
             \/ \E scope \in Server \cup {None} : Proxy!Execute(c, scope)
             \/ \E s \in Server : Proxy!Connect(c, s)
             \/ Proxy!TriesNext(c) \/ Proxy!Decides(c)
      PROVE  StepKeeps
  BY <1>2, ExecuteKeeps, ConnectKeeps, TriesNextKeeps, DecidesKeeps
<1>3. ASSUME NEW c \in Caller,
             \/ Proxy!Connects(c) \/ Proxy!ConnectUnauthorized(c) \/ Proxy!ConnectFails(c)
             \/ Proxy!SignInSucceeds(c) \/ Proxy!SignInSkipped(c) \/ Proxy!GoesOn(c)
      PROVE  StepKeeps
  BY <1>3, ConnectsKeeps, ConnectUnauthorizedKeeps, ConnectFailsKeeps, SignInSucceedsKeeps, SignInSkippedKeeps, GoesOnKeeps
<1>4. ASSUME NEW c \in Caller, Proxy!SignInFails(c) \/ Proxy!Denied(c) \/ Proxy!Returns(c)
      PROVE  StepKeeps
  <2>1. /\ calls[c].at \notin {"free", "signedIn"} /\ calls' = [calls EXCEPT ![c] = Proxy!Free]
        /\ server' = server /\ watch' = watch
    BY <1>4 DEF Proxy!SignInFails, Proxy!Denied, Proxy!Returns, Proxy!Becomes
  <2>2. QED
    BY <2>1, EndsKeeps
<1>5. ASSUME NEW c \in Caller,
             Proxy!Approved(c) \/ \E reconnected \in {"yes", "refused", "no"} : Proxy!SessionEnds(c, reconnected)
      PROVE  StepKeeps
  BY <1>5, ApprovedKeeps, SessionEndsKeeps
<1>6. ASSUME NEW s \in Server,
             \/ Proxy!AuthStart(s) \/ Proxy!WatchedSignIn(s) \/ Proxy!Announce(s) \/ Proxy!AuthComplete(s)
             \/ Proxy!WatchedFails(s) \/ Proxy!Checks(s) \/ Proxy!TokenEnds(s) \/ Proxy!BackoffEnds(s)
             \/ Proxy!OthersConnect(s) \/ Proxy!OthersClose(s)
      PROVE  StepKeeps
  BY <1>6, OthersKeep
<1>7. QED
  BY <1>1, <1>2, <1>3, <1>4, <1>5, <1>6 DEF Proxy!Next

\* A step chooses the tool that is meant and connects no server that failed; a call that is sent again closes none.
LEMMA ProxySteps ==
  ASSUME SomeServers, Proxy!ProxyInv, Proxy!Next
  PROVE  /\ \A c \in Caller : calls'[c].at = "dialog" /\ calls[c].at # "dialog" => ToolFits(calls'[c])
         /\ \A c \in Caller : calls'[c].at = "connecting" /\ calls[c].at \notin {"connecting", "signedIn"} =>
              MayConnect(calls'[c])
         /\ \A c \in Caller : Proxy!GoesOn(c) /\ calls[c].next = "again" =>
              (server[calls[c].server].status = "connected" => server' = server)
<1>1. StepKeeps
  BY ProxyNextKeeps
<1>2. calls \in [Caller -> Proxy!Calls]
  BY ProxyParts
<1>3. ASSUME NEW c \in Caller, calls'[c] # calls[c] PROVE Turns(c, calls'[c])
  <2>1. PICK d \in Caller : \E r : calls' = [calls EXCEPT ![d] = r] /\ Turns(d, r)
    BY <1>1, <1>3 DEF StepKeeps
  <2>2. PICK r : calls' = [calls EXCEPT ![d] = r] /\ Turns(d, r)
    BY <2>1
  <2>3. d = c /\ calls'[c] = r
    BY <1>2, <1>3, <2>2
  <2>4. QED
    BY <2>2, <2>3
<1>4. ASSUME NEW c \in Caller, calls'[c].at = "dialog", calls[c].at # "dialog" PROVE ToolFits(calls'[c])
  <2>1. calls'[c] # calls[c]
    BY <1>4
  <2>2. QED
    BY <1>3, <1>4, <2>1 DEF Turns
<1>5. ASSUME NEW c \in Caller, calls'[c].at = "connecting", calls[c].at \notin {"connecting", "signedIn"}
      PROVE  MayConnect(calls'[c])
  <2>1. calls'[c] # calls[c]
    BY <1>5
  <2>2. QED
    BY <1>3, <1>5, <2>1 DEF Turns
<1>6. QED
  BY <1>4, <1>5, GoesOnKeeps

\* The instance looks its names up on each server, offers what can be called, and asks once.
LEMMA ProxyStates ==
  ASSUME SomeServers, Proxy!ProxyInv
  PROVE  Proxy!DescribedIsCalled /\ Proxy!OfferedIsCallable /\ Proxy!OneSignIn /\ Proxy!SignedInIsUsable
<1>1. Proxy!OneSignIn
  <2> SUFFICES ASSUME NEW c \in Caller PROVE calls[c].signIns <= 1
    BY DEF Proxy!OneSignIn
  <2>1. calls[c] \in Proxy!Calls /\ (calls[c].attempted => calls[c].signIns <= 1) /\ (~calls[c].attempted => calls[c].signIns = 0)
    BY WaitsFit DEF Proxy!CallHolds
  <2>2. QED
    BY <2>1, CallFields
<1>2. QED
  BY <1>1, ProxyParts, DescribedAreCalled, OfferedAreCallable

\* Calls through the `mcp` tool run the tool their name means, describe and search agree with them, and
\* each asks to sign in once at most, keeps the back-off and leaves what others connected.
THEOREM ProxyHolds ==
  ASSUME SomeServers
  PROVE  MCSpec => ProxyIsTrue
<1> DEFINE Steps ==
             /\ \A c \in Caller : calls'[c].at = "dialog" /\ calls[c].at # "dialog" => ToolFits(calls'[c])
             /\ \A c \in Caller : calls'[c].at = "connecting" /\ calls[c].at \notin {"connecting", "signedIn"} =>
                  MayConnect(calls'[c])
             /\ \A c \in Caller : Proxy!GoesOn(c) /\ calls[c].next = "again" =>
                  (server[calls[c].server].status = "connected" => server' = server)
           States == Proxy!DescribedIsCalled /\ Proxy!OfferedIsCallable /\ Proxy!OneSignIn /\ Proxy!SignedInIsUsable
<1>1. MCInit => Proxy!ProxyInv
  BY ProxyBegins DEF MCInit
<1>2. Proxy!ProxyInv /\ [MCNext]_<<focus, vars, proxy>> => Proxy!ProxyInv' /\ [Steps]_(Proxy!vars)
  <2> SUFFICES ASSUME Proxy!ProxyInv, [MCNext]_<<focus, vars, proxy>> PROVE Proxy!ProxyInv' /\ [Steps]_(Proxy!vars)
    OBVIOUS
  <2>1. CASE Proxy!Next
    BY <2>1, ProxyNextKeeps, ProxySteps DEF StepKeeps
  <2>2. CASE UNCHANGED proxy
    BY <2>2 DEF proxy, Proxy!vars, Proxy!ProxyInv, Proxy!TypeOK, Proxy!BeginsUnset, Proxy!SignedInIsUsable, Proxy!New
  <2>3. QED
    BY <2>1, <2>2 DEF MCNext, Calling
<1>3. Proxy!ProxyInv => States
  BY ProxyStates
<1>4. Steps => \A c \in Caller :
        calls'[c].at = "dialog" /\ calls[c].at # "dialog" =>
          LET t == calls'[c].tool IN
          /\ server[t.server].on /\ t.server = calls'[c].server
          /\ IF calls'[c].scope # None THEN t.server = calls'[c].scope
             ELSE calls'[c].rivals \subseteq {t.server}
          /\ t.kind # "displayed" => server'[t.server].known["displayed"] = 0
  BY DEF ToolFits
<1>5. Steps => \A c \in Caller :
        calls'[c].at = "connecting" /\ calls[c].at \notin {"connecting", "signedIn"} =>
          LET s == server[calls'[c].server] IN
          s.status = "connected" \/ ~s.failed \/ calls'[c].next = "connect"
  BY DEF MayConnect
<1>6. Steps => \A c \in Caller : Proxy!GoesOn(c) /\ calls[c].next = "again" =>
        (server[calls[c].server].status = "connected" => UNCHANGED server)
  OBVIOUS
<1>7. MCSpec => []Proxy!ProxyInv /\ [][Steps]_(Proxy!vars)
  BY <1>1, <1>2, PTL DEF MCSpec
<1>8. QED
  BY <1>3, <1>4, <1>5, <1>6, <1>7, PTL DEF ProxyIsTrue, Proxy!RunsTheToolNamed, Proxy!BackoffIsKept, Proxy!RecoveryClosesNothing
=============================================================================
