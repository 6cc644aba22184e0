---------------------------- MODULE ServerRoutes ----------------------------
(***************************************************************************)
(* McpServerManager (server-manager.ts) for one server name: the route     *)
(* that getConnection() hands out, and the connect(), reconnect(), close() *)
(* and closeAll() calls that race to replace it.  Every map of the class   *)
(* is keyed by the server name, so names do not interact except through    *)
(* the stopped flag and the runtime signal.                                *)
(*                                                                         *)
(* Call is the set of API calls made in a behaviour; a call is made once.  *)
(* A connect or reconnect call builds at most one connection, so the       *)
(* connection is named by the call that builds it.  Two counters of the    *)
(* code are kept as the comparison they serve: closeGenerations as         *)
(* fenced[p] ("a close() came after p captured the generation"), the       *)
(* OAuth generation as authority[p] ("p's captured authority still         *)
(* holds").  A call the code rejects before it touches a map changes       *)
(* nothing and is left out.                                                *)
(***************************************************************************)
EXTENDS Naturals, FiniteSets

CONSTANTS
  Call,       \* the API calls of a behaviour, also the connections they build
  None,
  Ops,        \* the operations that the callers use
  Abortable,  \* the calls made with an AbortSignal
  UsesOAuth   \* definition.url && supportsOAuth(definition)

Operations == {"connect", "reconnect", "close", "closeAll"}

ASSUME NoneIsNoCall == None \notin Call
ASSUME OpsAreOperations == Ops \subseteq Operations
ASSUME AbortableAreCalls == Abortable \subseteq Call
ASSUME UsesOAuthIsBoolean == UsesOAuth \in BOOLEAN

VARIABLES
  route,          \* connections.get(name), None when the map has no entry
  status,         \* ServerConnection.status of each connection
  held,           \* the connection has a client that is still open
  published,      \* history: every connection that was the route
  connectSlot,    \* owner of the connectPromises/connectAttempts entry
  reconnectSlot,  \* owner of the reconnectPromises/reconnectAttempts entry
  closeSlot,      \* owner of the closePromises entry
  stopped,
  runtimeAborted, \* the runtime owner's AbortSignal
  revoking,       \* an OAuth revocation interval is open
  op,             \* the operation of each call
  pc,             \* where each call waits
  stage,          \* progress of the promise a call owns (build or disposal)
  target,         \* the connection to replace (reconnect) or to reap (close)
  peer,           \* the call whose build or disposal p awaits
  peerRun,        \* the reconnect run that a close awaits
  fenced, authority,
  ctl, rctl,      \* the connect/reconnect attemptController was aborted
  sig,            \* the caller's own AbortSignal was aborted
  ret             \* what a finished call returned, None when it threw

maps    == <<route, status, held, published, connectSlot, reconnectSlot, closeSlot>>
flags   == <<stopped, runtimeAborted, revoking>>
aborts  == <<fenced, authority, ctl, rctl, sig>>
frames  == <<op, pc, stage, target, peer, peerRun, ret>>
vars    == <<maps, flags, aborts, frames>>

CallOrNone == Call \cup {None}
Building   == {"buildConnect", "buildReplacement"}
PC == {"idle", "waitClose", "joinConnect", "joinReconnect", "discard", "replace",
       "drain", "reap", "joinClose", "waitAttempts", "done"} \cup Building
Stages == {"none", "handshake", "discovery", "ready", "ok", "failed"}

\* The values of every variable of the manager and of every call's frame.
TypeOK ==
  /\ route \in CallOrNone
  /\ status \in [Call -> {"none", "connected", "needs-auth", "closed"}]
  /\ held \in [Call -> BOOLEAN]
  /\ published \subseteq Call
  /\ connectSlot \in CallOrNone /\ reconnectSlot \in CallOrNone /\ closeSlot \in CallOrNone
  /\ stopped \in BOOLEAN /\ runtimeAborted \in BOOLEAN /\ revoking \in BOOLEAN
  /\ op \in [Call -> Operations \cup {"none"}]
  /\ pc \in [Call -> PC]
  /\ stage \in [Call -> Stages]
  /\ target \in [Call -> CallOrNone] /\ peer \in [Call -> CallOrNone]
  /\ peerRun \in [Call -> CallOrNone] /\ ret \in [Call -> CallOrNone]
  /\ fenced \in [Call -> BOOLEAN] /\ authority \in [Call -> BOOLEAN]
  /\ ctl \in [Call -> BOOLEAN] /\ rctl \in [Call -> BOOLEAN] /\ sig \in [Call -> BOOLEAN]

Init ==
  /\ route = None
  /\ status = [p \in Call |-> "none"]
  /\ held = [p \in Call |-> FALSE]
  /\ published = {}
  /\ connectSlot = None /\ reconnectSlot = None /\ closeSlot = None
  /\ stopped = FALSE /\ runtimeAborted = FALSE /\ revoking = FALSE
  /\ op = [p \in Call |-> "none"]
  /\ pc = [p \in Call |-> "idle"]
  /\ stage = [p \in Call |-> "none"]
  /\ target = [p \in Call |-> None] /\ peer = [p \in Call |-> None]
  /\ peerRun = [p \in Call |-> None] /\ ret = [p \in Call |-> None]
  /\ fenced = [p \in Call |-> FALSE] /\ authority = [p \in Call |-> TRUE]
  /\ ctl = [p \in Call |-> FALSE] /\ rctl = [p \in Call |-> FALSE]
  /\ sig = [p \in Call |-> FALSE]

-----------------------------------------------------------------------------
(* Helpers. *)

Signalled(p)      == sig[p] \/ runtimeAborted
RequestAborted(p) == Signalled(p) \/ rctl[p]
AttemptAborted(p) == RequestAborted(p) \/ ctl[p]

\* arbitrateConnectionAttempt: an attempt whose OAuth authority still holds is shared.
Reusable(q) == q # None /\ (UsesOAuth => authority[q])

\* arbitrateConnectionAttempt: any other attempt is aborted and forgotten.
Abort(controllers, q) == IF q = None THEN controllers ELSE [controllers EXCEPT ![q] = TRUE]

\* MUTANT of Released: the entry is deleted whoever owns it.
ReleasedWhoeverOwns(slot, p) == None

\* The finally blocks of connect(), reconnect() and close(): compare and delete.
Released(slot, p) == IF slot = p THEN None ELSE slot

Begin(p, operation) == pc[p] = "idle" /\ operation \in Ops /\ op' = [op EXCEPT ![p] = operation]

Move(p, where) == pc' = [pc EXCEPT ![p] = where]

Await(p, where, q) ==
  /\ Move(p, where)
  /\ peer' = [peer EXCEPT ![p] = q]
  /\ UNCHANGED <<stage, ret, status, held, fenced>>

\* The call settles with r.
Settle(p, r) == Move(p, "done") /\ ret' = [ret EXCEPT ![p] = r]

StartBuild(p, where) ==
  /\ Move(p, where)
  /\ stage' = [stage EXCEPT ![p] = "handshake"]
  /\ held' = [held EXCEPT ![p] = TRUE]
  /\ fenced' = [fenced EXCEPT ![p] = FALSE]
  /\ UNCHANGED <<peer, ret, status>>

ReturnNow(p, r) == Settle(p, r) /\ UNCHANGED <<peer, stage, status, held, fenced>>

-----------------------------------------------------------------------------
(* connect() *)

\* Everything connect() does between its last await and its next one.
ConnectArbitrates(p) ==
  IF Reusable(connectSlot)
  THEN Await(p, "joinConnect", connectSlot) /\ UNCHANGED <<connectSlot, reconnectSlot, ctl, rctl>>
  ELSE IF route # None /\ status[route] = "connected"
  THEN /\ ReturnNow(p, route)
       /\ connectSlot' = None /\ ctl' = Abort(ctl, connectSlot)
       /\ reconnectSlot' = Released(reconnectSlot, p) /\ UNCHANGED rctl
  ELSE IF Reusable(reconnectSlot)
  THEN /\ Await(p, "joinReconnect", reconnectSlot)
       /\ connectSlot' = None /\ ctl' = Abort(ctl, connectSlot)
       /\ UNCHANGED <<reconnectSlot, rctl>>
  ELSE /\ StartBuild(p, "buildConnect")
       /\ connectSlot' = p /\ ctl' = Abort(ctl, connectSlot)
       /\ reconnectSlot' = None /\ rctl' = Abort(rctl, reconnectSlot)

Connect(p) ==
  /\ Begin(p, "connect")
  /\ ~stopped /\ ~runtimeAborted
  /\ authority' = [authority EXCEPT ![p] = ~revoking]
  /\ IF closeSlot # None
     THEN Await(p, "waitClose", closeSlot) /\ UNCHANGED <<connectSlot, reconnectSlot, ctl, rctl>>
     ELSE ConnectArbitrates(p)
  /\ UNCHANGED <<flags, route, published, closeSlot, sig, target, peerRun>>

\* connect() goes on once the close() it found in progress is over.
ConnectResumes(p) ==
  /\ pc[p] = "waitClose" /\ stage[peer[p]] = "ok"
  /\ ~RequestAborted(p)
  /\ ConnectArbitrates(p)
  /\ UNCHANGED <<flags, route, published, closeSlot, sig, op, target, peerRun, authority>>

-----------------------------------------------------------------------------
(* reconnect() and the first, synchronous part of doReconnect() *)

\* doReconnect(): only the reported connection is replaced; another one is returned
\* as it is, and without a route the run falls back to connect().
DoReconnect(p, stale) ==
  /\ ctl' = Abort(ctl, connectSlot) /\ rctl' = Abort(rctl, reconnectSlot)
  /\ \/ /\ route = stale
        /\ StartBuild(p, "buildReplacement")
        /\ connectSlot' = None /\ reconnectSlot' = p
     \/ /\ route \notin {stale, None}
        /\ ReturnNow(p, route)
        /\ connectSlot' = None /\ reconnectSlot' = None
     \/ /\ route = None /\ closeSlot # None
        /\ Await(p, "waitClose", closeSlot)
        /\ connectSlot' = None /\ reconnectSlot' = p
     \/ /\ route = None /\ closeSlot = None
        /\ StartBuild(p, "buildConnect")
        /\ connectSlot' = p /\ reconnectSlot' = p

Reconnect(p, stale) ==
  /\ Begin(p, "reconnect")
  /\ ~stopped /\ ~runtimeAborted
  /\ stale \in published
  /\ target' = [target EXCEPT ![p] = stale]
  /\ authority' = [authority EXCEPT ![p] = ~revoking]
  /\ IF Reusable(connectSlot)
     THEN Await(p, "joinConnect", connectSlot) /\ UNCHANGED <<connectSlot, reconnectSlot, ctl, rctl>>
     ELSE IF Reusable(reconnectSlot)
     THEN /\ Await(p, "joinReconnect", reconnectSlot)
          /\ connectSlot' = None /\ ctl' = Abort(ctl, connectSlot)
          /\ UNCHANGED <<reconnectSlot, rctl>>
     ELSE DoReconnect(p, stale)
  /\ UNCHANGED <<flags, route, published, closeSlot, sig, peerRun>>

-----------------------------------------------------------------------------
(* createConnection() *)

HandshakeDone(p) ==
  /\ pc[p] \in Building /\ stage[p] = "handshake" /\ ~AttemptAborted(p)
  /\ stage' = [stage EXCEPT ![p] = "discovery"]
  /\ status' = [status EXCEPT ![p] = "connected"]
  /\ UNCHANGED <<flags, aborts, route, held, published, connectSlot, reconnectSlot, closeSlot,
                 op, pc, target, peer, peerRun, ret>>

\* tools, resources and prompts are listed; the task session is being attached
DiscoveryDone(p) ==
  /\ pc[p] \in Building /\ stage[p] = "discovery" /\ ~RequestAborted(p)
  /\ status[p] = "connected"
  /\ stage' = [stage EXCEPT ![p] = "ready"]
  /\ UNCHANGED <<maps, flags, aborts, op, pc, target, peer, peerRun, ret>>

\* An authorization challenge ends the build with a needs-auth record and no client.
Challenged(p) ==
  /\ pc[p] \in Building
  /\ \/ stage[p] = "handshake" /\ ~AttemptAborted(p)
     \/ stage[p] = "discovery" /\ ~RequestAborted(p) /\ status[p] = "connected"
  /\ stage' = [stage EXCEPT ![p] = "ready"]
  /\ status' = [status EXCEPT ![p] = "needs-auth"]
  /\ held' = [held EXCEPT ![p] = FALSE]
  /\ UNCHANGED <<flags, aborts, route, published, connectSlot, reconnectSlot, closeSlot,
                 op, pc, target, peer, peerRun, ret>>

\* The build throws after closing its own client, and the call throws with it.
BuildFails(p) ==
  /\ pc[p] \in Building /\ stage[p] \in {"handshake", "discovery"}
  /\ stage' = [stage EXCEPT ![p] = "failed"]
  /\ status' = [status EXCEPT ![p] = "closed"]
  /\ held' = [held EXCEPT ![p] = FALSE]
  /\ Settle(p, None)
  /\ connectSlot' = Released(connectSlot, p) /\ reconnectSlot' = Released(reconnectSlot, p)
  /\ UNCHANGED <<flags, aborts, route, published, closeSlot, op, target, peer, peerRun>>

\* client.onclose: the server went away, and the transport with it.
RemoteClose(p) ==
  /\ held[p] /\ status[p] = "connected"
  /\ status' = [status EXCEPT ![p] = "closed"]
  /\ held' = [held EXCEPT ![p] = FALSE]
  /\ UNCHANGED <<flags, aborts, frames, route, published, connectSlot, reconnectSlot, closeSlot>>

-----------------------------------------------------------------------------
(* The owner of an attempt continues once its connection is built. *)

\* MUTANT of ConnectFenced: publish whatever was built.
NeverFenced(p) == FALSE

ConnectFenced(p) == ctl[p] \/ fenced[p]

ConnectPublishes(p) ==
  /\ pc[p] = "buildConnect" /\ stage[p] = "ready" /\ ~ConnectFenced(p)
  /\ stage' = [stage EXCEPT ![p] = "ok"]
  /\ route' = p /\ published' = published \cup {p}
  /\ Settle(p, p)
  /\ connectSlot' = Released(connectSlot, p) /\ reconnectSlot' = Released(reconnectSlot, p)
  /\ UNCHANGED <<flags, aborts, status, held, closeSlot, op, target, peer, peerRun>>

ReplacementFenced(p) == AttemptAborted(p) \/ reconnectSlot # p \/ fenced[p]

ReplacementPublishes(p) ==
  /\ pc[p] = "buildReplacement" /\ stage[p] = "ready" /\ ~ReplacementFenced(p)
  /\ route = target[p]
  /\ stage' = [stage EXCEPT ![p] = "ok"]
  /\ route' = p /\ published' = published \cup {p}
  /\ status' = [status EXCEPT ![target[p]] = "closed"]
  /\ Move(p, "replace")
  /\ UNCHANGED <<flags, aborts, held, connectSlot, reconnectSlot, closeSlot, op, target, peer, peerRun, ret>>

\* A fenced or late candidate is disposed, never the registered route.
CandidateDiscarded(p) ==
  /\ stage[p] = "ready"
  /\ \/ pc[p] = "buildConnect" /\ ConnectFenced(p)
     \/ pc[p] = "buildReplacement" /\ (ReplacementFenced(p) \/ route # target[p])
  /\ stage' = [stage EXCEPT ![p] = "ok"]
  /\ Move(p, "discard")
  /\ peer' = [peer EXCEPT ![p] = IF pc[p] = "buildReplacement" /\ ~ReplacementFenced(p)
                                 THEN route ELSE None]
  /\ UNCHANGED <<maps, flags, aborts, op, target, peerRun, ret>>

\* MUTANT of Discarded: the late candidate is dropped without disposeConnection().
DroppedOpen(p) ==
  /\ pc[p] = "discard"
  /\ \E r \in {peer[p], None} : Settle(p, r)
  /\ connectSlot' = Released(connectSlot, p) /\ reconnectSlot' = Released(reconnectSlot, p)
  /\ UNCHANGED <<flags, aborts, route, status, held, published, closeSlot, op, stage, target, peer, peerRun>>

\* The candidate's disposal is over: throw, or return the route found instead.
Discarded(p) ==
  /\ pc[p] = "discard"
  /\ held' = [held EXCEPT ![p] = FALSE]
  /\ status' = [status EXCEPT ![p] = "closed"]
  /\ \E r \in {peer[p], None} : Settle(p, r)
  /\ connectSlot' = Released(connectSlot, p) /\ reconnectSlot' = Released(reconnectSlot, p)
  /\ UNCHANGED <<flags, aborts, route, published, closeSlot, op, stage, target, peer, peerRun>>

\* MUTANT of StaleReaped: disposes the connection found in the map by name.
RouteReaped(p) ==
  /\ pc[p] = "replace"
  /\ held' = IF route = None THEN held ELSE [held EXCEPT ![route] = FALSE]
  /\ Settle(p, IF fenced[p] \/ route # p \/ status[p] = "closed" THEN None ELSE p)
  /\ reconnectSlot' = Released(reconnectSlot, p)
  /\ UNCHANGED <<flags, aborts, route, status, published, connectSlot, closeSlot,
                 op, stage, target, peer, peerRun>>

\* Work moved to the fresh connection and the stale one is reaped, failing or not.
StaleReaped(p) ==
  /\ pc[p] = "replace"
  /\ held' = [held EXCEPT ![target[p]] = FALSE]
  /\ Settle(p, IF fenced[p] \/ route # p \/ status[p] = "closed" THEN None ELSE p)
  /\ reconnectSlot' = Released(reconnectSlot, p)
  /\ UNCHANGED <<flags, aborts, route, status, published, connectSlot, closeSlot,
                 op, stage, target, peer, peerRun>>

-----------------------------------------------------------------------------
(* Calls that share the attempt of another call. *)

\* A sharer gets what createConnection() resolved to, whatever the owner does with it.
ConnectShared(p) ==
  /\ pc[p] = "joinConnect" /\ stage[peer[p]] \in {"ok", "failed"}
  /\ Settle(p, IF stage[peer[p]] = "ok" THEN peer[p] ELSE None)
  /\ reconnectSlot' = Released(reconnectSlot, p)
  /\ UNCHANGED <<flags, aborts, route, status, held, published, connectSlot, closeSlot,
                 op, stage, target, peer, peerRun>>

\* A sharer of a reconnect gets the outcome of the whole run.
ReconnectShared(p) ==
  /\ pc[p] = "joinReconnect" /\ pc[peer[p]] = "done"
  /\ Settle(p, ret[peer[p]])
  /\ reconnectSlot' = Released(reconnectSlot, p)
  /\ UNCHANGED <<flags, aborts, route, status, held, published, connectSlot, closeSlot,
                 op, stage, target, peer, peerRun>>

\* MUTANT of WaitThrows: a failed close() never reaches the connect() that awaits it.
WaitThrowsOnAbortOnly(p) ==
  /\ pc[p] \in {"waitClose", "joinConnect", "joinReconnect"} /\ RequestAborted(p)
  /\ Settle(p, None)
  /\ reconnectSlot' = Released(reconnectSlot, p)
  /\ UNCHANGED <<flags, aborts, route, status, held, published, connectSlot, closeSlot,
                 op, stage, target, peer, peerRun>>

\* abortable(): a waiting call throws when its signal aborts or the awaited close fails.
WaitThrows(p) ==
  /\ \/ pc[p] \in {"waitClose", "joinConnect", "joinReconnect"} /\ RequestAborted(p)
     \/ pc[p] = "waitClose" /\ stage[peer[p]] = "failed"
  /\ Settle(p, None)
  /\ reconnectSlot' = Released(reconnectSlot, p)
  /\ UNCHANGED <<flags, aborts, route, status, held, published, connectSlot, closeSlot,
                 op, stage, target, peer, peerRun>>

-----------------------------------------------------------------------------
(* close() and closeAll() *)

\* MUTANT of FenceAttempts: aborts the attempts, leaves the generation alone.
FenceWithoutGeneration ==
  /\ fenced' = fenced
  /\ ctl' = Abort(ctl, connectSlot) /\ rctl' = Abort(rctl, reconnectSlot)

\* The generation bump and the aborts that close() and closeAll() begin with.
FenceAttempts ==
  /\ fenced' = [q \in Call |-> fenced[q] \/ pc[q] \in Building \cup {"replace"}]
  /\ ctl' = Abort(ctl, connectSlot) /\ rctl' = Abort(rctl, reconnectSlot)

CloseBody(p) ==
  /\ FenceAttempts
  /\ IF route # None
     THEN /\ Move(p, "reap")
          /\ target' = [target EXCEPT ![p] = route]
          /\ peer' = [peer EXCEPT ![p] = None]
          /\ peerRun' = [peerRun EXCEPT ![p] = reconnectSlot]
          /\ status' = [status EXCEPT ![route] = "closed"]
          /\ route' = None
          /\ closeSlot' = p
     ELSE /\ Move(p, IF closeSlot # None THEN "joinClose" ELSE "waitAttempts")
          /\ peer' = [peer EXCEPT ![p] = IF closeSlot # None THEN closeSlot ELSE connectSlot]
          /\ peerRun' = [peerRun EXCEPT ![p] = reconnectSlot]
          /\ UNCHANGED <<target, status, route, closeSlot>>
  /\ UNCHANGED <<held, published, connectSlot, reconnectSlot, authority, sig, stage, ret>>

Close(p) ==
  /\ Begin(p, "close")
  /\ CloseBody(p)
  /\ UNCHANGED flags

\* MUTANT of Reaped: a failed disposal leaves the promise that other closes await pending.
ReapedSettlesOnSuccess(p) ==
  /\ pc[p] = "reap"
  /\ held' = [held EXCEPT ![target[p]] = FALSE]
  /\ closeSlot' = Released(closeSlot, p)
  /\ \/ stage' = [stage EXCEPT ![p] = "ok"] /\ Move(p, "waitAttempts")
     \/ stage' = stage /\ Move(p, "done")
  /\ UNCHANGED <<flags, aborts, route, status, published, connectSlot, reconnectSlot,
                 op, target, peer, peerRun, ret>>

\* disposeConnection() of the closed route settled; its promise is dropped from the map.
Reaped(p) ==
  /\ pc[p] = "reap"
  /\ held' = [held EXCEPT ![target[p]] = FALSE]
  /\ closeSlot' = Released(closeSlot, p)
  /\ \/ stage' = [stage EXCEPT ![p] = "ok"] /\ Move(p, "waitAttempts")
     \/ stage' = [stage EXCEPT ![p] = "failed"] /\ Move(p, "done")
  /\ UNCHANGED <<flags, aborts, route, status, published, connectSlot, reconnectSlot,
                 op, target, peer, peerRun, ret>>

AttemptsSettled(p) ==
  /\ peer[p] # None => stage[peer[p]] \in {"ok", "failed"}
  /\ peerRun[p] # None => pc[peerRun[p]] = "done"

CloseReturns(p) ==
  /\ \/ pc[p] = "joinClose" /\ stage[peer[p]] \in {"ok", "failed"}
     \/ pc[p] = "waitAttempts" /\ AttemptsSettled(p)
  /\ Move(p, "done")
  /\ UNCHANGED <<maps, flags, aborts, op, stage, target, peer, peerRun, ret>>

\* Runs as a cleanup of the runtime owner, whose signal is aborted by then.
CloseAll(p) ==
  /\ Begin(p, "closeAll")
  /\ runtimeAborted
  /\ stopped' = TRUE
  /\ FenceAttempts
  /\ Move(p, "drain")
  /\ target' = [target EXCEPT ![p] = route]
  /\ peer' = [peer EXCEPT ![p] = connectSlot]
  /\ peerRun' = [peerRun EXCEPT ![p] = reconnectSlot]
  /\ UNCHANGED <<maps, runtimeAborted, revoking, authority, sig, stage, ret>>

\* MUTANT of CloseAllCloses: returns once the pending attempts settled.
CloseAllForgets(p) ==
  /\ pc[p] = "drain" /\ AttemptsSettled(p)
  /\ Move(p, "done")
  /\ UNCHANGED <<maps, aborts, stage, target, peer, peerRun, ret, flags, op>>

\* The pending attempts settled: close the routes of the snapshot and any late one.
CloseAllCloses(p) ==
  /\ pc[p] = "drain" /\ AttemptsSettled(p)
  /\ IF target[p] # None \/ route # None
     THEN CloseBody(p)
     ELSE Move(p, "done") /\ UNCHANGED <<maps, aborts, stage, target, peer, peerRun, ret>>
  /\ UNCHANGED <<flags, op>>

-----------------------------------------------------------------------------
(* The environment: aborts, the end of the runtime, OAuth revocations. *)

AbortCaller(p) ==
  /\ p \in Abortable
  /\ pc[p] \in {"waitClose", "joinConnect", "joinReconnect"} \cup Building
  /\ ~sig[p]
  /\ sig' = [sig EXCEPT ![p] = TRUE]
  /\ UNCHANGED <<maps, flags, frames, fenced, authority, ctl, rctl>>

StopRuntime ==
  /\ "closeAll" \in Ops /\ ~runtimeAborted
  /\ runtimeAborted' = TRUE
  /\ UNCHANGED <<maps, aborts, frames, stopped, revoking>>

BeginRevocation ==
  /\ UsesOAuth /\ ~revoking
  /\ revoking' = TRUE
  /\ authority' = [p \in Call |-> FALSE]
  /\ UNCHANGED <<maps, frames, stopped, runtimeAborted, fenced, ctl, rctl, sig>>

EndRevocation ==
  /\ revoking
  /\ revoking' = FALSE
  /\ UNCHANGED <<maps, aborts, frames, stopped, runtimeAborted>>

Next ==
  \/ \E p \in Call :
       \/ Connect(p) \/ ConnectResumes(p)
       \/ \E stale \in Call : Reconnect(p, stale)
       \/ HandshakeDone(p) \/ DiscoveryDone(p) \/ Challenged(p) \/ BuildFails(p)
       \/ RemoteClose(p)
       \/ ConnectPublishes(p) \/ ReplacementPublishes(p)
       \/ CandidateDiscarded(p) \/ Discarded(p) \/ StaleReaped(p)
       \/ ConnectShared(p) \/ ReconnectShared(p) \/ WaitThrows(p)
       \/ Close(p) \/ Reaped(p) \/ CloseReturns(p)
       \/ CloseAll(p) \/ CloseAllCloses(p)
       \/ AbortCaller(p)
  \/ StopRuntime \/ BeginRevocation \/ EndRevocation

Spec == Init /\ [][Next]_vars

\* What a started call waits for does happen: a build ends (the SDK bounds its
\* requests by timeouts), a disposal ends, and a settled promise resumes its
\* waiters.  Nothing makes a caller start or abort, a server close, or a
\* revocation begin or end.
Progress(p) ==
  \/ HandshakeDone(p) \/ DiscoveryDone(p) \/ Challenged(p) \/ BuildFails(p)
  \/ ConnectResumes(p) \/ ConnectPublishes(p) \/ ReplacementPublishes(p)
  \/ CandidateDiscarded(p) \/ Discarded(p) \/ StaleReaped(p)
  \/ ConnectShared(p) \/ ReconnectShared(p) \/ WaitThrows(p)
  \/ Reaped(p) \/ CloseReturns(p) \/ CloseAllCloses(p)

FairSpec == Spec /\ \A p \in Call : WF_vars(Progress(p))

-----------------------------------------------------------------------------
(* Safety *)

\* Two attempts for one server are never both alive: the arbitration, the
\* fallback of a reconnect to connect() and the resumption after a close()
\* abort or share the attempt they find ("must not create competing OAuth
\* owners").
Alive(p) == pc[p] \in Building /\ stage[p] # "failed" /\ ~AttemptAborted(p) /\ ~fenced[p]
OneLiveAttempt == \A p, q \in Call : Alive(p) /\ Alive(q) => p = q

\* No client is lost: an open one is the route, a candidate its builder will
\* publish or dispose, or a displaced connection somebody is disposing.
Disposing(p, c) == pc[p] \in {"replace", "reap"} /\ target[p] = c
OpenClientsAreOwned ==
  \A c \in Call : held[c] =>
    \/ c = route
    \/ pc[c] \in Building \cup {"discard"}
    \/ \E p \in Call : Disposing(p, c)

\* The route that calls are sent to never has its client closed under it by a
\* stale disposal: a route that claims to be connected has an open client.
ConnectedRouteIsOpen == route # None /\ status[route] = "connected" => held[route]

\* After closeAll() has returned there is no route, no attempt that could still
\* publish one, and the only open clients are those being disposed.
ShutdownIsFinal ==
  \A p \in Call : op[p] = "closeAll" /\ pc[p] = "done" =>
    /\ route = None
    /\ \A q \in Call : ~Alive(q)
    /\ \A c \in Call : held[c] =>
         pc[c] \in Building \cup {"discard"} \/ \E q \in Call : Disposing(q, c)

\* Why they hold: the inductive strengthening that ServerRoutesProofs proves.
Waiting == {"waitClose", "joinConnect", "joinReconnect"}

\* A call waits for the promise of some call.
WaitersHavePeers == \A p \in Call : pc[p] \in Waiting => peer[p] \in Call

\* A slot is released before its owner is done.
SlotsAreOwned ==
  /\ connectSlot # None => pc[connectSlot] \in {"buildConnect", "discard"}
  /\ reconnectSlot # None => pc[reconnectSlot] \in Waiting \cup Building \cup {"discard", "replace"}

\* An attempt that lost its slot was aborted, and a replacement is only under way
\* in the absence of a connect attempt.
SlotsExclude ==
  /\ \A p \in Call : pc[p] = "buildConnect" => connectSlot = p \/ ctl[p]
  /\ \A p \in Call : pc[p] = "buildReplacement" => reconnectSlot = p \/ rctl[p]
  /\ connectSlot # None /\ reconnectSlot # None => pc[reconnectSlot] # "buildReplacement"

\* A connect attempt that may still publish found no usable route, and none appears.
ConnectFindsNoRoute ==
  \A p \in Call : pc[p] = "buildConnect" /\ ~ConnectFenced(p) =>
    route = None \/ status[route] # "connected"

\* Connections by age: unpublished while built, connected only with an open client.
BuildsArePrivate ==
  /\ route # None => route \in published
  /\ \A c \in published : pc[c] \in {"replace", "done"}
  /\ \A c \in Call : pc[c] = "idle" => op[c] = "none"
  /\ \A c \in Call : pc[c] \in Waiting \cup {"idle"} => status[c] = "none"
  /\ \A c \in Call : status[c] = "connected" => held[c]
  /\ \A c \in Call : pc[c] \in Building /\ stage[c] = "handshake" => held[c] /\ status[c] = "none"
  /\ \A c \in Call : pc[c] \in Building /\ stage[c] = "ready" /\ held[c] => status[c] = "connected"
  /\ route # None /\ held[route] => status[route] = "connected"

\* What is being reaped was displaced, and stays displaced.
DisplacedStayClosed ==
  \A p \in Call : pc[p] \in {"replace", "reap"} =>
    target[p] \in published /\ status[target[p]] = "closed" /\ target[p] # route

\* The stop flag closes every way to a publication.
StopFences ==
  /\ stopped => runtimeAborted
  /\ stopped => \A p \in Call : pc[p] \in Building => fenced[p]
  /\ \A p \in Call : pc[p] = "drain" => op[p] = "closeAll"
  /\ \A p \in Call : op[p] = "closeAll" =>
       stopped /\ (pc[p] = "drain" \/ (pc[p] \in {"reap", "joinClose", "waitAttempts", "done"} /\ route = None))

\* A replacement is built for the connection its caller reported.
ReplacementsWereAsked ==
  /\ \A p \in Call : pc[p] = "buildReplacement" => op[p] = "reconnect"
  /\ \A p \in Call : op[p] = "reconnect" => target[p] \in published

\* The inductive invariant, in three parts.
Arbitration == WaitersHavePeers /\ SlotsAreOwned /\ SlotsExclude /\ ConnectFindsNoRoute
Lifecycles  == BuildsArePrivate /\ DisplacedStayClosed /\ OpenClientsAreOwned
Intents     == StopFences /\ ReplacementsWereAsked

IInv == TypeOK /\ Arbitration /\ Lifecycles /\ Intents

\* The route table as the callers see it.
Contract == INSTANCE RouteTable WITH
  Conn     <- Call,
  usable   <- {c \in published : status[c] = "connected"},
  suspects <- {c \in published : \E p \in Call : op[p] = "reconnect" /\ target[p] = c},
  ended    <- stopped
RoutesAsPromised == Contract!Spec

-----------------------------------------------------------------------------
(* Liveness *)

\* A call that awaits its own promise: reconnect() found no route because a
\* close() was in progress, fell back to connect(), and connect(), resumed, found
\* the reconnectPromises entry of this very run.
AwaitsItself(p) == pc[p] = "joinReconnect" /\ peer[p] = p

\* Every call settles, whatever closes, aborts and server deaths it races with,
\* as long as no reconnect awaits itself: no cycle of waits among the calls.
CallsSettle ==
  \A p \in Call : []<>(pc[p] \in {"idle", "done"} \/ \E q \in Call : AwaitsItself(q))

\* close() and closeAll() settle even then, since they abort what they wait for.
ClosesSettle ==
  \A p \in Call : []<>(op[p] \in {"close", "closeAll"} => pc[p] = "done")

\* "A stopped server starts again on its next call": a connect or reconnect
\* that is not aborted ends with a route or an error, it does not wait for ever.
NextCallIsAnswered ==
  \A p \in Call : op[p] \in {"connect", "reconnect"} ~> pc[p] = "done"

\* "Publication is not permission to return a route that close() disposed": what
\* connect() and reconnect() return has been the route.
ReturnsAreRoutes == \A p \in Call : ret[p] # None => ret[p] \in published
=============================================================================
