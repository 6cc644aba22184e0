-------------------------------- MODULE SignIn --------------------------------
(***************************************************************************)
(* OAuth sign-in to one server (mcp-auth-flow.ts) over the callback server *)
(* that all sessions of the process share (mcp-callback-server.ts), with   *)
(* logouts (mcp-auth.ts) and sessions that shut down and start again.      *)
(*                                                                         *)
(* A flow is one operation and the OAuth state it generated.  Its kinds:   *)
(* "authenticate" waits for the browser, "start" only returns the URL and  *)
(* is completed by input, "silent" refreshes or uses client credentials.   *)
(* Continuations that run in microtasks belong to the step that resolved   *)
(* their promise.  Flows may be for different URLs of the server, so only  *)
(* Join uses a pending flow again.                                         *)
(***************************************************************************)
EXTENDS Naturals

CONSTANTS Flow, Session, None, MaxLogouts

VARIABLES
  at,        \* where each flow is suspended
  session,   \* the session, i.e. McpOAuthRuntime, it belongs to
  kind,
  holds,     \* the flows whose authority() holds: no logout since they began
  aborted,   \* the flows whose session was shut down
  active,    \* the pending flows whose provider was not deactivated
  fenced,    \* the flows awaiting the callback server that captured an older generation
  callback,  \* the state of the flow in the callback server's tables
  pasted,    \* the flow whose code was given to completeAuth() by input
  holder,    \* pendingAuths and pendingAuthStates of each session
  alive,     \* activeRuntimes
  server, binding, stopping, \* the callback server
  logout,    \* how many removeAuth() await the server's stop, and how many go on
  credentials \* history: "removed" since a logout, "revived" by work from before it, "stray"
              \* if a flow saved that was no longer its session's pending one, or "any"

flowVars == <<at, session, kind, holds, aborted, active, fenced, callback, pasted>>
httpVars == <<server, binding, stopping>>
vars == <<flowVars, holder, alive, httpVars, logout, credentials>>

Kinds == {"authenticate", "start", "silent"}

TypeOK ==
  /\ at \in [Flow -> {"free", "queued", "binding", "asking", "held", "waiting",
                      "completing", "cancelled"}]
  /\ session \in [Flow -> Session] /\ kind \in [Flow -> Kinds]
  /\ holds \subseteq Flow /\ aborted \subseteq Flow /\ active \subseteq Flow
  /\ fenced \subseteq Flow /\ pasted \in Flow \cup {None}
  /\ callback \in [Flow -> {"none", "reserved", "pending"}]
  /\ holder \in [Session -> Flow \cup {None}] /\ alive \subseteq Session
  /\ server \in {"down", "up"} /\ binding \in Flow \cup {None}
  /\ stopping \in {"no", "idle", "full"}
  /\ logout \in [stopping : 0..MaxLogouts, clearing : 0..MaxLogouts]
  /\ credentials \in {"any", "removed", "revived", "stray"}

Live == {f \in Flow : at[f] # "free" \/ f = pasted}
LoggingOut == logout.stopping + logout.clearing > 0
Fresh == CHOOSE f \in Flow : f \notin Live
AnySession == CHOOSE s \in Session : TRUE

\* A flow that has ended is forgotten; the others keep what they are.
Settle(h, a, w) ==
  /\ holds' = h \cap Live' /\ aborted' = a \cap Live' /\ fenced' = w \cap Live'
  /\ session' = [f \in Flow |-> IF f \in Live' THEN session[f] ELSE AnySession]
  /\ kind' = [f \in Flow |-> IF f \in Live' THEN kind[f] ELSE "start"]

Starts(sessions) ==
  /\ at = [f \in Flow |-> "free"] /\ kind = [f \in Flow |-> "start"]
  /\ session = [f \in Flow |-> AnySession]
  /\ holds = {} /\ aborted = {} /\ active = {} /\ fenced = {} /\ pasted = None
  /\ callback = [f \in Flow |-> "none"]
  /\ holder = [s \in Session |-> None] /\ alive = sessions
  /\ server = "down" /\ binding = None /\ stopping = "no"
  /\ logout = [stopping |-> 0, clearing |-> 0] /\ credentials = "any"

Init == Starts(Session)

-----------------------------------------------------------------------------
(* The callback server *)

Owned(cb) == \E f \in Flow : cb[f] # "none"
Queued == {f \in Flow : at[f] = "queued"}
\* Flows that waited for a bind resume before anything else runs.
Busy == binding # None \/ Queued \ fenced # {}

\* MUTANT of StopIfIdle: reserved states do not keep the server.
StopUnlessPending(cb, bind) ==
  IF stopping = "no" /\ bind = None /\ Queued \ fenced = {} /\ server = "up"
     /\ (\A f \in Flow : cb[f] # "pending")
  THEN stopping' = "idle" ELSE UNCHANGED stopping

\* stopCallbackServerIfIdle() once the tables are cb
StopIfIdle(cb, bind) ==
  IF stopping = "no" /\ bind = None /\ Queued \ fenced = {} /\ server = "up" /\ ~Owned(cb)
  THEN stopping' = "idle" ELSE UNCHANGED stopping

\* The states of the flows in F leave the callback server.
Drop(F) == [f \in Flow |-> IF f \in F THEN "none" ELSE callback[f]]

\* The end of cleanup(): what is still in the tables is dropped and its waiters rejected.
StopDone ==
  /\ stopping # "no" /\ binding = None
  /\ stopping' = "no" /\ server' = "down"
  /\ logout' = [stopping |-> 0, clearing |-> logout.clearing + logout.stopping]
  /\ callback' = [f \in Flow |-> "none"]
  /\ at' = [f \in Flow |-> IF callback[f] = "pending" THEN "cancelled" ELSE at[f]]
  /\ UNCHANGED <<active, pasted, holder, alive, binding, credentials>>
  /\ Settle(holds, aborted, fenced)

-----------------------------------------------------------------------------
(* Pending flows of a session *)

\* detachPending() of the flows F: a waiter is rejected.
Detach(F) ==
  /\ active' = active \ F
  /\ callback' = Drop(F)
  /\ at' = [f \in Flow |->
              IF f \in F THEN CASE at[f] = "held" -> "free"
                                [] at[f] = "waiting" -> "cancelled"
                                [] OTHER -> at[f]
              ELSE at[f]]
  /\ holder' = [s \in Session |-> IF holder[s] \in F THEN None ELSE holder[s]]

\* The end of an operation: its pending entry, if it is still its own, its callback,
\* the provider; then the server, if nobody else needs it.
Ends(f) ==
  /\ at' = [at EXCEPT ![f] = "free"] /\ callback' = Drop({f}) /\ active' = active \ {f}
  /\ holder' = [s \in Session |-> IF holder[s] = f THEN None ELSE holder[s]]
  /\ StopIfIdle(Drop({f}), IF binding = f THEN None ELSE binding)

-----------------------------------------------------------------------------
(* A flow *)

Holds(f) == f \in holds /\ f \notin aborted
MaySave(f) == Holds(f) /\ f \in active

Saved(f) ==
  credentials' = IF credentials = "removed" THEN "revived"
                 ELSE IF at[f] # "asking" /\ holder[session[f]] # f THEN "stray" ELSE credentials

\* ensureCallbackServerLocked(): reserve the state, rebind for another endpoint
\* (refused while anyone needs the present one), or listen.
Locked(f) ==
  \/ /\ server = "up"
     /\ at' = [at EXCEPT ![f] = "asking"] /\ callback' = [callback EXCEPT ![f] = "reserved"]
     /\ UNCHANGED <<active, holder, binding, stopping>>
  \/ /\ server = "up" /\ Owned(callback)
     /\ Ends(f) /\ UNCHANGED binding
  \/ /\ server = "down" \/ ~Owned(callback)
     /\ at' = [at EXCEPT ![f] = "binding"] /\ binding' = f
     /\ UNCHANGED <<active, holder, callback, stopping>>

\* ensureCallbackServer(): waits for a bind, and for the stop of an idle server; it throws
\* while the server stops for good.
Ensure(f) ==
  \/ /\ stopping = "idle" \/ (stopping = "no" /\ Busy)
     /\ at' = [at EXCEPT ![f] = "queued"]
     /\ UNCHANGED <<active, holder, callback, binding, stopping>>
  \/ stopping = "no" /\ ~Busy /\ Locked(f)

\* authenticate(), startAuth() or getValidToken() of session s; an attempt that is refused
\* at once changes nothing.
Start(f, s, k) ==
  /\ Flow # Live /\ f = Fresh /\ s \in alive
  /\ ~LoggingOut
  /\ fenced' = fenced \ {f}
  /\ IF k = "silent"
     THEN /\ at' = [at EXCEPT ![f] = "asking"]
          /\ UNCHANGED <<active, holder, callback, binding, stopping>>
     ELSE Ensure(f)
  /\ at'[f] # "free"
  /\ session' = [session EXCEPT ![f] = s] /\ kind' = [kind EXCEPT ![f] = k]
  /\ holds' = holds \cup {f} /\ credentials' = "any"
  /\ UNCHANGED <<aborted, pasted, alive, server, logout>>

\* The wait in ensureCallbackServer() ends.
Resume(f) ==
  /\ at[f] = "queued" /\ binding = None
  /\ \/ f \in fenced /\ Ends(f) /\ UNCHANGED binding
     \/ f \notin fenced /\ stopping = "no" /\ Locked(f)
  /\ UNCHANGED <<pasted, alive, server, logout, credentials>>
  /\ Settle(holds, aborted, fenced)

\* MUTANT of Bound: a bind that fails is never taken for over.
BoundOnSuccess(f) ==
  /\ binding = f /\ at[f] = "binding"
  /\ \/ /\ binding' = None /\ server' = "up" /\ callback' = [callback EXCEPT ![f] = "reserved"]
        /\ at' = [at EXCEPT ![f] = "asking"]
        /\ UNCHANGED <<active, holder, stopping>>
     \/ /\ UNCHANGED <<server, binding>> /\ Ends(f)
  /\ UNCHANGED <<pasted, alive, logout, credentials>>
  /\ Settle(holds, aborted, fenced)

\* The port is bound, or no port could be.
Bound(f) ==
  /\ binding = f /\ binding' = None
  /\ \/ /\ server' = "up" /\ callback' = [callback EXCEPT ![f] = "reserved"]
        /\ at' = [at EXCEPT ![f] = "asking"]
        /\ UNCHANGED <<active, holder, stopping>>
     \/ /\ UNCHANGED server /\ Ends(f)
  /\ UNCHANGED <<pasted, alive, logout, credentials>>
  /\ Settle(holds, aborted, fenced)

\* The SDK authorizes without the user and saves tokens.
Authorized(f) ==
  /\ at[f] = "asking" /\ Holds(f)
  /\ Saved(f) /\ Ends(f)
  /\ UNCHANGED <<pasted, alive, server, binding, logout>>
  /\ Settle(holds, aborted, fenced)

\* The SDK asks for a redirect: setPendingAuth() detaches the session's pending flow, and
\* authenticate() registers the callback before it opens the browser.
Redirected(f) ==
  LET s == session[f]
      old == {holder[s]} \ {None} IN
  /\ at[f] = "asking" /\ Holds(f) /\ kind[f] # "silent"
  /\ active' = (active \ old) \cup {f}
  /\ holder' = [holder EXCEPT ![s] = f]
  /\ callback' = [Drop(old) EXCEPT ![f] = IF kind[f] = "authenticate" THEN "pending" ELSE @]
  /\ at' = [g \in Flow |->
              IF g = f THEN IF kind[f] = "start" THEN "held" ELSE "waiting"
              ELSE IF g \in old /\ at[g] = "held" THEN "free"
              ELSE IF g \in old /\ at[g] = "waiting" THEN "cancelled" ELSE at[g]]
  /\ UNCHANGED <<pasted, alive, httpVars, logout, credentials>>
  /\ Settle(holds, aborted, fenced)

\* authenticate() of a session that has a pending flow of the same URL waits for that one.
Join(f) ==
  /\ at[f] = "held" /\ Holds(f) /\ ~LoggingOut
  /\ at' = [at EXCEPT ![f] = "waiting"] /\ callback' = [callback EXCEPT ![f] = "pending"]
  /\ UNCHANGED <<session, kind, holds, aborted, active, fenced, pasted, holder, alive, httpVars,
                 logout, credentials>>

\* The browser calls back, or the user pastes the redirect into the prompt.
Answered(f) ==
  /\ at[f] = "waiting" /\ callback[f] = "pending" /\ server = "up"
  /\ at' = [at EXCEPT ![f] = "completing"] /\ callback' = Drop({f})
  /\ UNCHANGED <<session, kind, holds, aborted, active, fenced, pasted, holder, alive, httpVars,
                 logout, credentials>>

\* completeAuth() of a pending flow from the input of another command
Paste(f) ==
  /\ holder[session[f]] = f /\ at[f] \in {"held", "waiting"} /\ Holds(f) /\ pasted = None
  /\ pasted' = f
  /\ UNCHANGED <<at, session, kind, holds, aborted, active, fenced, callback, holder, alive,
                 httpVars, logout, credentials>>

\* saveTokens() in the exchange: throwIfInactive()
SaveTokens(f) == MaySave(f) /\ Saved(f)

\* The waiting operation of f is over: the exchange saved the tokens or failed, the browser
\* reported an error, a timer fired, the user cancelled, or the flow was detached.
OperationEnds(f) ==
  /\ \/ at[f] = "completing" /\ SaveTokens(f)
     \/ at[f] \in {"completing", "waiting", "cancelled", "asking"} /\ UNCHANGED credentials
  /\ Ends(f)
  /\ UNCHANGED <<pasted, alive, server, binding, logout>>
  /\ Settle(holds, aborted, fenced)

\* completeAuth() of pasted input: a missing issuer keeps the flow for another try.
PasteEnds(f) ==
  /\ f = pasted /\ pasted' = None
  /\ \/ UNCHANGED <<credentials, active, callback, at, holder, stopping>>
     \/ /\ SaveTokens(f) \/ UNCHANGED credentials
        /\ IF holder[session[f]] = f THEN Detach({f}) ELSE UNCHANGED <<active, callback, at, holder>>
        /\ StopIfIdle(IF holder[session[f]] = f THEN Drop({f}) ELSE callback, binding)
  /\ UNCHANGED <<alive, server, binding, logout>>
  /\ Settle(holds, aborted, fenced)

\* The timer of setPendingAuth()
TimedOut(f) ==
  /\ at[f] = "held"
  /\ Detach({f}) /\ StopIfIdle(Drop({f}), binding)
  /\ UNCHANGED <<pasted, alive, server, binding, logout, credentials>>
  /\ Settle(holds, aborted, fenced)

-----------------------------------------------------------------------------
(* Logouts and sessions *)

Pending == {holder[s] : s \in alive} \ {None}

\* removeAuth() up to its await: authority is withdrawn, pending flows of all sessions end.
LogoutBegins ==
  /\ alive # {} /\ logout.stopping + logout.clearing < MaxLogouts
  /\ Detach(Pending) /\ StopIfIdle(Drop(Pending), binding)
  /\ logout' = IF stopping' = "no" THEN [logout EXCEPT !.clearing = @ + 1]
               ELSE [logout EXCEPT !.stopping = @ + 1]
  /\ UNCHANGED <<pasted, alive, server, binding, credentials>>
  /\ Settle({}, aborted, fenced)

\* The credentials are removed, unless the session was shut down or the store failed.
LogoutEnds ==
  /\ logout.clearing > 0 /\ logout' = [logout EXCEPT !.clearing = @ - 1]
  /\ credentials' = "removed" \/ UNCHANGED credentials
  /\ UNCHANGED <<flowVars, holder, alive, httpVars>>

\* shutdownOAuth(): the last session stops the callback server, and fences who waits for it.
Shutdown(s) ==
  LET own == {f \in Flow : session[f] = s}
      last == alive = {s} IN
  /\ s \in alive /\ alive' = alive \ {s}
  /\ Detach({holder[s]} \ {None})
  /\ stopping' = IF last THEN "full" ELSE stopping
  /\ UNCHANGED <<pasted, server, binding, logout, credentials>>
  /\ Settle(holds, aborted \cup own, IF last THEN fenced \cup Queued ELSE fenced)

NewSession(s) ==
  /\ s \notin alive /\ alive' = alive \cup {s}
  /\ UNCHANGED <<flowVars, holder, httpVars, logout, credentials>>

FlowStep(f) == Bound(f) \/ Authorized(f) \/ Redirected(f) \/ OperationEnds(f) \/ TimedOut(f)

Next ==
  \/ \E f \in Flow : \/ \E s \in Session, k \in Kinds : Start(f, s, k)
                     \/ Resume(f) \/ FlowStep(f) \/ PasteEnds(f) \/ Join(f) \/ Answered(f) \/ Paste(f)
  \/ \E s \in Session : Shutdown(s) \/ NewSession(s)
  \/ LogoutBegins \/ LogoutEnds \/ StopDone

Spec == Init /\ [][Next]_vars

\* Requests settle, timers fire, sockets close; flows that wait for the callback server
\* resume in the order in which they came.
Fairness == /\ WF_vars(StopDone) /\ WF_vars(LogoutEnds)
            /\ \A f \in Flow : WF_vars(FlowStep(f)) /\ WF_vars(PasteEnds(f)) /\ SF_vars(Resume(f))

-----------------------------------------------------------------------------
(* Properties *)

\* A live flow that needs the browser's callback has its state in a server that listens
\* and is not about to stop, whatever other flows and sessions did.
LiveFlowsAreServed ==
  \A f \in Flow :
    Holds(f) /\ at[f] \in {"asking", "held", "waiting"} /\ kind[f] # "silent"
      => server = "up" /\ stopping = "no" /\ callback[f] # "none"

\* Only a session's pending flow waits for a callback: no other flow's code reaches it.
WaitersArePending ==
  \A f \in Flow : callback[f] = "pending" => holder[session[f]] = f /\ f \in active

\* A logout that removed the credentials is not undone by work that began before it.
SignedOutStaysOut == credentials # "revived"

\* A code is exchanged for tokens only by the flow that is then its session's pending one.
OnlyPendingFlowSaves == credentials # "stray"

\* The four of them.
SignInsHold ==
  LiveFlowsAreServed /\ WaitersArePending /\ SignedOutStaysOut /\ OnlyPendingFlowSaves

-----------------------------------------------------------------------------
(* The inductive invariant: what makes these hold. *)

\* A session's pending flow is the one of its flows with an active provider; whoever is held or
\* waits for a callback is pending, and a flow that ended has left the callback server.
PendingIsActive ==
  /\ \A s \in Session : holder[s] # None =>
       session[holder[s]] = s /\ at[holder[s]] \in {"held", "waiting", "completing", "cancelled"}
  /\ \A f \in Flow :
       /\ f \in active <=> holder[session[f]] = f
       /\ at[f] = "held" \/ callback[f] = "pending" => f \in active
       /\ at[f] = "free" => callback[f] = "none"

\* One flow binds at a time; the server is not stopped under one that is alive.
BindingIsAlive ==
  \A f \in Flow : (at[f] = "binding" <=> binding = f)
                 /\ (at[f] = "binding" /\ Holds(f) => stopping = "no")

\* Authority belongs to flows of sessions that are alive, and to none while credentials are being
\* removed, or are removed and nobody has begun since.
AuthorityIsLive ==
  /\ holds \cup aborted \cup fenced \subseteq Live
  /\ \A f \in holds \ aborted : session[f] \in alive
  /\ LoggingOut \/ credentials = "removed" => holds = {}
  /\ credentials \in {"any", "removed"} /\ logout.stopping + logout.clearing <= MaxLogouts

IInv == TypeOK /\ LiveFlowsAreServed /\ PendingIsActive /\ BindingIsAlive /\ AuthorityIsLive

-----------------------------------------------------------------------------
(* Liveness *)

\* Every sign-in ends, with the callback server idle, busy or stopping at any moment.
SignInEnds == \A f \in Flow : []<>(at[f] = "free")

\* A logout ends.
LogoutReturns == []<>(logout.stopping = 0)
=============================================================================
