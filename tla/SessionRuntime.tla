---------------------------- MODULE SessionRuntime ----------------------------
(***************************************************************************)
(* The runtimes of an installed adapter (index.ts): what starts one, what  *)
(* publishes its state, and what stops it.                                 *)
(*                                                                         *)
(* A runtime is one owner (runtime-owner.ts) and the initialization that   *)
(* runs under it, if any was started.  Handlers of session events overlap: *)
(* Pi may shut a session down or start another while a handler awaits, and *)
(* a callback of the finalization may do so synchronously.  Pi runs tools  *)
(* and commands only between session_start and session_shutdown; the calls *)
(* of other extensions need the context the handler recorded.              *)
(***************************************************************************)
EXTENDS Naturals

CONSTANTS Runtime, None

VARIABLES
  at,        \* the initialization of each runtime: none that runs, its steps, or its result
  stopped,   \* runtimes whose owner was aborted
  fresh,     \* runtimes whose captured generation is lifecycleGeneration
  loaded,    \* lifecycleGeneration = 0: no session and no operation yet
  owner,     \* currentOwner
  state,     \* state
  init,      \* the runtime of initPromise
  oauth,     \* currentOAuthRuntime
  signedIn,  \* runtimes whose OAuth runtime was created and not shut down
  open,      \* runtimes that may have connections, timers or UI servers
  retained,  \* retainedInitFailure
  starting,  \* session_start handlers that await the cleanup of the last session
  awaits,    \* the runtimes each of them stopped and waits for
  leaving,   \* what a session_shutdown handler holds while tasks are handed off
  context,   \* the session whose context is sessionCtx
  session    \* history: the session Pi started last, None once it is shut down

vars == <<at, stopped, fresh, loaded, owner, state, init, oauth, signedIn, open, retained,
          starting, awaits, leaving, context, session>>

InProgress == {"loading", "connecting", "publishing"}

TypeOK ==
  /\ at \in [Runtime -> {"none", "ready"} \cup InProgress]
  /\ {stopped, fresh, signedIn, open, starting, leaving} \subseteq SUBSET Runtime
  /\ awaits \in [Runtime -> SUBSET Runtime]
  /\ {loaded, retained} \subseteq BOOLEAN
  /\ {owner, state, init, oauth, context, session} \subseteq Runtime \cup {None}

\* What `n` refers to, as a set.
Ref(n) == {n} \ {None}

\* A runtime nothing refers to any more can stand for the next one.
Unused(r) ==
  /\ r \notin {owner, state, init, oauth, context, session}
  /\ r \notin starting \cup leaving \cup signedIn \cup open \cup UNION {awaits[q] : q \in Runtime}
  /\ at[r] \notin InProgress

Fresh == CHOOSE r \in Runtime : Unused(r)
Available == \E r \in Runtime : Unused(r)

\* A finalization runs without an await: only what its callbacks do can happen during it.
\* (What other runtimes do meanwhile commutes with it and is left free.)
Publishing == \E r \in Runtime : at[r] = "publishing"

Init ==
  /\ at = [r \in Runtime |-> "none"] /\ loaded = TRUE /\ retained = FALSE
  /\ stopped = {} /\ fresh = {} /\ signedIn = {} /\ open = {} /\ starting = {} /\ leaving = {}
  /\ awaits = [r \in Runtime |-> {}]
  /\ owner = None /\ state = None /\ init = None /\ oauth = None /\ context = None /\ session = None

-----------------------------------------------------------------------------
(* Starting an initialization *)

\* startInitialization() of runtime r
Begin(r) == at' = [at EXCEPT ![r] = "loading"] /\ init' = r

\* A new owner r, current from now on; `++lifecycleGeneration` leaves only r current.
NewOwner(r) ==
  /\ Available /\ r = Fresh
  /\ owner' = r /\ stopped' = stopped \ {r} /\ fresh' = {r} /\ loaded' = FALSE

\* ensureSessionRuntime() when there is neither state nor initialization: under the current
\* owner, if it is active, in the current generation.
Ensure ==
  /\ ~Publishing /\ session # None /\ state = None /\ init = None /\ ~retained
  /\ IF owner # None /\ owner \notin stopped
     THEN Begin(owner) /\ UNCHANGED <<owner, stopped, fresh, loaded>>
     ELSE \E r \in Runtime :
            /\ Available /\ r = Fresh /\ Begin(r) /\ owner' = r
            /\ stopped' = stopped \ {r} /\ fresh' = fresh \cup {r} /\ loaded' = FALSE
  /\ UNCHANGED <<state, oauth, signedIn, open, retained, starting, awaits, leaving, context, session>>

\* The gateway retries a failed initialization; a direct tool may do so, too, in Ensure's way.
GatewayRetry ==
  /\ ~Publishing /\ session # None /\ state = None /\ init = None /\ retained
  /\ \E r \in Runtime :
       \/ NewOwner(r) /\ Begin(r) /\ oauth' = None
       \/ /\ Available /\ r = Fresh /\ owner \in stopped
          /\ Begin(r) /\ owner' = r /\ UNCHANGED <<oauth, loaded>>
          /\ stopped' = stopped \ {r} /\ fresh' = fresh \cup {r}
  /\ UNCHANGED <<state, signedIn, open, retained, starting, awaits, leaving, context, session>>

\* startLoadTimeInitialization(), from setImmediate()
LoadTime ==
  /\ loaded /\ state = None /\ init = None
  /\ \E r \in Runtime : NewOwner(r) /\ Begin(r)
  /\ oauth' = None
  /\ UNCHANGED <<state, signedIn, open, retained, starting, awaits, leaving, context, session>>

-----------------------------------------------------------------------------
(* Its steps *)

\* assertRuntimeGuard() of the guard that startInitialization() captured
Guarded(r) == r \notin stopped /\ r \in fresh /\ owner = r /\ state = None

\* A result is still wanted.
Current(r) == r \notin stopped /\ r \in fresh /\ init = r

\* The modules are imported, the OAuth runtime is created, initializeMcp() begins.
Loaded(r) ==
  /\ at[r] = "loading" /\ Guarded(r)
  /\ at' = [at EXCEPT ![r] = "connecting"]
  /\ oauth' = r /\ signedIn' = signedIn \cup {r} /\ open' = open \cup {r}
  /\ UNCHANGED <<stopped, fresh, loaded, owner, state, init, retained, starting, awaits, leaving,
                 context, session>>

\* MUTANT of Rejects: a rejected initialization stays as it is.
RejectsSilently(r) ==
  /\ at[r] \in {"loading", "connecting"}
  /\ at' = [at EXCEPT ![r] = "none"]
  /\ IF Current(r) THEN retained' = TRUE /\ init' = None ELSE UNCHANGED <<retained, init>>
  /\ UNCHANGED <<stopped, fresh, loaded, owner, state, oauth, signedIn, open, starting, awaits, leaving,
                 context, session>>

\* An import or initializeMcp() throws, or finds its owner aborted; the last handler of
\* startInitialization() retains the failure and stops the runtime, if it is still wanted.
Rejects(r) ==
  /\ at[r] \in {"loading", "connecting"}
  /\ at' = [at EXCEPT ![r] = "none"]
  /\ IF Current(r)
     THEN /\ retained' = TRUE /\ init' = None
          /\ stopped' = stopped \cup {r} /\ signedIn' = signedIn \ {r}
     ELSE UNCHANGED <<retained, init, stopped, signedIn>>
  /\ UNCHANGED <<fresh, loaded, owner, state, oauth, open, starting, awaits, leaving, context, session>>

\* initializeMcp() returns: the state is published, or shut down when it is stale.
Resolves(r) ==
  /\ at[r] = "connecting"
  /\ IF Current(r)
     THEN at' = [at EXCEPT ![r] = "publishing"] /\ state' = r /\ UNCHANGED stopped
     ELSE at' = [at EXCEPT ![r] = "none"] /\ stopped' = stopped \cup {r} /\ UNCHANGED state
  /\ UNCHANGED <<fresh, loaded, owner, init, oauth, signedIn, open, retained, starting, awaits, leaving,
                 context, session>>

\* The finalization ends: tools, servers and status are registered.
Finalized(r) ==
  /\ at[r] = "publishing" /\ state = r
  /\ at' = [at EXCEPT ![r] = "ready"] /\ init' = None /\ retained' = FALSE
  /\ UNCHANGED <<stopped, fresh, loaded, owner, state, oauth, signedIn, open, starting, awaits, leaving,
                 context, session>>

\* A callback of the finalization throws: the runtime is stopped.  The last handler of
\* startInitialization() then finds its owner inactive and returns.
FinalizeThrows(r) ==
  /\ at[r] = "publishing" /\ state = r
  /\ at' = [at EXCEPT ![r] = "none"] /\ state' = None /\ stopped' = stopped \cup {r}
  /\ UNCHANGED <<fresh, loaded, owner, init, oauth, signedIn, open, retained, starting, awaits, leaving,
                 context, session>>

\* guard() throws: a callback replaced or shut down the session, which took the state over.
FinalizeReplaced(r) ==
  /\ at[r] = "publishing" /\ state # r
  /\ at' = [at EXCEPT ![r] = "none"]
  /\ UNCHANGED <<stopped, fresh, loaded, owner, state, init, oauth, signedIn, open, retained,
                 starting, awaits, leaving, context, session>>

\* The owner's cleanups have run: connections, timers and the UI server are closed.
CleanedUp(r) ==
  /\ r \in stopped /\ r \in open /\ open' = open \ {r}
  /\ at[r] \notin {"connecting", "publishing"}
  /\ at' = [at EXCEPT ![r] = IF @ = "ready" THEN "none" ELSE @]
  /\ UNCHANGED <<stopped, fresh, loaded, owner, state, init, oauth, signedIn, retained,
                 starting, awaits, leaving, context, session>>

-----------------------------------------------------------------------------
(* Session events *)

\* session_start stops the current owner, also one whose state is not published yet.
StopsPrevious == Ref(owner) \cup Ref(state)

\* session_start up to its first await
SessionStart ==
  /\ \E r \in Runtime :
       /\ Available /\ r = Fresh
       /\ owner' = r /\ fresh' = {r} /\ loaded' = FALSE
       /\ stopped' = (stopped \cup StopsPrevious) \ {r}
       /\ at' = [at EXCEPT ![r] = "none"]
       /\ starting' = starting \cup {r} /\ session' = r
       /\ awaits' = [awaits EXCEPT ![r] = Ref(owner) \cup Ref(state)]
  /\ signedIn' = signedIn \ Ref(oauth)
  /\ oauth' = None /\ state' = None /\ init' = None /\ retained' = FALSE /\ context' = None
  /\ UNCHANGED <<open, leaving>>

\* MUTANT of Superseded: a handler only looks at its own owner.
SupersededIfStopped(r) == r \in stopped

\* Another session event came while the handler awaited, or its runtime was stopped.
Superseded(r) == r \notin fresh \/ r \in stopped

\* The handler goes on: it records the context, then defers the initialization, starts it, or
\* finds one that a first operation started.
SessionStarted(r) ==
  /\ r \in starting /\ starting' = starting \ {r}
  /\ \A q \in awaits[r] : q \notin open \/ at[q] = "connecting"
  /\ awaits' = [awaits EXCEPT ![r] = {}]
  /\ IF Superseded(r) THEN UNCHANGED <<context, at, init>>
     ELSE /\ context' = r
          /\ IF state = None /\ init = None
             THEN Begin(r) \/ UNCHANGED <<at, init>>
             ELSE UNCHANGED <<at, init>>
  /\ UNCHANGED <<stopped, fresh, loaded, owner, state, oauth, signedIn, open, retained, leaving,
                 session>>

\* session_shutdown up to the hand-off of background tasks
SessionShutdown ==
  /\ session # None /\ session' = None /\ context' = None
  /\ leaving' = leaving \cup Ref(owner) \cup Ref(state) \cup Ref(oauth)
  /\ fresh' = {} /\ loaded' = FALSE
  /\ owner' = None /\ oauth' = None /\ state' = None /\ init' = None /\ retained' = FALSE
  /\ UNCHANGED <<at, stopped, signedIn, open, starting, awaits>>

\* The tasks are handed off; what the session had is stopped.
HandedOff ==
  /\ leaving # {} /\ leaving' = {}
  /\ stopped' = stopped \cup leaving /\ signedIn' = signedIn \ leaving
  /\ UNCHANGED <<at, fresh, loaded, owner, state, init, oauth, open, retained, starting, awaits, context,
                 session>>

RuntimeStep(r) ==
  Loaded(r) \/ Rejects(r) \/ Resolves(r) \/ Finalized(r) \/ FinalizeThrows(r) \/ FinalizeReplaced(r)

Next ==
  \/ Ensure \/ GatewayRetry \/ LoadTime \/ SessionStart \/ SessionShutdown \/ HandedOff
  \/ \E r \in Runtime : RuntimeStep(r) \/ CleanedUp(r) \/ SessionStarted(r)

\* Imports, aborted initializations, cleanups and hand-offs come to an end; an initialization
\* that nobody stops may wait for the user.
Progress(r) ==
  \/ CleanedUp(r) \/ SessionStarted(r)
  \/ (at[r] # "connecting" \/ r \in stopped) /\ RuntimeStep(r)

Fairness == WF_vars(HandedOff) /\ \A r \in Runtime : WF_vars(Progress(r))

Spec == Init /\ [][Next]_vars /\ Fairness

-----------------------------------------------------------------------------
(* Properties *)

\* A published state is that of the current, active owner, initialized in this generation.
StateIsLive ==
  state # None => state = owner /\ state \in fresh \ stopped /\ at[state] \in {"publishing", "ready"}

\* No runtime goes on beside the session's: every other one is aborted or being handed off.
OneRuntime ==
  \A r \in Runtime : at[r] \in InProgress \cup {"ready"} => r \in {owner} \cup stopped \cup leaving

\* Every OAuth runtime that was not shut down is the session's, or of one that is leaving.
SignInsAreOwned == signedIn \subseteq {oauth} \cup leaving

\* Other extensions' calls use the context of the session Pi started last, never of an earlier one.
ContextIsCurrent == context # None => context = session

\* The four of them: an adapter has one live runtime, and what it shares is that runtime's.
RuntimesHold == TypeOK /\ StateIsLive /\ OneRuntime /\ SignInsAreOwned /\ ContextIsCurrent

\* A runtime that is not the session's lets go of everything it had.
LeftoversClose == \A r \in Runtime : []<>(r \in open => r = owner)

\* session_start ends, whatever the previous session was doing.
SessionStartReturns == \A r \in Runtime : []<>(r \notin starting)

\* After a failed initialization the next operation can start another one.
FailedRunIsForgotten == init # None => at[init] \in InProgress

-----------------------------------------------------------------------------
(* The inductive invariant: what makes the safety properties hold. *)

\* The current owner is of the current generation; every other runtime of it is stopped.
OwnerIsFresh ==
  /\ owner # None => owner \in fresh \ leaving
  /\ fresh \ stopped \subseteq {owner}

\* What runs and was neither stopped nor left is the owner's: its initialization is the one
\* that operations await, and from its publication on its state is the one they use.
OnlyOwnerRuns ==
  \A r \in Runtime : at[r] \in InProgress \cup {"ready"} /\ r \notin stopped \cup leaving =>
    /\ r = owner
    /\ at[r] \in InProgress => init = r
    /\ at[r] \in {"publishing", "ready"} => state = r

\* A sign-in that no session_shutdown holds is the owner's, which runs or just failed.
SignedInRuns ==
  \A r \in signedIn \ leaving :
    /\ r = owner /\ r = oauth
    /\ init = r \/ (r \notin stopped /\ at[r] \in {"connecting", "publishing", "ready"})

\* The handler that was not superseded is that of the session Pi started last.
StartingIsSession == \A r \in starting : r \in fresh \ stopped => session = r

IInv ==
  TypeOK /\ StateIsLive /\ ContextIsCurrent /\ OwnerIsFresh /\ OnlyOwnerRuns /\ SignedInRuns /\ StartingIsSession
=============================================================================
