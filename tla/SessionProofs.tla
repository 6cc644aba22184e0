--------------------------- MODULE SessionProofs ----------------------------
(***************************************************************************)
(* Theorems about the two parts of MCSession.  SessionRuntime, for any     *)
(* number of runtimes: its inductive invariant holds of every behaviour,   *)
(* and with it what RuntimesHold says.  ServerRegistry, for any            *)
(* registrations, installations and versions of Pi's server: NamesAreHeld  *)
(* and FilesWin.  At the end, SessionTypeOK of a behaviour of either.      *)
(***************************************************************************)
EXTENDS MCSession, TLAPS

-----------------------------------------------------------------------------
(***************************************************************************)
(* Theorems about SessionRuntime, for any number of runtimes: its inductive*)
(* invariant IInv holds of every behaviour, and with it what RuntimesHold  *)
(* says of the published state, of the runtimes beside it, of sign-ins and *)
(* of the context that other extensions use.                               *)
(***************************************************************************)

-----------------------------------------------------------------------------
(* The operators *)

\* The runtime that stands for a new one is not referred to by anything.
LEMMA FreshIsUnused ==
  ASSUME Available
  PROVE  Fresh \in Runtime /\ Unused(Fresh)
<1>1. \E r \in Runtime : Unused(r)
  BY DEF Available
<1>2. QED
  BY <1>1 DEF Fresh

\* An operation that begins an initialization when there is no state and none in progress
\* finds nothing running and nobody signed in beside what was stopped or left.
LEMMA NothingRuns ==
  ASSUME IInv, None \notin Runtime, state = None, init = None
  PROVE  /\ \A r \in Runtime : at[r] \in InProgress \cup {"ready"} => r \in stopped \cup leaving
         /\ signedIn \subseteq leaving
<1>1. \A r \in Runtime : at[r] \in InProgress \cup {"ready"} => r \in stopped \cup leaving
  BY DEF IInv, OnlyOwnerRuns, InProgress
<1>2. ASSUME NEW r \in signedIn \ leaving PROVE FALSE
  <2>1. r \in Runtime /\ r \notin stopped /\ at[r] \in InProgress \cup {"ready"}
    BY <1>2 DEF IInv, SignedInRuns, TypeOK, InProgress
  <2>2. QED
    BY <1>1, <1>2, <2>1
<1>3. QED
  BY <1>1, <1>2

\* What a runtime that is initializing is to the others.
LEMMA RunningIsOwner ==
  ASSUME IInv, None \notin Runtime, NEW r \in Runtime, at[r] \in InProgress, r \notin stopped \cup leaving
  PROVE  Current(r) /\ r = owner
BY DEF IInv, OnlyOwnerRuns, OwnerIsFresh, Current, InProgress, TypeOK

-----------------------------------------------------------------------------
(* The steps *)

\* An operation, a retry or the load begins an initialization under owner r, which is new or
\* the current one.
LEMMA BeginKeeps ==
  ASSUME IInv, None \notin Runtime, state = None, init = None, NEW r \in Runtime,
         Begin(r), owner' = r,
         \/ r = owner /\ r \notin stopped /\ fresh' = fresh /\ stopped' = stopped
         \/ /\ r \notin leaving /\ r \notin starting /\ stopped' = stopped \ {r}
            /\ fresh' = {r} \/ (owner \in stopped \cup {None} /\ fresh' = fresh \cup {r}),
         oauth' \in {oauth, None}, loaded' \in BOOLEAN, retained' \in BOOLEAN, state' = None,
         UNCHANGED <<signedIn, open, starting, awaits, leaving, session>>,
         context' = context
  PROVE  IInv'
<1>1. TypeOK'
  BY DEF IInv, TypeOK, Begin, InProgress
<1>2. /\ at'[r] = "loading" /\ init' = r
      /\ \A q \in Runtime : q # r => at'[q] = at[q]
  BY DEF Begin, IInv, TypeOK
<1>3. OwnerIsFresh'
  BY DEF IInv, OwnerIsFresh, TypeOK
<1>4. \A q \in Runtime : at[q] \in InProgress \cup {"ready"} => q \in stopped \cup leaving
  BY NothingRuns
<1>5. OnlyOwnerRuns'
  BY <1>2, <1>4 DEF OnlyOwnerRuns, InProgress
<1>6. SignedInRuns'
  BY NothingRuns DEF SignedInRuns
<1>7. StartingIsSession'
  BY DEF IInv, StartingIsSession, OwnerIsFresh, TypeOK
<1>8. QED
  BY <1>1, <1>3, <1>5, <1>6, <1>7 DEF IInv, StateIsLive, ContextIsCurrent

\* ensureSessionRuntime(), the gateway's retry and the initialization at load time.
LEMMA OperationKeeps ==
  ASSUME IInv, None \notin Runtime, Ensure \/ GatewayRetry \/ LoadTime
  PROVE  IInv'
<1>1. CASE Ensure
  <2>1. CASE owner # None /\ owner \notin stopped
    BY <1>1, <2>1, BeginKeeps DEF Ensure, IInv, TypeOK
  <2>2. CASE ~(owner # None /\ owner \notin stopped)
    <3>1. PICK r \in Runtime : /\ Available /\ r = Fresh /\ Begin(r) /\ owner' = r
                               /\ stopped' = stopped \ {r} /\ fresh' = fresh \cup {r} /\ loaded' = FALSE
      BY <1>1, <2>2 DEF Ensure
    <3>2. r \notin leaving /\ r \notin starting
      BY <3>1, FreshIsUnused DEF Unused
    <3>3. QED
      BY <1>1, <2>2, <3>1, <3>2, BeginKeeps DEF Ensure, IInv, TypeOK
  <2>3. QED
    BY <2>1, <2>2
<1>2. CASE GatewayRetry
  <2>1. PICK r \in Runtime :
          \/ NewOwner(r) /\ Begin(r) /\ oauth' = None
          \/ /\ Available /\ r = Fresh /\ owner \in stopped
             /\ Begin(r) /\ owner' = r /\ UNCHANGED <<oauth, loaded>>
             /\ stopped' = stopped \ {r} /\ fresh' = fresh \cup {r}
    BY <1>2 DEF GatewayRetry
  <2>2. r \notin leaving /\ r \notin starting
    BY <2>1, FreshIsUnused DEF Unused, NewOwner
  <2>3. QED
    BY <1>2, <2>1, <2>2, BeginKeeps DEF GatewayRetry, NewOwner, IInv, TypeOK
<1>3. CASE LoadTime
  <2>1. PICK r \in Runtime : NewOwner(r) /\ Begin(r)
    BY <1>3 DEF LoadTime
  <2>2. r \notin leaving /\ r \notin starting
    BY <2>1, FreshIsUnused DEF Unused, NewOwner
  <2>3. QED
    BY <1>3, <2>1, <2>2, BeginKeeps DEF LoadTime, NewOwner, IInv, TypeOK
<1>4. QED
  BY <1>1, <1>2, <1>3

\* A step of an initialization.
LEMMA InitializationKeeps ==
  ASSUME IInv, None \notin Runtime, NEW r \in Runtime, RuntimeStep(r)
  PROVE  IInv'
<1> USE DEF InProgress
<1>1. TypeOK
  BY DEF IInv
<1>2. CASE Loaded(r)
  <2>1. \A q \in Runtime : at'[q] = IF q = r THEN "connecting" ELSE at[q]
    BY <1>1, <1>2 DEF Loaded, TypeOK
  <2>2. TypeOK'
    BY <1>1, <1>2 DEF Loaded, TypeOK
  <2>3. StateIsLive' /\ ContextIsCurrent' /\ OwnerIsFresh' /\ StartingIsSession'
    BY <1>2 DEF Loaded, Guarded, IInv, StateIsLive, ContextIsCurrent, OwnerIsFresh, StartingIsSession
  <2>4. OnlyOwnerRuns'
    BY <1>1, <1>2, <2>1 DEF Loaded, IInv, OnlyOwnerRuns
  <2>5. SignedInRuns'
    BY <1>1, <1>2, <2>1 DEF Loaded, Guarded, IInv, SignedInRuns
  <2>6. QED
    BY <2>2, <2>3, <2>4, <2>5 DEF IInv
<1>3. CASE Rejects(r)
  <2>1. \A q \in Runtime : at'[q] = IF q = r THEN "none" ELSE at[q]
    BY <1>1, <1>3 DEF Rejects, TypeOK
  <2>2. TypeOK'
    <3>1. CASE Current(r)
      BY <1>1, <1>3, <3>1 DEF Rejects, TypeOK
    <3>2. CASE ~Current(r)
      BY <1>1, <1>3, <3>2 DEF Rejects, TypeOK
    <3>3. QED
      BY <3>1, <3>2
  <2>3. StateIsLive' /\ ContextIsCurrent' /\ OwnerIsFresh' /\ StartingIsSession'
    BY <1>1, <1>3, <2>1
       DEF Rejects, IInv, StateIsLive, ContextIsCurrent, OwnerIsFresh, StartingIsSession, TypeOK
  <2>4. OnlyOwnerRuns'
    BY <1>1, <1>3, <2>1 DEF Rejects, Current, IInv, OnlyOwnerRuns
  <2>5. SignedInRuns'
    BY <1>1, <1>3, <2>1, RunningIsOwner DEF Rejects, Current, IInv, SignedInRuns, OwnerIsFresh, TypeOK
  <2>6. QED
    BY <2>2, <2>3, <2>4, <2>5 DEF IInv
<1>4. CASE Resolves(r)
  <2>1. \A q \in Runtime : at'[q] = IF q = r THEN IF Current(r) THEN "publishing" ELSE "none" ELSE at[q]
    BY <1>1, <1>4 DEF Resolves, TypeOK
  <2>2. TypeOK'
    BY <1>1, <1>4 DEF Resolves, TypeOK
  <2>3. StateIsLive' /\ ContextIsCurrent' /\ OwnerIsFresh' /\ StartingIsSession'
    BY <1>1, <1>4, <2>1
       DEF Resolves, Current, IInv, StateIsLive, ContextIsCurrent, OwnerIsFresh, StartingIsSession,
           TypeOK
  <2>4. OnlyOwnerRuns'
    BY <1>1, <1>4, <2>1 DEF Resolves, Current, IInv, OnlyOwnerRuns, StateIsLive, OwnerIsFresh
  <2>5. SignedInRuns'
    BY <1>1, <1>4, <2>1, RunningIsOwner DEF Resolves, IInv, SignedInRuns, TypeOK
  <2>6. QED
    BY <2>2, <2>3, <2>4, <2>5 DEF IInv
<1>5. CASE Finalized(r)
  <2>1. \A q \in Runtime : at'[q] = IF q = r THEN "ready" ELSE at[q]
    BY <1>1, <1>5 DEF Finalized, TypeOK
  <2>2. TypeOK'
    BY <1>1, <1>5 DEF Finalized, TypeOK
  <2>3. StateIsLive' /\ ContextIsCurrent' /\ OwnerIsFresh' /\ StartingIsSession'
    BY <1>5, <2>1 DEF Finalized, IInv, StateIsLive, ContextIsCurrent, OwnerIsFresh, StartingIsSession
  <2>4. r = owner /\ r \notin stopped
    BY <1>5 DEF Finalized, IInv, StateIsLive
  <2>5. OnlyOwnerRuns' /\ SignedInRuns'
    BY <1>1, <1>5, <2>1, <2>4 DEF Finalized, IInv, OnlyOwnerRuns, SignedInRuns
  <2>6. QED
    BY <2>2, <2>3, <2>5 DEF IInv
<1>6. CASE FinalizeThrows(r)
  <2>1. \A q \in Runtime : at'[q] = IF q = r THEN "none" ELSE at[q]
    BY <1>1, <1>6 DEF FinalizeThrows, TypeOK
  <2>2. TypeOK'
    BY <1>1, <1>6 DEF FinalizeThrows, TypeOK
  <2>3. StateIsLive' /\ ContextIsCurrent' /\ OwnerIsFresh' /\ StartingIsSession'
    BY <1>6 DEF FinalizeThrows, IInv, StateIsLive, ContextIsCurrent, OwnerIsFresh, StartingIsSession
  <2>4. r = owner /\ r \notin stopped /\ r \notin leaving
    BY <1>6 DEF FinalizeThrows, IInv, StateIsLive, OwnerIsFresh
  <2>5. init = r
    BY <1>6, <2>4 DEF FinalizeThrows, IInv, OnlyOwnerRuns
  <2>6. OnlyOwnerRuns' /\ SignedInRuns'
    BY <1>1, <1>6, <2>1, <2>4, <2>5 DEF FinalizeThrows, IInv, OnlyOwnerRuns, SignedInRuns
  <2>7. QED
    BY <2>2, <2>3, <2>6 DEF IInv
<1>7. CASE FinalizeReplaced(r)
  <2>1. \A q \in Runtime : at'[q] = IF q = r THEN "none" ELSE at[q]
    BY <1>1, <1>7 DEF FinalizeReplaced, TypeOK
  <2>2. TypeOK'
    BY <1>1, <1>7 DEF FinalizeReplaced, TypeOK
  <2>3. StateIsLive' /\ ContextIsCurrent' /\ OwnerIsFresh' /\ StartingIsSession'
    BY <1>1, <1>7, <2>1
       DEF FinalizeReplaced, IInv, StateIsLive, ContextIsCurrent, OwnerIsFresh, StartingIsSession,
           TypeOK
  <2>4. r \in stopped \cup leaving
    BY <1>7 DEF FinalizeReplaced, IInv, OnlyOwnerRuns
  <2>5. OnlyOwnerRuns' /\ SignedInRuns'
    BY <1>1, <1>7, <2>1, <2>4 DEF FinalizeReplaced, IInv, OnlyOwnerRuns, SignedInRuns
  <2>6. QED
    BY <2>2, <2>3, <2>5 DEF IInv
<1>8. QED
  BY <1>2, <1>3, <1>4, <1>5, <1>6, <1>7 DEF RuntimeStep

\* The cleanups of an owner have run.
LEMMA CleanupKeeps ==
  ASSUME IInv, None \notin Runtime, NEW r \in Runtime, CleanedUp(r)
  PROVE  IInv'
<1>1. TypeOK /\ r \in stopped
  BY DEF IInv, CleanedUp
<1>2. \A q \in Runtime : at'[q] = IF q = r /\ at[q] = "ready" THEN "none" ELSE at[q]
  BY <1>1 DEF CleanedUp, TypeOK
<1>3. TypeOK'
  BY <1>1 DEF CleanedUp, TypeOK, InProgress
<1>4. StateIsLive' /\ ContextIsCurrent' /\ OwnerIsFresh' /\ StartingIsSession'
  BY <1>1, <1>2
     DEF CleanedUp, IInv, StateIsLive, ContextIsCurrent, OwnerIsFresh, StartingIsSession, TypeOK
<1>5. OnlyOwnerRuns' /\ SignedInRuns'
  BY <1>1, <1>2 DEF CleanedUp, IInv, OnlyOwnerRuns, SignedInRuns, InProgress, TypeOK
<1>6. QED
  BY <1>3, <1>4, <1>5 DEF IInv

\* session_start up to its first await, and from there on.
LEMMA StartKeeps ==
  ASSUME IInv, None \notin Runtime, SessionStart \/ \E r \in Runtime : SessionStarted(r)
  PROVE  IInv'
<1>1. TypeOK
  BY DEF IInv
<1>2. CASE SessionStart
  <2>1. PICK r \in Runtime :
          /\ Available /\ r = Fresh
          /\ owner' = r /\ fresh' = {r} /\ loaded' = FALSE
          /\ stopped' = (stopped \cup StopsPrevious) \ {r}
          /\ at' = [at EXCEPT ![r] = "none"]
          /\ starting' = starting \cup {r} /\ session' = r
          /\ awaits' = [awaits EXCEPT ![r] = Ref(owner) \cup Ref(state)]
    BY <1>2 DEF SessionStart
  <2>2. /\ signedIn' = signedIn \ Ref(oauth) /\ UNCHANGED <<open, leaving>>
        /\ oauth' = None /\ state' = None /\ init' = None /\ retained' = FALSE /\ context' = None
    BY <1>2 DEF SessionStart
  <2>3. r \notin leaving
    BY <2>1, FreshIsUnused DEF Unused
  <2>4. Ref(owner) \subseteq Runtime /\ Ref(state) \subseteq Runtime
    BY <1>1 DEF Ref, TypeOK
  <2>5. TypeOK'
    BY <1>1, <2>1, <2>2, <2>4 DEF TypeOK, StopsPrevious
  <2>6. \A q \in Runtime : at'[q] = IF q = r THEN "none" ELSE at[q]
    BY <1>1, <2>1 DEF TypeOK
  <2>7. OnlyOwnerRuns'
    BY <1>1, <2>1, <2>2, <2>6 DEF IInv, OnlyOwnerRuns, StopsPrevious, Ref, InProgress
  <2>8. SignedInRuns'
    BY <1>1, <2>1, <2>2 DEF IInv, SignedInRuns, Ref, TypeOK
  <2>9. StateIsLive' /\ ContextIsCurrent' /\ OwnerIsFresh' /\ StartingIsSession'
    BY <2>1, <2>2, <2>3 DEF StateIsLive, ContextIsCurrent, OwnerIsFresh, StartingIsSession
  <2>10. QED
    BY <2>5, <2>7, <2>8, <2>9 DEF IInv
<1>3. ASSUME NEW r \in Runtime, SessionStarted(r) PROVE IInv'
  <2>1. /\ starting' = starting \ {r} /\ awaits' = [awaits EXCEPT ![r] = {}]
        /\ UNCHANGED <<stopped, fresh, loaded, owner, state, oauth, signedIn, open, retained, leaving, session>>
    BY <1>3 DEF SessionStarted
  <2>2. CASE Superseded(r) \/ ~Begin(r)
    <3>1. UNCHANGED <<at, init>> /\ context' \in {context, r} /\ (Superseded(r) => context' = context)
      BY <1>3, <2>2 DEF SessionStarted
    <3>2. TypeOK'
      BY <1>1, <2>1, <3>1 DEF TypeOK, InProgress
    <3>3. ~Superseded(r) => r = session
      BY <1>1, <1>3 DEF SessionStarted, Superseded, IInv, StartingIsSession
    <3>4. QED
      BY <1>1, <2>1, <3>1, <3>2, <3>3
         DEF IInv, StateIsLive, ContextIsCurrent, OwnerIsFresh, OnlyOwnerRuns, SignedInRuns, StartingIsSession
  <2>3. CASE ~Superseded(r) /\ Begin(r)
    <3>1. r \in fresh \ stopped /\ r = owner /\ r = session /\ context' = r
      BY <1>3, <2>3 DEF SessionStarted, Superseded, IInv, OwnerIsFresh, StartingIsSession
    <3>2. CASE state = None /\ init = None
      <4>1. TypeOK'
        BY <1>1, <2>1, <2>3, <3>1 DEF TypeOK, Begin, InProgress
      <4>2. \A q \in Runtime : at'[q] = IF q = r THEN "loading" ELSE at[q]
        BY <1>1, <2>3 DEF Begin, TypeOK
      <4>3. \A q \in Runtime : at[q] \in InProgress \cup {"ready"} => q \in stopped \cup leaving
        BY <3>2, NothingRuns
      <4>4. OnlyOwnerRuns' /\ SignedInRuns'
        BY <2>1, <2>3, <3>1, <3>2, <4>2, <4>3, NothingRuns
           DEF OnlyOwnerRuns, SignedInRuns, Begin, InProgress
      <4>5. StateIsLive' /\ ContextIsCurrent' /\ OwnerIsFresh' /\ StartingIsSession'
        BY <1>1, <2>1, <3>1, <3>2
           DEF IInv, StateIsLive, ContextIsCurrent, OwnerIsFresh, StartingIsSession
      <4>6. QED
        BY <4>1, <4>4, <4>5 DEF IInv
    <3>3. CASE ~(state = None /\ init = None)
      <4>1. UNCHANGED <<at, init>>
        BY <1>3, <2>3, <3>3 DEF SessionStarted
      <4>2. TypeOK'
        BY <1>1, <2>1, <3>1, <4>1 DEF TypeOK, InProgress
      <4>3. QED
        BY <1>1, <2>1, <3>1, <4>1, <4>2
           DEF IInv, StateIsLive, ContextIsCurrent, OwnerIsFresh, OnlyOwnerRuns, SignedInRuns, StartingIsSession
    <3>4. QED
      BY <3>2, <3>3
  <2>4. QED
    BY <2>2, <2>3
<1>4. QED
  BY <1>2, <1>3

\* session_shutdown up to the hand-off of tasks, and after it.
LEMMA ShutdownKeeps ==
  ASSUME IInv, None \notin Runtime, SessionShutdown \/ HandedOff
  PROVE  IInv'
<1>1. TypeOK
  BY DEF IInv
<1>2. CASE SessionShutdown
  <2>1. TypeOK'
    BY <1>1, <1>2, ZenonT(30) DEF SessionShutdown, TypeOK, Ref
  <2>2. OnlyOwnerRuns'
    BY <1>1, <1>2 DEF SessionShutdown, IInv, OnlyOwnerRuns, Ref
  <2>3. SignedInRuns'
    BY <1>1, <1>2 DEF SessionShutdown, IInv, SignedInRuns, Ref, TypeOK
  <2>4. StateIsLive' /\ ContextIsCurrent' /\ OwnerIsFresh' /\ StartingIsSession'
    BY <1>2 DEF SessionShutdown, StateIsLive, ContextIsCurrent, OwnerIsFresh, StartingIsSession
  <2>5. QED
    BY <2>1, <2>2, <2>3, <2>4 DEF IInv
<1>3. CASE HandedOff
  <2>1. TypeOK'
    BY <1>1, <1>3 DEF HandedOff, TypeOK
  <2>2. OnlyOwnerRuns' /\ SignedInRuns'
    BY <1>1, <1>3 DEF HandedOff, IInv, OnlyOwnerRuns, SignedInRuns
  <2>3. StateIsLive' /\ ContextIsCurrent' /\ OwnerIsFresh' /\ StartingIsSession'
    BY <1>1, <1>3
       DEF HandedOff, IInv, StateIsLive, ContextIsCurrent, OwnerIsFresh, StartingIsSession, TypeOK
  <2>4. QED
    BY <2>1, <2>2, <2>3 DEF IInv
<1>4. QED
  BY <1>2, <1>3

-----------------------------------------------------------------------------
(* The theorems *)

\* No session has begun.
LEMMA RuntimesBegin ==
  ASSUME None \notin Runtime, Init
  PROVE  IInv
BY DEF Init, IInv, TypeOK, StateIsLive, ContextIsCurrent, OwnerIsFresh, OnlyOwnerRuns, SignedInRuns,
       StartingIsSession, InProgress

\* So every step keeps the invariant.
LEMMA RuntimesKeep ==
  ASSUME None \notin Runtime, IInv, [Next]_vars
  PROVE  IInv'
<1>1. CASE UNCHANGED vars
  BY <1>1
     DEF vars, IInv, TypeOK, StateIsLive, ContextIsCurrent, OwnerIsFresh, OnlyOwnerRuns, SignedInRuns,
              StartingIsSession
<1>2. CASE Next
  BY <1>2, OperationKeeps, InitializationKeeps, CleanupKeeps, StartKeeps, ShutdownKeeps DEF Next
<1>3. QED
  BY <1>1, <1>2

\* The inductive invariant of every behaviour.
THEOREM RuntimeInvariance ==
  ASSUME None \notin Runtime
  PROVE  Spec => []IInv
<1>1. Init => IInv
  BY RuntimesBegin
<1>2. IInv /\ [Next]_vars => IInv'
  BY RuntimesKeep
<1>3. QED
  BY <1>1, <1>2, PTL DEF Spec

\* index.ts: a published state is the active owner's, nothing runs and nobody is signed in
\* beside it that was not stopped or is leaving, and extensions call in the last session's
\* context, however session events, operations and initializations interleave.
THEOREM OneLiveRuntime ==
  ASSUME None \notin Runtime
  PROVE  Spec => []RuntimesHold
<1>1. IInv => RuntimesHold
  <2> SUFFICES ASSUME IInv PROVE RuntimesHold
    OBVIOUS
  <2>1. OneRuntime
    BY DEF IInv, OnlyOwnerRuns, OneRuntime
  <2>2. SignInsAreOwned
    BY DEF IInv, SignedInRuns, SignInsAreOwned
  <2>3. QED
    BY <2>1, <2>2 DEF IInv, RuntimesHold
<1>2. QED
  BY <1>1, RuntimeInvariance, PTL

-----------------------------------------------------------------------------
(***************************************************************************)
(* Theorems about ServerRegistry, for any registrations, installations and *)
(* versions of Pi's server: its inductive invariant RegistryInv holds of every    *)
(* behaviour, and with it NamesAreHeld and FilesWin.                       *)
(***************************************************************************)

\* Registrations, installations, the files and nobody are different holders of a name.
Apart ==
  /\ File \notin Registration \cup Install /\ Null \notin Registration \cup Install
  /\ File # Null /\ Null \notin Versions
  /\ \A r \in Registration : r \notin Install

-----------------------------------------------------------------------------
(* The operators: what applyPiMcpServers() makes of a name *)

Holder ==
  [config : Entries, kept : Entries, runtime : Registration \cup {Null},
   handle : [Registration -> {"free", "held", "closing", "freeing"}],
   applied : Versions \cup {Null}, adopted : Registration \cup {Null}]

\* HeldOnce, of a name between two steps
Sound(n) ==
  /\ n \in Holder
  /\ n.kept = n.config
  /\ \A r \in Registration : n.handle[r] = "held" <=> n.runtime = r
  /\ n.applied = Null => n.adopted = Null
  /\ n.adopted # Null => n.runtime = n.adopted

\* dispose() gives the name up, with the entry when it is still its own.
LEMMA Disposing ==
  ASSUME Apart, NEW n \in Holder, NEW r \in Registration
  PROVE  LET m == Disposed(n, r)
             own == n.config = r /\ ~edited
         IN /\ m \in Holder
            /\ m.runtime = Null /\ m.applied = n.applied /\ m.adopted = n.adopted
            /\ m.handle = [n.handle EXCEPT ![r] = IF own THEN "closing" ELSE "freeing"]
            /\ m.config = (IF own THEN Null ELSE n.config)
            /\ m.kept = (IF own THEN Null ELSE n.kept)
<1> DEFINE own == n.config = r /\ ~edited
           h == [n.handle EXCEPT ![r] = IF own THEN "closing" ELSE "freeing"]
           c == IF own THEN Null ELSE n.config
           k == IF own THEN Null ELSE n.kept
           m == [config |-> c, kept |-> k, runtime |-> Null, handle |-> h,
                 applied |-> n.applied, adopted |-> n.adopted]
<1>1. h \in [Registration -> {"free", "held", "closing", "freeing"}] /\ c \in Entries /\ k \in Entries
  BY DEF Holder, Entries
<1>2. Disposed(n, r) = m
  <2> DEFINE x == IF own THEN "closing" ELSE "freeing"
             e == [n EXCEPT !.runtime = Null, !.handle = h, !.config = c, !.kept = k]
  <2>1. Disposed(n, r) = [n EXCEPT !.runtime = Null, !.handle[r] = x, !.config = c, !.kept = k]
    BY DEF Disposed, Holder
  <2>2. [n EXCEPT !.runtime = Null, !.handle[r] = x, !.config = c, !.kept = k] = e
    BY DEF Holder
  <2>3. n = [config |-> n.config, kept |-> n.kept, runtime |-> n.runtime, handle |-> n.handle,
             applied |-> n.applied, adopted |-> n.adopted]
    BY DEF Holder
  <2>4. e = m
    <3> DEFINE e1 == [n EXCEPT !.runtime = Null]
               e2 == [e1 EXCEPT !.handle = h]
               e3 == [e2 EXCEPT !.config = c]
               e4 == [e3 EXCEPT !.kept = k]
    <3>1. e = e4
      BY DEF Holder
    <3>2. e1 = [config |-> n.config, kept |-> n.kept, runtime |-> Null, handle |-> n.handle,
                applied |-> n.applied, adopted |-> n.adopted]
      BY <2>3
    <3> HIDE DEF e1, h, c, k
    <3>3. e2 = [config |-> n.config, kept |-> n.kept, runtime |-> Null, handle |-> h,
                applied |-> n.applied, adopted |-> n.adopted]
      BY <3>2
    <3> HIDE DEF e2
    <3>4. e3 = [config |-> c, kept |-> n.kept, runtime |-> Null, handle |-> h,
                applied |-> n.applied, adopted |-> n.adopted]
      BY <3>3
    <3> HIDE DEF e3
    <3>5. e4 = m
      BY <3>4
    <3> HIDE DEF e4, e, m
    <3>6. QED
      BY <3>1, <3>5
  <2>5. QED
    BY <2>1, <2>2, <2>4
<1>3. m \in Holder
  BY <1>1 DEF Holder
<1>4. QED
  BY <1>2, <1>3

\* What Pi changed or withdrew is given up, and nothing else changes.
LEMMA Withdrawing ==
  ASSUME Apart, NEW n, Sound(n), NEW v \in Versions \cup {Null}
  PROVE  LET m == Withdrawn(n, v)
         IN /\ Sound(m)
            /\ m.applied \in {Null, v} /\ (n.applied = v => m.applied = v)
            /\ (n.applied # v => m.applied = Null)
            /\ m.adopted \in {Null, n.adopted}
            /\ \/ m.config = n.config /\ m.runtime = n.runtime /\ m.handle = n.handle
               \/ /\ n.adopted # Null /\ m.runtime = Null
                  /\ m.config = IF n.config = n.adopted /\ ~edited THEN Null ELSE n.config
                  /\ m.handle = [n.handle EXCEPT ![n.adopted] =
                                   IF n.config = n.adopted /\ ~edited THEN "closing" ELSE "freeing"]
<1> DEFINE d == Disposed(n, n.adopted)
           m == Withdrawn(n, v)
           clear(x) == [x EXCEPT !.applied = Null, !.adopted = Null]
<1>1. CASE n.applied = Null \/ n.applied = v
  BY <1>1 DEF Withdrawn, Sound
<1>2. \A x \in Holder : /\ clear(x) \in Holder /\ clear(x).applied = Null /\ clear(x).adopted = Null
                        /\ clear(x).config = x.config /\ clear(x).kept = x.kept
                        /\ clear(x).runtime = x.runtime /\ clear(x).handle = x.handle
  BY DEF Holder
<1>3. CASE ~(n.applied = Null \/ n.applied = v) /\ n.adopted = Null
  <2>1. m = clear(n)
    BY <1>3 DEF Withdrawn
  <2> HIDE DEF m, clear
  <2>2. QED
    BY <1>2, <1>3, <2>1 DEF Sound, m
<1>4. CASE ~(n.applied = Null \/ n.applied = v) /\ n.adopted # Null
  <2>1. m = clear(d) /\ n.adopted \in Registration
    BY <1>4 DEF Withdrawn, Sound, Holder
  <2>2. /\ d \in Holder /\ d.runtime = Null
        /\ d.handle = [n.handle EXCEPT ![n.adopted] =
                         IF n.config = n.adopted /\ ~edited THEN "closing" ELSE "freeing"]
        /\ d.config = (IF n.config = n.adopted /\ ~edited THEN Null ELSE n.config) /\ d.kept = d.config
    BY <2>1, Disposing DEF Sound
  <2> HIDE DEF m, clear, d
  <2>3. \A r \in Registration : d.handle[r] # "held"
    BY <1>4, <2>1, <2>2 DEF Sound, Holder
  <2>4. Sound(m)
    BY <1>2, <2>1, <2>2, <2>3 DEF Sound, Apart
  <2>5. QED
    BY <1>2, <1>4, <2>1, <2>2, <2>4 DEF m
<1>5. QED
  BY <1>1, <1>3, <1>4

\* A server of Pi's that nothing overrides is registered.
LEMMA Adopting ==
  ASSUME Apart, NEW n, Sound(n), NEW v \in Versions \cup {Null},
         \E q \in Registration : n.handle[q] = "free"
  PROVE  LET m == Adopted(n, v)
         IN /\ Sound(m)
            /\ m.applied = IF v = Null \/ n.applied # Null THEN n.applied ELSE v
            /\ \/ /\ m.config = n.config /\ m.runtime = n.runtime /\ m.handle = n.handle
                  /\ m.adopted \in {Null, n.adopted}
                  /\ v = Null \/ n.applied # Null \/ n.config # Null \/ n.runtime # Null
               \/ /\ n.config = Null /\ n.runtime = Null
                  /\ m.adopted \in Registration /\ m.config = m.adopted /\ m.runtime = m.adopted
                  /\ m.handle = [n.handle EXCEPT ![m.adopted] = "held"]
<1> DEFINE r == CHOOSE q \in Registration : n.handle[q] = "free"
           m == Adopted(n, v)
<1>1. CASE v = Null \/ n.applied # Null
  BY <1>1 DEF Adopted
<1>2. CASE ~(v = Null \/ n.applied # Null) /\ (n.config # Null \/ n.runtime # Null)
  <2>1. m = [n EXCEPT !.applied = v, !.adopted = Null]
    BY <1>2 DEF Adopted
  <2>2. /\ m \in Holder /\ m.applied = v /\ m.adopted = Null /\ m.config = n.config /\ m.kept = n.kept
        /\ m.runtime = n.runtime /\ m.handle = n.handle
    BY <2>1 DEF Sound, Holder
  <2> HIDE DEF m
  <2>3. QED
    BY <1>2, <2>2 DEF Sound, Apart, m
<1>3. CASE ~(v = Null \/ n.applied # Null) /\ n.config = Null /\ n.runtime = Null
  <2>1. r \in Registration
    OBVIOUS
  <2>2. m = [n EXCEPT !.applied = v, !.adopted = r, !.config = r, !.kept = r,
                      !.runtime = r, !.handle[r] = "held"]
    BY <1>3 DEF Adopted
  <2> HIDE DEF r, m
  <2> DEFINE h == [n.handle EXCEPT ![r] = "held"]
             k == [config |-> r, kept |-> r, runtime |-> r, handle |-> h, applied |-> v, adopted |-> r]
  <2>3. m = k
    BY <2>2 DEF Sound, Holder
  <2>4. h \in [Registration -> {"free", "held", "closing", "freeing"}] /\ r \in Entries
    BY <2>1 DEF Sound, Holder, Entries
  <2>5. k \in Holder
    BY <2>1, <2>4 DEF Holder
  <2>6. \A q \in Registration : h[q] = "held" <=> r = q
    BY <1>3, <2>1 DEF Sound, Holder, Apart
  <2>7. Sound(m)
    BY <1>3, <2>1, <2>3, <2>5, <2>6 DEF Sound, Apart
  <2>8. QED
    BY <1>3, <2>1, <2>3, <2>7 DEF m
<1>4. QED
  BY <1>1, <1>2, <1>3

\* applyPiMcpServers() of a name that its session has as n, with what Pi offers: v.
LEMMA Applying ==
  ASSUME Apart, RegistryTypeOK, NEW n, Sound(n), NEW v \in Versions \cup {Null},
         \E q \in Registration : n.handle[q] = "free",
         n.adopted # Null => n.adopted \in byPi,
         edited => n.config = config,
         PiApplied(n, v)
  PROVE  /\ {config', kept'} \subseteq Entries /\ {runtime', adopted'} \subseteq Registration \cup {Null}
         /\ handle' \in [Registration -> {"free", "held", "closing", "freeing"}]
         /\ byPi' \subseteq Registration /\ edited' \in BOOLEAN /\ (edited' => edited /\ config' = config)
         /\ kept' = config' /\ applied' = v
         /\ \A r \in Registration : handle'[r] = "held" <=> runtime' = r
         /\ applied' = Null => adopted' = Null
         /\ adopted' # Null => runtime' = adopted' /\ adopted' \in byPi'
         /\ n.config \in Install \cup {File} => config' = n.config
         /\ config' \in {n.config, Null} \/ config' = runtime'
         /\ runtime' # Null => (runtime' = n.runtime /\ config' = n.config) \/ runtime' = config'
         /\ (n.config \in Registration /\ ~edited => n.runtime = n.config)
              => (config' \in Registration /\ ~edited' => runtime' = config')
         /\ v # Null /\ n.applied # v => config' # Null \/ runtime' # Null
<1> DEFINE w == Withdrawn(n, v)
           m == Adopted(w, v)
<1>1. /\ config' = m.config /\ kept' = m.kept /\ runtime' = m.runtime /\ handle' = m.handle
      /\ applied' = m.applied /\ adopted' = m.adopted /\ edited' = (edited /\ m.config = config)
      /\ byPi' = {r \in byPi \cup ({m.adopted} \ {Null}) : m.handle[r] # "free"}
  BY DEF PiApplied
<1>2. /\ Sound(w) /\ w.applied \in {Null, v} /\ (n.applied = v => w.applied = v)
      /\ (n.applied # v => w.applied = Null) /\ w.adopted \in {Null, n.adopted}
      /\ \/ w.config = n.config /\ w.runtime = n.runtime /\ w.handle = n.handle
         \/ /\ n.adopted # Null /\ w.runtime = Null
            /\ w.config = IF n.config = n.adopted /\ ~edited THEN Null ELSE n.config
            /\ w.handle = [n.handle EXCEPT ![n.adopted] =
                             IF n.config = n.adopted /\ ~edited THEN "closing" ELSE "freeing"]
  BY Withdrawing
<1>3. /\ n \in Holder /\ n.adopted \in Registration \cup {Null}
      /\ n.handle \in [Registration -> {"free", "held", "closing", "freeing"}]
      /\ \A r \in Registration : n.handle[r] = "held" <=> n.runtime = r
      /\ (n.adopted # Null => n.runtime = n.adopted)
  BY DEF Sound, Holder
<1> HIDE DEF w
<1>4. \E q \in Registration : w.handle[q] = "free"
  <2>1. PICK q \in Registration : n.handle[q] = "free"
    OBVIOUS
  <2>2. n.adopted # Null => n.handle[n.adopted] = "held"
    BY <1>3
  <2>3. w.handle[q] = "free"
    BY <1>2, <1>3, <2>1, <2>2
  <2>4. QED
    BY <2>3
<1>5. /\ Sound(m)
      /\ m.applied = IF v = Null \/ w.applied # Null THEN w.applied ELSE v
      /\ \/ /\ m.config = w.config /\ m.runtime = w.runtime /\ m.handle = w.handle
            /\ m.adopted \in {Null, w.adopted}
            /\ v = Null \/ w.applied # Null \/ w.config # Null \/ w.runtime # Null
         \/ /\ w.config = Null /\ w.runtime = Null
            /\ m.adopted \in Registration /\ m.config = m.adopted /\ m.runtime = m.adopted
            /\ m.handle = [w.handle EXCEPT ![m.adopted] = "held"]
  BY <1>2, <1>4, Adopting
<1>6. /\ w.handle \in [Registration -> {"free", "held", "closing", "freeing"}]
      /\ m.handle \in [Registration -> {"free", "held", "closing", "freeing"}]
      /\ {m.config, m.kept} \subseteq Entries /\ {m.runtime, m.adopted} \subseteq Registration \cup {Null}
      /\ m.kept = m.config
      /\ \A r \in Registration : m.handle[r] = "held" <=> m.runtime = r
      /\ (m.applied = Null => m.adopted = Null) /\ (m.adopted # Null => m.runtime = m.adopted)
  BY <1>2, <1>5 DEF Sound, Holder
<1> HIDE DEF m
<1>7. m.applied = v
  BY <1>2, <1>5
<1>8. byPi' \subseteq Registration /\ (adopted' # Null => adopted' \in byPi')
  <2>1. m.adopted # Null => m.handle[m.adopted] = "held"
    BY <1>6
  <2>2. QED
    BY <1>1, <1>6, <2>1 DEF RegistryTypeOK
<1>9. /\ n.config \in Install \cup {File} => m.config = n.config
      /\ m.config \in {n.config, Null} \/ m.config = m.runtime
      /\ m.runtime # Null => (m.runtime = n.runtime /\ m.config = n.config) \/ m.runtime = m.config
  BY <1>2, <1>3, <1>5 DEF Apart
<1>10. v # Null /\ n.applied # v => m.config # Null \/ m.runtime # Null
  BY <1>2, <1>5 DEF Apart
<1>11. ASSUME n.config \in Registration /\ ~edited => n.runtime = n.config
       PROVE  config' \in Registration /\ ~edited' => runtime' = config'
  BY <1>1, <1>2, <1>3, <1>5, <1>11 DEF Apart
<1>12. edited' \in BOOLEAN /\ (edited' => edited /\ config' = config)
  BY <1>1
<1>13. /\ {config', kept'} \subseteq Entries /\ {runtime', adopted'} \subseteq Registration \cup {Null}
       /\ handle' \in [Registration -> {"free", "held", "closing", "freeing"}]
       /\ kept' = config' /\ applied' = v
       /\ \A r \in Registration : handle'[r] = "held" <=> runtime' = r
       /\ (applied' = Null => adopted' = Null) /\ (adopted' # Null => runtime' = adopted')
  BY <1>1, <1>6, <1>7
<1>14. /\ n.config \in Install \cup {File} => config' = n.config
       /\ config' \in {n.config, Null} \/ config' = runtime'
       /\ runtime' # Null => (runtime' = n.runtime /\ config' = n.config) \/ runtime' = config'
       /\ v # Null /\ n.applied # v => config' # Null \/ runtime' # Null
  BY <1>1, <1>9, <1>10
<1>15. QED
  BY <1>8, <1>11, <1>12, <1>13, <1>14

\* The configuration that was loaded, and the registrations that join it.
LEMMA Merging ==
  ASSUME Apart, NEW n, Sound(n), n.applied = Null
  PROVE  LET m == Merged([n EXCEPT !.applied = Null, !.adopted = Null])
         IN /\ Sound(m) /\ m.config = IF file THEN File ELSE n.runtime
            /\ m.runtime = n.runtime /\ m.handle = n.handle /\ m.applied = Null /\ m.adopted = Null
<1> DEFINE c == IF file THEN File ELSE n.runtime
           k == [n EXCEPT !.applied = Null, !.adopted = Null]
           m == [k EXCEPT !.config = c, !.kept = c]
<1>1. c \in Entries /\ n \in Holder
  BY DEF Sound, Holder, Entries
<1>2. /\ k \in Holder /\ k.runtime = n.runtime /\ k.handle = n.handle /\ k.applied = Null /\ k.adopted = Null
  BY <1>1 DEF Holder
<1>3. Merged(k) = m
  BY <1>2 DEF Merged
<1> HIDE DEF c, k
<1>4. /\ m \in Holder /\ m.config = c /\ m.kept = c /\ m.runtime = k.runtime /\ m.handle = k.handle
      /\ m.applied = k.applied /\ m.adopted = k.adopted
  BY <1>1, <1>2 DEF Holder
<1> HIDE DEF m
<1>5. QED
  BY <1>1, <1>2, <1>3, <1>4 DEF Sound, c, k

\* The name as a session has it.
LEMMA NowIsSound ==
  ASSUME Apart, RegistryInv
  PROVE  /\ Sound(Now) /\ Now.config = config /\ Now.runtime = runtime /\ Now.handle = handle
         /\ Now.applied = applied /\ Now.adopted = adopted
<1>1. kept = config
  BY DEF RegistryInv, LifecycleFollowsConfig, NothingWithoutSession
<1>2. /\ Now \in Holder /\ Now.config = config /\ Now.kept = kept /\ Now.runtime = runtime /\ Now.handle = handle
      /\ Now.applied = applied /\ Now.adopted = adopted
  BY DEF RegistryInv, RegistryTypeOK, Now, Name, Holder
<1> HIDE DEF Now
<1>3. QED
  BY <1>1, <1>2 DEF RegistryInv, HeldOnce, Sound

-----------------------------------------------------------------------------
(* The steps *)

\* The extensions register and dispose.
LEMMA RegisterKeeps ==
  ASSUME Apart, RegistryInv, Register
  PROVE  RegistryInv'
<1>1. PICK r \in FreeRegistration :
        /\ runtime' = r /\ handle' = [handle EXCEPT ![r] = "held"]
        /\ IF active THEN config' = r /\ kept' = r ELSE UNCHANGED <<config, kept>>
  BY DEF Register
<1>2. /\ r \in Registration /\ handle[r] = "free" /\ runtime = Null /\ (active => config = Null)
      /\ adopted = Null /\ ~(applied = Null /\ offered # Null)
      /\ UNCHANGED <<file, early, active, sessionCtx, edited, byPi, offered, seen, applied, adopted, installs, forgone>>
  BY <1>1 DEF Register, FreeRegistration, RegistryInv, HeldOnce, Apart
<1>3. RegistryTypeOK'
  BY <1>1, <1>2 DEF RegistryInv, RegistryTypeOK, Entries, installs
<1>4. \A q \in Registration : handle'[q] = IF q = r THEN "held" ELSE handle[q]
  BY <1>1, <1>2 DEF RegistryInv, RegistryTypeOK
<1>5. HeldOnce'
  BY <1>1, <1>2, <1>4 DEF RegistryInv, HeldOnce, Apart
<1>6. LifecycleFollowsConfig' /\ RegistrationIsServed' /\ DisposedIsGone' /\ NothingWithoutSession' /\ PiIsNext'
  BY <1>1, <1>2, <1>4 DEF RegistryInv, LifecycleFollowsConfig, RegistrationIsServed, DisposedIsGone,
     NothingWithoutSession, PiIsNext, installs, Apart
<1>7. ProvisionalIsOwned' /\ InstallsHold'
  <2>1. config' = config \/ (config' = r /\ config = Null)
    BY <1>1, <1>2
  <2>2. r # File /\ r \notin Install /\ Null \notin Install
    BY <1>2 DEF Apart
  <2>3. ~active => \A i \in Install : install[i] = "idle"
    BY DEF RegistryInv, NothingWithoutSession
  <2>4. QED
    BY <1>2, <2>1, <2>2, <2>3 DEF RegistryInv, ProvisionalIsOwned, InstallsHold, installs
<1>8. QED
  BY <1>3, <1>5, <1>6, <1>7 DEF RegistryInv

\* dispose() up to the close of its connection.
LEMMA DisposeKeeps ==
  ASSUME Apart, RegistryInv, NEW r \in Registration, Dispose(r)
  PROVE  RegistryInv'
<1> DEFINE n == IF active THEN Now ELSE [Now EXCEPT !.config = Null]
           m == Disposed(n, r)
           own == active /\ config = r /\ ~edited
<1>1. /\ handle[r] = "held" /\ r \notin byPi /\ runtime' = Null /\ handle' = m.handle
      /\ IF active THEN config' = m.config /\ kept' = m.kept ELSE UNCHANGED <<config, kept>>
      /\ UNCHANGED <<file, early, active, sessionCtx, edited, byPi, offered, seen, applied, adopted, installs, forgone>>
  BY DEF Dispose
<1>2. n \in Holder /\ n.handle = handle /\ n.config = IF active THEN config ELSE Null
  <2>1. Now \in Holder /\ Now.config = config /\ Now.handle = handle
    BY NowIsSound DEF Sound
  <2>2. [Now EXCEPT !.config = Null] \in Holder /\ [Now EXCEPT !.config = Null].config = Null
        /\ [Now EXCEPT !.config = Null].handle = handle
    BY <2>1 DEF Holder, Entries
  <2>3. QED
    BY <2>1, <2>2
<1>3. n.kept = IF active THEN config ELSE kept
  BY <1>2, NowIsSound DEF Sound, Now, Name, RegistryInv, LifecycleFollowsConfig
<1> HIDE DEF n
<1>4. /\ handle' = [handle EXCEPT ![r] = IF own THEN "closing" ELSE "freeing"]
      /\ active => config' = (IF own THEN Null ELSE config) /\ kept' = config'
      /\ ~active => UNCHANGED <<config, kept>>
  BY <1>1, <1>2, <1>3, Disposing DEF Apart
<1>5. adopted = Null /\ runtime = r
  BY <1>1 DEF RegistryInv, HeldOnce, Apart
<1>6. RegistryTypeOK'
  <2>1. handle' \in [Registration -> {"free", "held", "closing", "freeing"}]
    BY <1>4 DEF RegistryInv, RegistryTypeOK
  <2>2. {config', kept'} \subseteq Entries
    BY <1>4 DEF RegistryInv, RegistryTypeOK, Entries
  <2>3. QED
    BY <1>1, <2>1, <2>2 DEF RegistryInv, RegistryTypeOK, installs
<1>7. \A q \in Registration : handle'[q] = IF q = r THEN IF own THEN "closing" ELSE "freeing" ELSE handle[q]
  BY <1>4 DEF RegistryInv, RegistryTypeOK
<1>8. HeldOnce'
  BY <1>1, <1>5, <1>7 DEF RegistryInv, HeldOnce, Apart
<1>9. LifecycleFollowsConfig' /\ RegistrationIsServed' /\ NothingWithoutSession' /\ PiIsNext'
  BY <1>1, <1>4, <1>5, <1>7 DEF RegistryInv, LifecycleFollowsConfig, RegistrationIsServed,
     NothingWithoutSession, PiIsNext, installs, Apart
<1>10. DisposedIsGone'
  BY <1>1, <1>4, <1>5, <1>7 DEF RegistryInv, DisposedIsGone, Apart
<1>11. ProvisionalIsOwned' /\ InstallsHold'
  <2>1. config' = config \/ (config' = Null /\ config \in Registration)
    BY <1>4
  <2>2. QED
    BY <1>1, <2>1 DEF RegistryInv, ProvisionalIsOwned, InstallsHold, installs, Apart
<1>12. QED
  BY <1>6, <1>8, <1>9, <1>10, <1>11 DEF RegistryInv

\* What applyPiMcpServers() leaves is as the invariant has it, in the session it is for.
LEMMA AppliedKeeps ==
  ASSUME Apart, RegistryInv, NEW n, Sound(n), NEW v \in Versions \cup {Null},
         \E q \in Registration : n.handle[q] = "free",
         n.adopted # Null => n.adopted \in byPi,
         edited => n.config = config,
         n.config \in Registration /\ ~edited => n.runtime = n.config,
         n.runtime # Null => n.config = n.runtime \/ n.config = File \/ overtaken,
         n.config \in Install => n.config = config,
         \A i \in Install : install[i] # "idle" => n.config = config,
         v # Null => n.applied # v,
         active' = TRUE, seen' = v, offered' \in Versions \cup {Null},
         ~active => \A i \in Install : install[i] = "idle",
         PiApplied(n, v), forgone' \in BOOLEAN, UNCHANGED <<file, early, sessionCtx, installs>>
  PROVE  RegistryInv' /\ (n.config = File => config' = File)
<1>1. /\ {config', kept'} \subseteq Entries /\ {runtime', adopted'} \subseteq Registration \cup {Null}
      /\ handle' \in [Registration -> {"free", "held", "closing", "freeing"}]
      /\ byPi' \subseteq Registration /\ edited' \in BOOLEAN /\ (edited' => edited /\ config' = config)
      /\ kept' = config' /\ applied' = v
      /\ \A r \in Registration : handle'[r] = "held" <=> runtime' = r
      /\ applied' = Null => adopted' = Null
      /\ adopted' # Null => runtime' = adopted' /\ adopted' \in byPi'
      /\ n.config \in Install \cup {File} => config' = n.config
      /\ config' \in {n.config, Null} \/ config' = runtime'
      /\ runtime' # Null => (runtime' = n.runtime /\ config' = n.config) \/ runtime' = config'
      /\ config' \in Registration /\ ~edited' => runtime' = config'
      /\ v # Null => config' # Null \/ runtime' # Null
  BY Applying DEF RegistryInv
<1>2. RegistryTypeOK'
  BY <1>1 DEF RegistryInv, RegistryTypeOK, installs
<1>3. LifecycleFollowsConfig' /\ RegistrationIsServed' /\ DisposedIsGone' /\ HeldOnce'
      /\ NothingWithoutSession' /\ PiIsNext'
  BY <1>1 DEF LifecycleFollowsConfig, RegistrationIsServed, DisposedIsGone, HeldOnce,
     NothingWithoutSession, PiIsNext, installs, Apart
<1>4. config' \in Install => config' = config
  BY <1>1 DEF Apart
<1>5. \A i \in Install : install[i] # "idle" => active
  OBVIOUS
<1>6. ProvisionalIsOwned'
  BY <1>4, <1>5 DEF RegistryInv, ProvisionalIsOwned, NothingWithoutSession, installs, Apart
<1>7. InstallsHold'
  <2>1. ASSUME NEW i \in Install, install[i] = "asking" PROVE config' # File
    BY <1>1, <2>1 DEF RegistryInv, InstallsHold, Apart
  <2>2. ASSUME ~overtaken, NEW i \in Install, install[i] = "connecting" PROVE provisional /\ config' = i /\ ~edited'
    <3>1. provisional /\ config = i /\ ~edited
      BY <2>2 DEF RegistryInv, InstallsHold
    <3>2. n.config = i
      BY <2>2, <3>1
    <3>3. QED
      BY <1>1, <3>1, <3>2
  <2>3. ASSUME ~overtaken, NEW i \in Install, install[i] = "undoing" PROVE provisional /\ config' \notin Install
    BY <1>4, <2>3 DEF RegistryInv, InstallsHold
  <2>4. QED
    BY <2>1, <2>2, <2>3 DEF RegistryInv, InstallsHold, installs
<1>8. QED
  BY <1>1, <1>2, <1>3, <1>6, <1>7 DEF RegistryInv

\* Pi's servers change, in a session or without one.
LEMMA PiKeeps ==
  ASSUME Apart, RegistryInv, PiOffers \/ PiChange
  PROVE  RegistryInv' /\ (active /\ active' /\ config = File => config' = File)
<1>1. CASE PiOffers
  <2>1. UNCHANGED <<file, early, active, sessionCtx, config, edited, kept, runtime, handle, byPi, applied, adopted, seen,
                    provisional, install, overtaken, forgone>> /\ offered' \in Versions \cup {Null}
    BY <1>1 DEF PiOffers, names, installs
  <2>2. QED
    BY <2>1
       DEF RegistryInv, RegistryTypeOK, LifecycleFollowsConfig, RegistrationIsServed, DisposedIsGone,
           ProvisionalIsOwned,
       HeldOnce, NothingWithoutSession, PiIsNext, InstallsHold
<1>2. CASE PiChange /\ ~active
  <2>1. /\ UNCHANGED <<file, early, active, sessionCtx, config, edited, kept, runtime, handle, byPi, applied,
                       adopted, offered, provisional, install, overtaken>>
        /\ seen' = offered /\ forgone' = FALSE
    BY <1>2 DEF PiChange, names, installs
  <2>2. QED
    BY <1>2, <2>1 DEF RegistryInv, RegistryTypeOK, LifecycleFollowsConfig, RegistrationIsServed, DisposedIsGone,
       ProvisionalIsOwned, HeldOnce, NothingWithoutSession, PiIsNext, InstallsHold
<1>3. CASE PiChange /\ active
  <2>1. /\ seen # offered /\ seen' = offered /\ offered \in Versions \cup {Null}
        /\ PiApplied(Now, offered) /\ UNCHANGED <<file, early, active, sessionCtx, offered, installs>>
        /\ active' = TRUE /\ forgone' \in BOOLEAN
    BY <1>3 DEF PiChange, RegistryInv, RegistryTypeOK
  <2>2. \E q \in Registration : handle[q] = "free"
    BY <1>3 DEF PiChange, FreeRegistration
  <2>3. /\ applied = seen /\ (adopted # Null => adopted \in byPi)
        /\ (config \in Registration /\ ~edited => runtime = config)
        /\ (runtime # Null => config = runtime \/ config = File \/ overtaken)
    BY <1>3 DEF RegistryInv, HeldOnce, DisposedIsGone, RegistrationIsServed
  <2>4. QED
    BY <1>3, <2>1, <2>2, <2>3, NowIsSound, AppliedKeeps
<1>4. QED
  BY <1>1, <1>2, <1>3

\* A session has loaded its configuration.
LEMMA ReadyKeeps ==
  ASSUME Apart, RegistryInv, SessionReady
  PROVE  RegistryInv'
<1> DEFINE w == Withdrawn(Now, Null)
           n == Merged([w EXCEPT !.applied = Null, !.adopted = Null])
<1>1. /\ ~active /\ active' = TRUE /\ seen' = seen /\ offered' = offered
      /\ offered \in Versions \cup {Null} /\ seen \in Versions \cup {Null}
      /\ \E q \in Registration : handle[q] = "free"
      /\ PiApplied(n, seen) /\ UNCHANGED <<file, early, sessionCtx, installs>> /\ forgone' \in BOOLEAN
  BY DEF SessionReady, FreeRegistration, RegistryInv, RegistryTypeOK
<1>2. ~edited /\ config = Null /\ (\A i \in Install : install[i] = "idle")
  BY <1>1 DEF RegistryInv, NothingWithoutSession
<1>3. /\ Sound(w) /\ w.applied = Null
      /\ \/ w.handle = handle
         \/ adopted # Null /\ w.handle = [handle EXCEPT ![adopted] = "freeing"]
  <2>1. Sound(Now) /\ Now.config = Null /\ Now.adopted = adopted /\ Now.handle = handle
    BY <1>2, NowIsSound
  <2>2. /\ Sound(w) /\ w.applied = Null
        /\ \/ w.handle = Now.handle
           \/ /\ Now.adopted # Null
              /\ w.handle = [Now.handle EXCEPT ![Now.adopted] =
                               IF Now.config = Now.adopted /\ ~edited THEN "closing" ELSE "freeing"]
    BY <2>1, Withdrawing
  <2>3. QED
    BY <2>1, <2>2
<1> HIDE DEF w
<1>4. /\ Sound(n) /\ n.config = IF file THEN File ELSE w.runtime
      /\ n.runtime = w.runtime /\ n.handle = w.handle /\ n.applied = Null /\ n.adopted = Null
  BY <1>3, Merging
<1> HIDE DEF n
<1>5. \E q \in Registration : n.handle[q] = "free"
  <2>1. PICK q \in Registration : handle[q] = "free"
    BY <1>1
  <2>2. adopted # Null => handle[adopted] = "held" /\ adopted \in Registration
    BY DEF RegistryInv, HeldOnce, RegistryTypeOK
  <2>3. n.handle[q] = "free"
    BY <1>3, <1>4, <2>1, <2>2 DEF RegistryInv, RegistryTypeOK
  <2>4. QED
    BY <2>3
<1>6. w.runtime \in Registration \cup {Null}
  BY <1>3 DEF Sound, Holder
<1>7. /\ n.config \in Registration => n.runtime = n.config
      /\ n.runtime # Null => n.config = n.runtime \/ n.config = File
      /\ n.config \notin Install
  BY <1>4, <1>6 DEF Apart
<1>8. QED
  BY <1>1, <1>2, <1>4, <1>5, <1>7, AppliedKeeps DEF Apart

\* dispose() returns, and a server of Pi's takes the name that it freed.
LEMMA DisposeEndsKeeps ==
  ASSUME Apart, RegistryInv, NEW r \in Registration, DisposeEnds(r)
  PROVE  RegistryInv' /\ (active /\ active' /\ config = File => config' = File)
<1> DEFINE freed == [handle EXCEPT ![r] = "free"]
           waits == r \notin byPi /\ PiWaits
           n == [Now EXCEPT !.handle = freed, !.applied = Null]
<1>1. /\ handle[r] \in {"closing", "freeing"}
      /\ UNCHANGED <<file, early, active, sessionCtx, offered, seen, installs>>
  BY DEF DisposeEnds
<1>2. /\ freed \in [Registration -> {"free", "held", "closing", "freeing"}]
      /\ \A q \in Registration : freed[q] = IF q = r THEN "free" ELSE handle[q]
      /\ \A q \in Registration : freed[q] = "held" <=> runtime = q
      /\ runtime # r
  BY <1>1 DEF RegistryInv, RegistryTypeOK, HeldOnce
<1>3. CASE waits /\ sessionCtx = "recorded"
  <2>0. r \notin byPi /\ active /\ applied # Null /\ adopted = Null /\ config = Null
    BY <1>3 DEF PiWaits
  <2>1. /\ PiApplied(n, seen) /\ seen \in Versions \cup {Null} /\ applied = seen /\ active' = TRUE
        /\ forgone' \in BOOLEAN
    BY <1>1, <1>3, <2>0 DEF DisposeEnds, RegistryInv, HeldOnce, RegistryTypeOK
  <2> HIDE DEF freed
  <2>2. /\ n \in Holder /\ n.config = config /\ n.kept = config /\ n.runtime = runtime /\ n.handle = freed
        /\ n.applied = Null /\ n.adopted = Null
    BY <1>2, <2>0, NowIsSound DEF Sound, Holder
  <2> HIDE DEF n
  <2>3. Sound(n)
    BY <1>2, <2>2 DEF Sound
  <2>4. \E q \in Registration : n.handle[q] = "free"
    BY <1>2, <2>2
  <2>5. runtime # Null => config = runtime \/ config = File \/ overtaken
    BY <2>0 DEF RegistryInv, RegistrationIsServed
  <2>6. QED
    BY <1>1, <2>0, <2>1, <2>2, <2>3, <2>4, <2>5, AppliedKeeps DEF Apart, RegistryInv, RegistryTypeOK
<1>4. CASE ~(waits /\ sessionCtx = "recorded")
  <2>1. /\ handle' = freed /\ byPi' = byPi \ {r} /\ forgone' = (forgone \/ waits)
        /\ UNCHANGED <<config, kept, runtime, applied, adopted, edited>>
    BY <1>4 DEF DisposeEnds
  <2>2. RegistryTypeOK'
    BY <1>1, <1>2, <2>1 DEF RegistryInv, RegistryTypeOK, installs
  <2>3. HeldOnce' /\ DisposedIsGone'
    BY <1>1, <1>2, <2>1 DEF RegistryInv, HeldOnce, DisposedIsGone, Apart
  <2>4. PiIsNext'
    <3>1. SUFFICES ASSUME active, seen # Null, config = Null, runtime = Null, ~forgone, ~waits
                   PROVE  \E q \in Registration \ (byPi \ {r}) : freed[q] \in {"closing", "freeing"}
      BY <1>1, <2>1 DEF PiIsNext
    <3>2. PICK q \in Registration \ byPi : handle[q] \in {"closing", "freeing"}
      BY <3>1 DEF RegistryInv, PiIsNext
    <3>3. r \in byPi
      BY <3>1 DEF RegistryInv, HeldOnce, PiWaits
    <3>4. QED
      BY <1>2, <3>2, <3>3
  <2>5. LifecycleFollowsConfig' /\ RegistrationIsServed' /\ NothingWithoutSession' /\ ProvisionalIsOwned' /\ InstallsHold'
    BY <1>1, <2>1 DEF RegistryInv, LifecycleFollowsConfig, RegistrationIsServed, NothingWithoutSession,
       ProvisionalIsOwned, InstallsHold, installs
  <2>6. QED
    BY <2>1, <2>2, <2>3, <2>4, <2>5 DEF RegistryInv
<1>5. QED
  BY <1>3, <1>4

\* A session begins or ends, the files and the panel are edited.
LEMMA EditKeeps ==
  ASSUME Apart, RegistryInv, SessionBegins \/ ContextRecorded \/ SessionEnds \/ FileEdited \/ PanelEdits
  PROVE  RegistryInv' /\ (active /\ active' /\ config = File => config' = File)
<1>1. CASE SessionBegins \/ SessionEnds
  <2>1. /\ active' = FALSE /\ config' = Null /\ kept' = Null /\ edited' = FALSE /\ provisional' = FALSE
        /\ install' = [i \in Install |-> "idle"] /\ overtaken' = FALSE /\ forgone' = FALSE
        /\ handle' = [r \in Registration |-> IF handle[r] = "closing" THEN "freeing" ELSE handle[r]]
        /\ UNCHANGED <<file, early, runtime, byPi, offered, applied, adopted>>
        /\ seen' \in {seen, offered} /\ sessionCtx' \in {sessionCtx, "none", "starting"}
    BY <1>1 DEF SessionBegins, SessionEnds, TakenDown
  <2>2. RegistryTypeOK'
    BY <2>1 DEF RegistryInv, RegistryTypeOK, Entries
  <2>3. HeldOnce'
    BY <2>1 DEF RegistryInv, HeldOnce, RegistryTypeOK
  <2>4. QED
    BY <2>1, <2>2, <2>3
       DEF RegistryInv, LifecycleFollowsConfig, RegistrationIsServed, DisposedIsGone, ProvisionalIsOwned,
       NothingWithoutSession, PiIsNext, InstallsHold, Apart
<1>2. CASE FileEdited
  <2>1. /\ ~active /\ file' = ~file
        /\ UNCHANGED <<early, active, sessionCtx, config, edited, kept, runtime, handle, byPi, applied, adopted, offered, seen,
                      provisional, install, overtaken, forgone>>
    BY <1>2 DEF FileEdited, names, installs
  <2>2. RegistryTypeOK'
    BY <2>1 DEF RegistryInv, RegistryTypeOK
  <2>3. QED
    BY <2>1, <2>2
       DEF RegistryInv, LifecycleFollowsConfig, RegistrationIsServed, DisposedIsGone, ProvisionalIsOwned,
       HeldOnce, NothingWithoutSession, PiIsNext, InstallsHold
<1>3. CASE PanelEdits
  <2>1. /\ active /\ config # Null /\ ~provisional /\ edited' = TRUE
        /\ UNCHANGED <<file, early, active, sessionCtx, config, kept, runtime, handle, byPi, applied, adopted, offered, seen,
                      provisional, install, overtaken, forgone>>
    BY <1>3 DEF PanelEdits, installs
  <2>2. RegistryTypeOK'
    BY <2>1 DEF RegistryInv, RegistryTypeOK
  <2>3. QED
    BY <2>1, <2>2
       DEF RegistryInv, LifecycleFollowsConfig, RegistrationIsServed, DisposedIsGone, ProvisionalIsOwned,
       HeldOnce, NothingWithoutSession, PiIsNext, InstallsHold
<1>4. CASE ContextRecorded
  <2>1. /\ sessionCtx' = "recorded"
        /\ UNCHANGED <<file, early, active, config, edited, kept, runtime, handle, byPi, applied, adopted, offered,
                      seen, provisional, install, overtaken, forgone>>
    BY <1>4 DEF ContextRecorded, names, installs
  <2>2. RegistryTypeOK'
    BY <2>1 DEF RegistryInv, RegistryTypeOK
  <2>3. QED
    BY <2>1, <2>2
       DEF RegistryInv, LifecycleFollowsConfig, RegistrationIsServed, DisposedIsGone, ProvisionalIsOwned,
       HeldOnce, NothingWithoutSession, PiIsNext, InstallsHold
<1>5. QED
  BY <1>1, <1>2, <1>3, <1>4

\* A step of an installation.
LEMMA InstallKeeps ==
  ASSUME Apart, RegistryInv, NEW i \in Install,
         \/ InstallStarts(i) \/ InstallAllowed(i) \/ InstallDenied(i)
         \/ InstallSaves(i) \/ InstallFails(i) \/ InstallUndone(i)
  PROVE  RegistryInv' /\ (active /\ active' /\ config = File => config' = File)
<1>1. /\ active
      /\ UNCHANGED <<early, active, sessionCtx, runtime, handle, byPi, applied, adopted, offered, seen>>
  BY
     DEF InstallStarts, InstallAllowed, InstallDenied, InstallSaves, InstallFails, InstallUndone,
         Added, names,
     RegistryInv, NothingWithoutSession
<1>2. \A j \in Install : install'[j] = IF j = i THEN install'[i] ELSE install[j]
  BY DEF InstallStarts, InstallAllowed, InstallDenied, InstallSaves, InstallFails, InstallUndone, Added,
     RegistryInv, RegistryTypeOK
<1>3. CASE Added(i) /\ (install[i] = "asking" \/ (install[i] = "idle" /\ ~InstallRefused))
  <2>1. CASE config = Null \/ install[i] = "asking"
    <3>1. /\ install' = [install EXCEPT ![i] = "connecting"] /\ provisional' = TRUE
          /\ config' = i /\ kept' = i /\ edited' = FALSE
          /\ overtaken' = (overtaken \/ config # Null \/ InstallRefused) /\ UNCHANGED <<file, forgone>>
      BY <1>3, <2>1 DEF Added
    <3>2. RegistryTypeOK'
      BY <1>1, <3>1 DEF RegistryInv, RegistryTypeOK, Entries, InstallRefused
    <3>3. LifecycleFollowsConfig' /\ RegistrationIsServed' /\ DisposedIsGone' /\ HeldOnce'
          /\ NothingWithoutSession' /\ PiIsNext'
      BY <1>1, <3>1 DEF RegistryInv, LifecycleFollowsConfig, RegistrationIsServed, DisposedIsGone, HeldOnce,
         NothingWithoutSession, PiIsNext, InstallRefused, Apart
    <3>4. install'[i] = "connecting"
      BY <3>1 DEF RegistryInv, RegistryTypeOK
    <3>5. ProvisionalIsOwned'
      BY <3>1, <3>4 DEF ProvisionalIsOwned
    <3>6. ~overtaken' => ~overtaken /\ config = Null /\ ~provisional
      BY <3>1 DEF InstallRefused
    <3>7. InstallsHold'
      BY <1>2, <3>1, <3>4, <3>6 DEF RegistryInv, InstallsHold, Apart
    <3>8. install[i] = "asking" => config # File
      BY DEF RegistryInv, InstallsHold
    <3>9. QED
      BY <2>1, <3>2, <3>3, <3>5, <3>7, <3>8 DEF RegistryInv, Apart
  <2>2. CASE ~(config = Null \/ install[i] = "asking")
    <3>1. /\ install' = [install EXCEPT ![i] = "found"]
          /\ UNCHANGED <<config, kept, edited, provisional, overtaken, file, forgone>>
      BY <1>3, <2>2 DEF Added
    <3>2. RegistryTypeOK'
      BY <1>1, <3>1 DEF RegistryInv, RegistryTypeOK
    <3>3. install[i] = "idle" /\ install'[i] = "found"
      BY <1>3, <2>2, <3>1 DEF RegistryInv, RegistryTypeOK
    <3>4. ProvisionalIsOwned' /\ InstallsHold'
      BY <1>1, <1>2, <3>1, <3>3 DEF RegistryInv, ProvisionalIsOwned, InstallsHold
    <3>5. QED
      BY <1>1, <3>1, <3>2, <3>4
         DEF RegistryInv, LifecycleFollowsConfig, RegistrationIsServed, DisposedIsGone, HeldOnce,
         NothingWithoutSession, PiIsNext
  <2>3. QED
    BY <2>1, <2>2
<1>4. ASSUME NEW s \in {"idle", "asking"}, install' = [install EXCEPT ![i] = s],
             install[i] \notin {"connecting", "undoing"}, s = "asking" => config = Null,
             UNCHANGED <<config, kept, edited, provisional, overtaken, file, forgone>>
      PROVE  RegistryInv' /\ config' = config
  <2>1. RegistryTypeOK' /\ install'[i] = s
    BY <1>1, <1>4 DEF RegistryInv, RegistryTypeOK
  <2>2. ProvisionalIsOwned' /\ InstallsHold'
    BY <1>1, <1>2, <1>4, <2>1 DEF RegistryInv, ProvisionalIsOwned, InstallsHold, Apart
  <2>3. QED
    BY <1>1, <1>4, <2>1, <2>2
       DEF RegistryInv, LifecycleFollowsConfig, RegistrationIsServed, DisposedIsGone, HeldOnce,
       NothingWithoutSession, PiIsNext
<1>5. CASE InstallSaves(i)
  <2>1. CASE install[i] = "found"
    <3>1. /\ install' = [install EXCEPT ![i] = "idle"] /\ UNCHANGED <<config, kept, edited, overtaken, forgone>>
          /\ file' = (file \/ FALSE) /\ provisional' = (provisional /\ TRUE)
      BY <1>5, <2>1 DEF InstallSaves, names
    <3>2. UNCHANGED <<file, provisional>>
      BY <3>1 DEF RegistryInv, RegistryTypeOK
    <3>3. QED
      BY <1>4, <2>1, <3>1, <3>2
  <2>2. CASE install[i] = "connecting"
    <3>1. /\ install' = [install EXCEPT ![i] = "idle"] /\ UNCHANGED <<config, kept, edited, overtaken, forgone>>
          /\ file' = TRUE /\ provisional' = FALSE
      BY <1>5, <2>2 DEF InstallSaves, names
    <3>2. RegistryTypeOK' /\ install'[i] = "idle"
      BY <1>1, <3>1 DEF RegistryInv, RegistryTypeOK
    <3>3. ProvisionalIsOwned'
      BY <3>1 DEF ProvisionalIsOwned
    <3>4. InstallsHold'
      BY <1>2, <2>2, <3>1, <3>2 DEF RegistryInv, InstallsHold
    <3>5. QED
      BY <1>1, <3>1, <3>2, <3>3, <3>4
         DEF RegistryInv, LifecycleFollowsConfig, RegistrationIsServed, DisposedIsGone, HeldOnce,
         NothingWithoutSession, PiIsNext
  <2>3. QED
    BY <1>5, <2>1, <2>2 DEF InstallSaves
<1>6. CASE InstallFails(i)
  <2>1. CASE install[i] = "connecting" /\ config = i /\ ~edited
    <3>1. /\ install' = [install EXCEPT ![i] = "undoing"] /\ config' = Null /\ kept' = Null
          /\ forgone' = (forgone \/ applied # Null) /\ UNCHANGED <<file, edited, provisional, overtaken>>
      BY <1>6, <2>1 DEF InstallFails
    <3>2. RegistryTypeOK' /\ install'[i] = "undoing"
      BY <1>1, <3>1 DEF RegistryInv, RegistryTypeOK, Entries
    <3>3. ProvisionalIsOwned'
      BY <1>1, <3>1, <3>2 DEF ProvisionalIsOwned, Apart
    <3>4. InstallsHold'
      BY <1>2, <2>1, <3>1, <3>2 DEF RegistryInv, InstallsHold, Apart
    <3>5. runtime = Null \/ overtaken
      BY <1>1, <2>1 DEF RegistryInv, RegistryTypeOK, RegistrationIsServed, Apart
    <3>6. LifecycleFollowsConfig' /\ RegistrationIsServed' /\ DisposedIsGone'
      BY <1>1, <3>1, <3>5 DEF RegistryInv, LifecycleFollowsConfig, RegistrationIsServed, DisposedIsGone, Apart
    <3>7. HeldOnce' /\ NothingWithoutSession'
      BY <1>1, <3>1 DEF RegistryInv, HeldOnce, NothingWithoutSession
    <3>8. PiIsNext'
      BY <1>1, <3>1, <3>7 DEF HeldOnce, PiIsNext
    <3>9. QED
      BY <2>1, <3>2, <3>3, <3>4, <3>6, <3>7, <3>8 DEF RegistryInv, Apart
  <2>2. CASE ~(install[i] = "connecting" /\ config = i /\ ~edited)
    <3>1. /\ install' = [install EXCEPT ![i] = "idle"]
          /\ UNCHANGED <<config, kept, forgone, file, edited, provisional, overtaken>>
      BY <1>6, <2>2 DEF InstallFails
    <3>2. CASE install[i] = "found"
      BY <1>4, <3>1, <3>2
    <3>3. CASE install[i] = "connecting"
      <4>1. overtaken /\ overtaken'
        BY <2>2, <3>1, <3>3 DEF RegistryInv, InstallsHold
      <4>2. RegistryTypeOK' /\ install'[i] = "idle"
        BY <1>1, <3>1 DEF RegistryInv, RegistryTypeOK
      <4>3. ProvisionalIsOwned' /\ InstallsHold'
        BY <1>2, <3>1, <4>1, <4>2 DEF RegistryInv, ProvisionalIsOwned, InstallsHold
      <4>4. QED
        BY <1>1, <3>1, <4>1, <4>2, <4>3
           DEF RegistryInv, LifecycleFollowsConfig, RegistrationIsServed, DisposedIsGone,
           HeldOnce, NothingWithoutSession, PiIsNext
    <3>4. QED
      BY <1>6, <3>2, <3>3 DEF InstallFails
  <2>3. QED
    BY <2>1, <2>2
<1>7. CASE InstallUndone(i)
  <2>1. /\ install[i] = "undoing" /\ install' = [install EXCEPT ![i] = "idle"] /\ provisional' = FALSE
        /\ UNCHANGED <<config, kept, forgone, file, edited, overtaken>>
    BY <1>7 DEF InstallUndone, names
  <2>2. RegistryTypeOK' /\ install'[i] = "idle"
    BY <1>1, <2>1 DEF RegistryInv, RegistryTypeOK
  <2>3. ProvisionalIsOwned' /\ InstallsHold'
    BY <1>1, <1>2, <2>1, <2>2 DEF RegistryInv, ProvisionalIsOwned, InstallsHold
  <2>4. QED
    BY <1>1, <2>1, <2>2, <2>3
       DEF RegistryInv, LifecycleFollowsConfig, RegistrationIsServed, DisposedIsGone, HeldOnce,
       NothingWithoutSession, PiIsNext
<1>8. CASE InstallDenied(i)
  BY <1>4, <1>8 DEF InstallDenied, names
<1>9. CASE InstallStarts(i) /\ ~Added(i)
  BY <1>4, <1>9 DEF InstallStarts, names
<1>10. QED
  BY <1>1, <1>3, <1>5, <1>6, <1>7, <1>8, <1>9 DEF InstallStarts, InstallAllowed

-----------------------------------------------------------------------------
(* The theorems *)

\* A session starts with the names free and the configuration not loaded.
LEMMA RegistryBegins ==
  ASSUME Apart, RegistryInit
  PROVE  RegistryInv
<1>1. PICK configured \in BOOLEAN : Starts(configured)
  BY DEF RegistryInit
<1>2. RegistryTypeOK
  BY <1>1 DEF Starts, RegistryTypeOK, Entries
<1>3. HeldOnce
  BY <1>1 DEF Starts, HeldOnce, Apart
<1>4. NothingWithoutSession /\ InstallsHold
  BY <1>1 DEF Starts, NothingWithoutSession, InstallsHold, Apart
<1>5. LifecycleFollowsConfig /\ RegistrationIsServed /\ DisposedIsGone /\ ProvisionalIsOwned /\ PiIsNext
  BY <1>1
     DEF Starts, LifecycleFollowsConfig, RegistrationIsServed, DisposedIsGone, ProvisionalIsOwned,
         PiIsNext
<1>6. QED
  BY <1>2, <1>3, <1>4, <1>5 DEF RegistryInv

\* No step breaks the invariant, and none displaces a server of the files in its session.
LEMMA RegistryKeeps ==
  ASSUME Apart, RegistryInv, [RegistryNext]_registryVars
  PROVE  RegistryInv' /\ (active /\ active' /\ config = File => config' = File)
<1>1. CASE PiOffers \/ PiChange
  BY <1>1, PiKeeps
<1>2. CASE Register
  <2>1. active => config = Null
    BY <1>2 DEF Register
  <2>2. QED
    BY <1>2, <2>1, RegisterKeeps DEF Apart
<1>3. CASE SessionBegins \/ ContextRecorded \/ SessionEnds \/ FileEdited \/ PanelEdits
  BY <1>3, EditKeeps
<1>4. CASE SessionReady
  <2>1. ~active
    BY <1>4 DEF SessionReady
  <2>2. QED
    BY <1>4, <2>1, ReadyKeeps
<1>5. ASSUME NEW r \in Registration, Dispose(r)
      PROVE  RegistryInv' /\ (active /\ active' /\ config = File => config' = File)
  <2>1. ASSUME active, config = File
        PROVE  config' = File
    <3>1. config' = Disposed(Now, r).config
      BY <1>5, <2>1 DEF Dispose
    <3>2. Now \in Holder /\ Now.config = config
      BY NowIsSound DEF Sound
    <3>3. config # r
      BY <2>1 DEF Apart
    <3>4. Disposed(Now, r).config = Now.config
      BY <3>2, <3>3, Disposing
    <3>5. QED
      BY <2>1, <3>1, <3>2, <3>4
  <2>2. QED
    BY <1>5, <2>1, DisposeKeeps
<1>6. ASSUME NEW r \in Registration, DisposeEnds(r)
      PROVE  RegistryInv' /\ (active /\ active' /\ config = File => config' = File)
  BY <1>6, DisposeEndsKeeps
<1>7. ASSUME NEW i \in Install,
             \/ InstallStarts(i) \/ InstallAllowed(i) \/ InstallDenied(i)
             \/ InstallSaves(i) \/ InstallFails(i) \/ InstallUndone(i)
      PROVE  RegistryInv' /\ (active /\ active' /\ config = File => config' = File)
  BY <1>7, InstallKeeps
<1>8. CASE UNCHANGED registryVars
  BY <1>8 DEF registryVars, RegistryInv, RegistryTypeOK, LifecycleFollowsConfig, RegistrationIsServed, DisposedIsGone,
     ProvisionalIsOwned, HeldOnce, NothingWithoutSession, PiIsNext, InstallsHold
<1>9. QED
  BY <1>1, <1>2, <1>3, <1>4, <1>5, <1>6, <1>7, <1>8 DEF RegistryNext

\* The inductive invariant holds of every behaviour: sessions, extensions, Pi and installations
\* from a URL (index.ts, registerAdapterServer(), applyPiMcpServers(), executeInstall()).
THEOREM RegistryInvariance ==
  ASSUME Apart
  PROVE  RegistrySpec => []RegistryInv
<1>1. RegistryInit => RegistryInv
  BY RegistryBegins
<1>2. RegistryInv /\ [RegistryNext]_registryVars => RegistryInv'
  BY RegistryKeeps
<1>3. QED
  BY <1>1, <1>2, PTL DEF RegistrySpec

\* Who holds the name is served under it and nothing else is: a disposed registration's server is
\* gone, Pi's server takes a name that is freed while a session has recorded its context, and a
\* provisional entry is saved or undone.
THEOREM NameIsHeld ==
  ASSUME Apart
  PROVE  RegistrySpec => []NamesAreHeld
<1>1. RegistryInv => NamesAreHeld
  <2>1. PiIsNext => PiTakesFreedName
    BY DEF PiIsNext, PiTakesFreedName
  <2>2. QED
    BY <2>1 DEF RegistryInv, NamesAreHeld
<1>2. QED
  BY <1>1, RegistryInvariance, PTL

\* A server of the configuration files is never displaced in a session that loaded it: not by an
\* extension, by Pi or by an installation whose dialog was answered late.
THEOREM FilesKeepTheirName ==
  ASSUME Apart
  PROVE  RegistrySpec => FilesWin
<1>1. RegistryInv /\ [RegistryNext]_registryVars => [active /\ active' /\ config = File => config' = File]_registryVars
  BY RegistryKeeps
<1>2. QED
  BY <1>1, RegistryInvariance, PTL DEF RegistrySpec, FilesWin

-----------------------------------------------------------------------------
(* Both *)

\* What the runtimes, the registrations and the installations know of each other is consistent in
\* every behaviour of either component.
THEOREM SessionConsistent ==
  ASSUME None \notin Runtime, Apart
  PROVE  MCSpec => []SessionTypeOK
<1>1. MCInit => SessionTypeOK
  <2>1. Init => IInv
    BY RuntimesBegin
  <2>2. Starts(FALSE) => RegistryInit
    BY DEF RegistryInit
  <2>3. RegistryInit => RegistryInv
    BY RegistryBegins
  <2>4. QED
    BY <2>1, <2>2, <2>3 DEF MCInit, SessionTypeOK
<1>2. SessionTypeOK /\ [MCNext]_<<focus, vars, registryVars>> => SessionTypeOK'
  <2>1. IInv /\ [Next]_vars => IInv'
    BY RuntimesKeep
  <2>2. RegistryInv /\ [RegistryNext]_registryVars => RegistryInv'
    BY RegistryKeeps
  <2>3. QED
    BY <2>1, <2>2 DEF MCNext, SessionTypeOK
<1>3. QED
  BY <1>1, <1>2, PTL DEF MCSpec
=============================================================================
