---------------------------- MODULE SignInProofs ----------------------------
(***************************************************************************)
(* Theorems about the two parts of MCSignIn.  SignIn, for any flows,       *)
(* sessions and number of logouts: its inductive invariant holds of every  *)
(* behaviour, and with it SignInsHold.  CredentialStore, for any urls and  *)
(* any number of token responses, wherever the store fails or the process  *)
(* dies: RecordsHold.  At the end, SignInTypeOK of a behaviour of either.  *)
(***************************************************************************)
EXTENDS MCSignIn, TLAPS

-----------------------------------------------------------------------------
(***************************************************************************)
(* Theorems about SignIn, for any flows, sessions and number of logouts:   *)
(* its inductive invariant IInv holds of every behaviour, and with it      *)
(* SignInsHold.                                                            *)
(***************************************************************************)

\* Nobody is no flow, some session exists, and logouts are counted.
FlowParams == None \notin Flow /\ Session # {} /\ MaxLogouts \in Nat

Places == {"free", "queued", "binding", "asking", "held", "waiting", "completing", "cancelled"}

-----------------------------------------------------------------------------
(* The operators *)

\* A flow that goes on keeps its session and its kind, and its authority if it is given it.
LEMMA Settling ==
  ASSUME FlowParams, TypeOK, NEW h \in SUBSET Flow, NEW a \in SUBSET Flow, NEW w \in SUBSET Flow,
         Settle(h, a, w)
  PROVE  /\ session' \in [Flow -> Session] /\ kind' \in [Flow -> Kinds]
         /\ holds' = h \cap Live' /\ aborted' = a \cap Live' /\ fenced' = w \cap Live'
         /\ \A f \in Live' : session'[f] = session[f] /\ kind'[f] = kind[f]
<1>1. AnySession \in Session
  BY DEF FlowParams, AnySession
<1>2. Live' \subseteq Flow
  BY DEF Live
<1>3. session' = [f \in Flow |-> IF f \in Live' THEN session[f] ELSE AnySession]
  BY DEF Settle
<1>4. kind' = [f \in Flow |-> IF f \in Live' THEN kind[f] ELSE "start"]
  BY DEF Settle
<1>5. session' \in [Flow -> Session] /\ \A f \in Live' : session'[f] = session[f]
  BY <1>1, <1>2, <1>3 DEF TypeOK
<1>6. kind' \in [Flow -> Kinds] /\ \A f \in Live' : kind'[f] = kind[f]
  BY <1>2, <1>4 DEF TypeOK, Kinds
<1>7. QED
  BY <1>5, <1>6 DEF Settle

\* The server begins to stop only when nobody is in its tables and nobody binds.
LEMMA Idling ==
  ASSUME TypeOK, NEW cb, NEW bind, StopIfIdle(cb, bind)
  PROVE  /\ stopping' \in {"no", "idle", "full"}
         /\ stopping' = stopping \/ (stopping' = "idle" /\ bind = None /\ \A g \in Flow : cb[g] = "none")
BY DEF StopIfIdle, TypeOK, Owned

\* A token is saved by a flow that is still its session's pending one, with authority: no logout has
\* taken the credentials away since it began.
LEMMA Saving ==
  ASSUME IInv, NEW f \in Flow, Holds(f), at[f] = "asking" \/ f \in active, Saved(f)
  PROVE  credentials' = credentials
<1>1. credentials # "removed"
  BY DEF IInv, AuthorityIsLive, Holds
<1>2. at[f] = "asking" \/ holder[session[f]] = f
  BY DEF IInv, PendingIsActive
<1>3. QED
  BY <1>1, <1>2 DEF Saved

-----------------------------------------------------------------------------
(* Flows end *)

\* The flows of F leave the callback server and their sessions.  Whatever else ends or is aborted, and
\* even if the server then begins to stop, the flows that go on are served.
LEMMA EndingKeeps ==
  ASSUME FlowParams, IInv, NEW F \in SUBSET Flow,
         NEW h \in SUBSET holds, NEW a \in SUBSET Flow, NEW w \in SUBSET Flow, aborted \subseteq a,
         at' \in [Flow -> Places],
         \A g \in F : at'[g] \in {"free", "completing", "cancelled"},
         \A g \in Flow \ F : at'[g] = at[g],
         callback' = Drop(F), active' = active \ F,
         holder' = [s \in Session |-> IF holder[s] \in F THEN None ELSE holder[s]],
         binding' = IF binding \in F THEN None ELSE binding, server' = server,
         stopping' \in {"no", "idle", "full"},
         \/ stopping' = stopping \/ h \subseteq a
         \/ stopping' = "idle" /\ binding' = None /\ (\A g \in Flow : callback'[g] = "none"),
         pasted' \in {pasted, None}, alive' \subseteq Session, \A g \in h \ a : session[g] \in alive',
         logout' \in [stopping : 0..MaxLogouts, clearing : 0..MaxLogouts],
         logout'.stopping + logout'.clearing <= MaxLogouts,
         logout'.stopping + logout'.clearing > 0 \/ credentials = "removed" => h = {},
         credentials' = credentials, Settle(h, a, w)
  PROVE  IInv'
<1>1. TypeOK /\ h \in SUBSET Flow
  BY DEF IInv, TypeOK
<1>2. /\ session' \in [Flow -> Session] /\ kind' \in [Flow -> Kinds]
      /\ holds' = h \cap Live' /\ aborted' = a \cap Live' /\ fenced' = w \cap Live'
      /\ \A f \in Live' : session'[f] = session[f] /\ kind'[f] = kind[f]
  BY <1>1, Settling
<1>3. Live' = {f \in Flow : at'[f] # "free" \/ f = pasted'}
  BY DEF Live
<1>4. callback' = [f \in Flow |-> IF f \in F THEN "none" ELSE callback[f]]
  BY DEF Drop
<1>5. TypeOK'
  <2>1. callback' \in [Flow -> {"none", "reserved", "pending"}]
    BY <1>1, <1>4 DEF TypeOK
  <2>2. holder' \in [Session -> Flow \cup {None}]
    BY <1>1 DEF TypeOK
  <2>3. binding' \in Flow \cup {None} /\ pasted' \in Flow \cup {None} /\ active' \subseteq Flow
    BY <1>1 DEF TypeOK
  <2>4. holds' \subseteq Flow /\ aborted' \subseteq Flow /\ fenced' \subseteq Flow
    BY <1>2, <1>3
  <2>5. server' \in {"down", "up"} /\ credentials' \in {"any", "removed", "revived", "stray"}
    BY <1>1 DEF TypeOK
  <2>6. QED
    BY <1>2, <2>1, <2>2, <2>3, <2>4, <2>5 DEF TypeOK, Places
<1>6. PendingIsActive'
  <2>1. ASSUME NEW s \in Session, holder'[s] # None
        PROVE  session'[holder'[s]] = s /\ at'[holder'[s]] \in {"held", "waiting", "completing", "cancelled"}
    <3>1. holder'[s] = holder[s] /\ holder[s] \notin F /\ holder[s] \in Flow
      BY <1>1, <2>1 DEF TypeOK
    <3>2. session[holder[s]] = s /\ at[holder[s]] \in {"held", "waiting", "completing", "cancelled"}
      BY <2>1, <3>1 DEF IInv, PendingIsActive
    <3>3. at'[holder[s]] = at[holder[s]]
      BY <3>1
    <3>4. holder[s] \in Live'
      BY <1>3, <3>1, <3>2, <3>3
    <3>5. QED
      BY <1>2, <3>1, <3>2, <3>3, <3>4
  <2>2. ASSUME NEW f \in Flow
        PROVE  /\ f \in active' <=> holder'[session'[f]] = f
               /\ at'[f] = "held" \/ callback'[f] = "pending" => f \in active'
               /\ at'[f] = "free" => callback'[f] = "none"
    <3>1. session'[f] \in Session /\ session[f] \in Session /\ f # None
      BY <1>1, <1>2 DEF TypeOK, FlowParams
    <3>2. CASE f \in F
      BY <1>4, <3>1, <3>2
    <3>3. CASE f \notin F
      <4>1. at'[f] = at[f] /\ callback'[f] = callback[f] /\ (f \in active' <=> f \in active)
        BY <1>4, <3>3
      <4>2. f \in active => holder[session[f]] = f /\ at[f] # "free"
        BY <3>1 DEF IInv, PendingIsActive
      <4>3. f \in active => session'[f] = session[f]
        BY <1>2, <1>3, <4>1, <4>2
      <4>4. f \in active' => holder'[session'[f]] = f
        BY <3>1, <3>3, <4>1, <4>2, <4>3
      <4>5. ASSUME holder'[session'[f]] = f
            PROVE  f \in active'
        <5>1. session'[f] = session[f]
          BY <2>1, <3>1, <4>5, <1>2, <1>3
        <5>2. holder[session[f]] = f
          BY <3>1, <4>5, <5>1
        <5>3. QED
          BY <4>1, <5>2 DEF IInv, PendingIsActive
      <4>6. QED
        BY <4>1, <4>4, <4>5 DEF IInv, PendingIsActive
    <3>4. QED
      BY <3>2, <3>3
  <2>3. QED
    BY <2>1, <2>2 DEF PendingIsActive
<1>7. \A f \in Flow : Holds(f)' => f \in Live' /\ f \in h \ a /\ Holds(f) /\ kind'[f] = kind[f] /\ session'[f] = session[f]
  BY <1>2 DEF Holds
<1>8. ASSUME NEW f \in Flow, Holds(f)', at'[f] # "free", f \notin F, kind'[f] # "silent"
      PROVE  /\ at'[f] \in {"asking", "held", "waiting"} =>
                  server' = "up" /\ stopping' = "no" /\ callback'[f] # "none"
  <2>1. at'[f] = at[f] /\ callback'[f] = callback[f]
    BY <1>4, <1>8
  <2>2. Holds(f) /\ kind[f] # "silent" /\ f \in h \ a
    BY <1>7, <1>8
  <2>3. at[f] \in {"asking", "held", "waiting"} => server = "up" /\ stopping = "no" /\ callback[f] # "none"
    BY <2>2 DEF IInv, LiveFlowsAreServed
  <2>4. QED
    BY <2>1, <2>2, <2>3
<1>9. LiveFlowsAreServed'
  BY <1>8 DEF LiveFlowsAreServed
<1>10. BindingIsAlive'
  <2>1. ASSUME NEW f \in Flow
        PROVE  at'[f] = "binding" <=> binding' = f
    <3>1. f # None /\ (at[f] = "binding" <=> binding = f)
      BY DEF FlowParams, IInv, BindingIsAlive
    <3>2. QED
      BY <3>1
  <2>2. ASSUME NEW f \in Flow, at'[f] = "binding", Holds(f)'
        PROVE  stopping' = "no"
    <3>1. f \notin F /\ at[f] = "binding" /\ Holds(f) /\ f \in h \ a /\ binding' = f
      BY <1>7, <2>1, <2>2
    <3>2. stopping = "no"
      BY <3>1 DEF IInv, BindingIsAlive
    <3>3. QED
      BY <3>1, <3>2 DEF FlowParams
  <2>3. QED
    BY <2>1, <2>2 DEF BindingIsAlive
<1>11. AuthorityIsLive'
  BY <1>2, <1>7 DEF IInv, AuthorityIsLive, LoggingOut
<1>12. QED
  BY <1>5, <1>6, <1>9, <1>10, <1>11 DEF IInv

\* The end of one operation.
LEMMA EndsKeeps ==
  ASSUME FlowParams, IInv, NEW f \in Flow, Ends(f),
         binding' = IF binding = f THEN None ELSE binding,
         UNCHANGED <<pasted, alive, server, logout, credentials>>, Settle(holds, aborted, fenced)
  PROVE  IInv'
<1>1. TypeOK /\ holds \in SUBSET holds /\ aborted \in SUBSET Flow /\ fenced \in SUBSET Flow
  BY DEF IInv, TypeOK
<1>2. at' \in [Flow -> Places] /\ at'[f] = "free" /\ \A g \in Flow \ {f} : at'[g] = at[g]
  BY <1>1 DEF Ends, TypeOK, Places
<1>3. /\ callback' = Drop({f}) /\ active' = active \ {f}
      /\ holder' = [s \in Session |-> IF holder[s] \in {f} THEN None ELSE holder[s]]
      /\ binding' = IF binding \in {f} THEN None ELSE binding
      /\ StopIfIdle(callback', binding')
  BY DEF Ends
<1>4. /\ stopping' \in {"no", "idle", "full"}
      /\ stopping' = stopping \/ (stopping' = "idle" /\ binding' = None /\ \A g \in Flow : callback'[g] = "none")
  BY <1>1, <1>3, Idling
<1>5. /\ logout' \in [stopping : 0..MaxLogouts, clearing : 0..MaxLogouts]
      /\ logout'.stopping + logout'.clearing <= MaxLogouts
      /\ logout'.stopping + logout'.clearing > 0 \/ credentials = "removed" => holds = {}
  BY DEF IInv, TypeOK, AuthorityIsLive, LoggingOut
<1>6. alive' \subseteq Session /\ \A g \in holds \ aborted : session[g] \in alive'
  BY DEF IInv, TypeOK, AuthorityIsLive
<1>7. QED
  BY <1>1, <1>2, <1>3, <1>4, <1>5, <1>6, EndingKeeps, ZenonT(30)

\* detachPending(): a held flow is over, a waiter is rejected.
LEMMA Detaching ==
  ASSUME FlowParams, IInv, NEW F \in SUBSET active, Detach(F)
  PROVE  /\ F \in SUBSET Flow /\ at' \in [Flow -> Places]
         /\ \A g \in F : at'[g] \in {"free", "completing", "cancelled"}
         /\ \A g \in Flow \ F : at'[g] = at[g]
         /\ callback' = Drop(F) /\ active' = active \ F
         /\ holder' = [s \in Session |-> IF holder[s] \in F THEN None ELSE holder[s]]
         /\ binding = IF binding \in F THEN None ELSE binding
<1>1. TypeOK /\ F \subseteq Flow
  BY DEF IInv, TypeOK
<1>2. \A g \in F : at[g] \in {"held", "waiting", "completing", "cancelled"}
  <2>1. TAKE g \in F
  <2>2. holder[session[g]] = g /\ session[g] \in Session /\ g # None
    BY <1>1 DEF IInv, PendingIsActive, TypeOK, FlowParams
  <2>3. QED
    BY <2>2 DEF IInv, PendingIsActive
<1>3. at' = [f \in Flow |->
              IF f \in F THEN CASE at[f] = "held" -> "free"
                                [] at[f] = "waiting" -> "cancelled"
                                [] OTHER -> at[f]
              ELSE at[f]]
  BY DEF Detach
<1>4. \A g \in F : at'[g] \in {"free", "completing", "cancelled"}
  BY <1>1, <1>2, <1>3
<1>5. \A g \in Flow \ F : at'[g] = at[g]
  BY <1>3
<1>6. at' \in [Flow -> Places]
  <2>1. \A g \in Flow : at[g] \in Places
    BY <1>1 DEF TypeOK, Places
  <2>2. \A g \in Flow : at'[g] \in Places
    BY <2>1, <1>4, <1>5 DEF Places
  <2>3. QED
    BY <1>3, <2>2
<1>7. binding \notin F
  BY <1>1, <1>2 DEF IInv, BindingIsAlive
<1>8. QED
  BY <1>1, <1>4, <1>5, <1>6, <1>7 DEF Detach

\* The timer of a held flow, and the exchange of a pasted code.
LEMMA PendingEnds ==
  ASSUME FlowParams, IInv, NEW f \in Flow, TimedOut(f) \/ PasteEnds(f)
  PROVE  IInv'
<1>1. /\ TypeOK /\ holds \in SUBSET holds /\ aborted \in SUBSET Flow /\ fenced \in SUBSET Flow
      /\ UNCHANGED <<alive, server, binding, logout>> /\ Settle(holds, aborted, fenced)
      /\ pasted' \in {pasted, None}
  BY DEF IInv, TypeOK, TimedOut, PasteEnds
<1>2. /\ logout' \in [stopping : 0..MaxLogouts, clearing : 0..MaxLogouts]
      /\ logout'.stopping + logout'.clearing <= MaxLogouts
      /\ logout'.stopping + logout'.clearing > 0 \/ credentials = "removed" => holds = {}
      /\ alive' \subseteq Session /\ \A g \in holds \ aborted : session[g] \in alive'
  BY <1>1 DEF IInv, TypeOK, AuthorityIsLive, LoggingOut
<1>3. credentials' = credentials
  <2>1. ASSUME MaySave(f), Saved(f)
        PROVE  credentials' = credentials
    BY <2>1, Saving DEF MaySave
  <2>2. QED
    BY <2>1 DEF TimedOut, PasteEnds, SaveTokens
<1>4. ASSUME f \in active, Detach({f}), StopIfIdle(Drop({f}), binding)
      PROVE  IInv'
  <2>1. {f} \in SUBSET active
    BY <1>4
  <2>2. /\ {f} \in SUBSET Flow /\ at' \in [Flow -> Places]
        /\ \A g \in {f} : at'[g] \in {"free", "completing", "cancelled"}
        /\ \A g \in Flow \ {f} : at'[g] = at[g]
        /\ callback' = Drop({f}) /\ active' = active \ {f}
        /\ holder' = [s \in Session |-> IF holder[s] \in {f} THEN None ELSE holder[s]]
        /\ binding = IF binding \in {f} THEN None ELSE binding
    BY <1>4, <2>1, Detaching
  <2>3. /\ stopping' \in {"no", "idle", "full"}
        /\ stopping' = stopping \/ (stopping' = "idle" /\ binding' = None /\ \A g \in Flow : callback'[g] = "none")
    BY <1>1, <1>4, <2>2, Idling
  <2>4. QED
    BY <1>1, <1>2, <1>3, <2>2, <2>3, EndingKeeps
<1>5. ASSUME UNCHANGED <<active, callback, at, holder>>, stopping' = stopping \/ StopIfIdle(callback, binding)
      PROVE  IInv'
  <2>1. /\ callback' = Drop({}) /\ active' = active \ {}
        /\ holder' = [s \in Session |-> IF holder[s] \in {} THEN None ELSE holder[s]]
        /\ binding' = IF binding \in {} THEN None ELSE binding
        /\ at' \in [Flow -> Places] /\ {} \in SUBSET Flow
    BY <1>1, <1>5 DEF TypeOK, Drop, Places
  <2>2. /\ stopping' \in {"no", "idle", "full"}
        /\ stopping' = stopping \/ (stopping' = "idle" /\ binding' = None /\ \A g \in Flow : callback'[g] = "none")
    <3>1. CASE stopping' = stopping
      BY <1>1, <3>1 DEF TypeOK
    <3>2. CASE StopIfIdle(callback, binding)
      BY <1>1, <1>5, <3>2, Idling
    <3>3. QED
      BY <1>5, <3>1, <3>2
  <2>3. \A g \in {} : at'[g] \in {"free", "completing", "cancelled"}
    OBVIOUS
  <2>4. \A g \in Flow \ {} : at'[g] = at[g]
    BY <1>5
  <2>5. QED
    BY <1>1, <1>2, <1>3, <1>5, <2>1, <2>2, <2>3, <2>4, EndingKeeps
<1>6. CASE TimedOut(f)
  <2>1. f \in active
    BY <1>6 DEF TimedOut, IInv, PendingIsActive
  <2>2. QED
    BY <1>4, <1>6, <2>1 DEF TimedOut
<1>7. CASE PasteEnds(f)
  <2>1. CASE UNCHANGED <<credentials, active, callback, at, holder, stopping>>
    BY <1>5, <2>1
  <2>2. CASE holder[session[f]] = f /\ Detach({f}) /\ StopIfIdle(Drop({f}), binding)
    <3>1. f \in active
      BY <2>2 DEF IInv, PendingIsActive
    <3>2. QED
      BY <1>4, <2>2, <3>1
  <2>3. CASE UNCHANGED <<active, callback, at, holder>> /\ StopIfIdle(callback, binding)
    BY <1>5, <2>3
  <2>4. QED
    BY <1>7, <2>1, <2>2, <2>3 DEF PasteEnds
<1>8. QED
  BY <1>6, <1>7

\* removeAuth() up to its await: no flow has authority any more.
LEMMA LogoutKeeps ==
  ASSUME FlowParams, IInv, LogoutBegins
  PROVE  IInv'
<1>1. /\ TypeOK /\ {} \in SUBSET holds /\ aborted \in SUBSET Flow /\ fenced \in SUBSET Flow
      /\ UNCHANGED <<pasted, alive, server, binding, credentials>> /\ Settle({}, aborted, fenced)
      /\ Detach(Pending) /\ StopIfIdle(Drop(Pending), binding) /\ alive' \subseteq Session
  BY DEF IInv, TypeOK, LogoutBegins
<1>2. Pending \in SUBSET active
  <2>1. ASSUME NEW s \in alive, holder[s] # None
        PROVE  holder[s] \in active
    <3>1. s \in Session /\ holder[s] \in Flow
      BY <1>1, <2>1 DEF TypeOK
    <3>2. QED
      BY <2>1, <3>1 DEF IInv, PendingIsActive
  <2>2. QED
    BY <2>1 DEF Pending
<1>3. /\ Pending \in SUBSET Flow /\ at' \in [Flow -> Places]
      /\ \A g \in Pending : at'[g] \in {"free", "completing", "cancelled"}
      /\ \A g \in Flow \ Pending : at'[g] = at[g]
      /\ callback' = Drop(Pending) /\ active' = active \ Pending
      /\ holder' = [s \in Session |-> IF holder[s] \in Pending THEN None ELSE holder[s]]
      /\ binding = IF binding \in Pending THEN None ELSE binding
  BY <1>1, <1>2, Detaching
<1>4. /\ stopping' \in {"no", "idle", "full"}
      /\ stopping' = stopping \/ (stopping' = "idle" /\ binding' = None /\ \A g \in Flow : callback'[g] = "none")
  BY <1>1, <1>3, Idling
<1>5. /\ logout' \in [stopping : 0..MaxLogouts, clearing : 0..MaxLogouts]
      /\ logout'.stopping + logout'.clearing <= MaxLogouts
  <2>1. /\ logout \in [stopping : 0..MaxLogouts, clearing : 0..MaxLogouts] /\ MaxLogouts \in Nat
        /\ logout.stopping + logout.clearing < MaxLogouts
    BY <1>1 DEF TypeOK, LogoutBegins, FlowParams
  <2>2. CASE logout' = [logout EXCEPT !.clearing = @ + 1]
    BY <2>1, <2>2
  <2>3. CASE logout' = [logout EXCEPT !.stopping = @ + 1]
    BY <2>1, <2>3
  <2>4. QED
    BY <2>2, <2>3 DEF LogoutBegins
<1>6. QED
  BY <1>1, <1>3, <1>4, <1>5, EndingKeeps

\* shutdownOAuth(): when the last session stops the callback server, every flow with authority was
\* this session's, and is aborted.
LEMMA ShutdownKeeps ==
  ASSUME FlowParams, IInv, NEW s \in Session, Shutdown(s)
  PROVE  IInv'
<1> DEFINE own  == {f \in Flow : session[f] = s}
           last == alive = {s}
           F    == {holder[s]} \ {None}
           a    == aborted \cup own
           w    == IF last THEN fenced \cup Queued ELSE fenced
<1>1. /\ TypeOK /\ holds \in SUBSET holds /\ a \in SUBSET Flow /\ w \in SUBSET Flow /\ aborted \subseteq a
      /\ UNCHANGED <<pasted, server, binding, logout, credentials>> /\ Settle(holds, a, w)
      /\ Detach(F) /\ s \in alive /\ alive' = alive \ {s} /\ alive' \subseteq Session
      /\ stopping' = IF last THEN "full" ELSE stopping
  BY DEF IInv, TypeOK, Shutdown, Queued
<1>2. F \in SUBSET active
  <2>1. ASSUME holder[s] # None
        PROVE  holder[s] \in active
    <3>1. holder[s] \in Flow
      BY <1>1, <2>1 DEF TypeOK
    <3>2. QED
      BY <2>1, <3>1 DEF IInv, PendingIsActive
  <2>2. QED
    BY <2>1
<1>3. /\ F \in SUBSET Flow /\ at' \in [Flow -> Places]
      /\ \A g \in F : at'[g] \in {"free", "completing", "cancelled"}
      /\ \A g \in Flow \ F : at'[g] = at[g]
      /\ callback' = Drop(F) /\ active' = active \ F
      /\ holder' = [t \in Session |-> IF holder[t] \in F THEN None ELSE holder[t]]
      /\ binding = IF binding \in F THEN None ELSE binding
  BY <1>1, <1>2, Detaching
<1>4. \A g \in holds \ aborted : session[g] \in alive /\ g \in Flow
  BY <1>1 DEF IInv, AuthorityIsLive, TypeOK
<1>5. \A g \in holds \ a : session[g] \in alive'
  BY <1>1, <1>4
<1>6. stopping' \in {"no", "idle", "full"} /\ (stopping' = stopping \/ holds \subseteq a)
  BY <1>1, <1>4 DEF TypeOK
<1>7. /\ logout' \in [stopping : 0..MaxLogouts, clearing : 0..MaxLogouts]
      /\ logout'.stopping + logout'.clearing <= MaxLogouts
      /\ logout'.stopping + logout'.clearing > 0 \/ credentials = "removed" => holds = {}
      /\ pasted' \in {pasted, None}
  BY <1>1 DEF IInv, TypeOK, AuthorityIsLive, LoggingOut
<1> HIDE DEF own, last, F, a, w
<1>8. QED
  BY <1>1, <1>3, <1>5, <1>6, <1>7, EndingKeeps

-----------------------------------------------------------------------------
(* A flow goes on *)

\* One flow that is nobody's pending one waits for the callback server, binds it, or asks the
\* authorization server; the others stay where they are.
LEMMA AdvanceKeeps ==
  ASSUME FlowParams, IInv, TypeOK', NEW f \in Flow,
         at[f] \in {"free", "queued", "binding"}, at'[f] \in {"queued", "binding", "asking"},
         callback'[f] \in {callback[f], "reserved"},
         \A g \in Flow \ {f} : at'[g] = at[g] /\ callback'[g] = callback[g],
         \A g \in Flow \ {f} : at[g] # "free" => session'[g] = session[g] /\ kind'[g] = kind[g],
         \A g \in Flow \ {f} : Holds(g)' => Holds(g) /\ session'[g] = session[g] /\ kind'[g] = kind[g],
         Holds(f)' => session'[f] \in alive,
         UNCHANGED <<active, holder, alive, logout, stopping>>, server' \in {server, "up"},
         binding' = IF at'[f] = "binding" THEN f ELSE IF binding = f THEN None ELSE binding,
         at'[f] = "binding" => binding = None,
         Holds(f)' /\ kind'[f] # "silent" /\ at'[f] = "asking" =>
           server' = "up" /\ stopping = "no" /\ callback'[f] # "none",
         Holds(f)' /\ at'[f] = "binding" => stopping = "no",
         holds' \cup aborted' \cup fenced' \subseteq Live',
         LoggingOut \/ credentials' = "removed" => holds' = {},
         credentials' \in {"any", "removed"}
  PROVE  IInv'
<1>1. TypeOK
  BY DEF IInv
<1>2. f \notin active /\ callback[f] # "pending" /\ \A s \in Session : holder[s] # f
  <2>1. \A s \in Session : holder[s] # f
    BY DEF IInv, PendingIsActive, FlowParams
  <2>2. session[f] \in Session
    BY <1>1 DEF TypeOK
  <2>3. QED
    BY <2>1, <2>2 DEF IInv, PendingIsActive
<1>3. PendingIsActive'
  <2>1. ASSUME NEW s \in Session, holder'[s] # None
        PROVE  session'[holder'[s]] = s /\ at'[holder'[s]] \in {"held", "waiting", "completing", "cancelled"}
    <3>1. holder'[s] = holder[s] /\ holder[s] \in Flow \ {f}
      BY <1>1, <1>2, <2>1 DEF TypeOK
    <3>2. session[holder[s]] = s /\ at[holder[s]] \in {"held", "waiting", "completing", "cancelled"}
      BY <2>1, <3>1 DEF IInv, PendingIsActive
    <3>3. QED
      BY <3>1, <3>2
  <2>2. ASSUME NEW g \in Flow
        PROVE  /\ g \in active' <=> holder'[session'[g]] = g
               /\ at'[g] = "held" \/ callback'[g] = "pending" => g \in active'
               /\ at'[g] = "free" => callback'[g] = "none"
    <3>1. session'[g] \in Session /\ session[g] \in Session /\ g # None
      BY <1>1 DEF TypeOK, FlowParams
    <3>2. CASE g = f
      BY <1>2, <3>1, <3>2
    <3>3. CASE g # f
      <4>1. at'[g] = at[g] /\ callback'[g] = callback[g] /\ (g \in active' <=> g \in active)
        BY <3>3
      <4>2. g \in active => holder[session[g]] = g /\ at[g] # "free"
        BY <3>1 DEF IInv, PendingIsActive
      <4>3. g \in active' => holder'[session'[g]] = g
        BY <3>3, <4>1, <4>2
      <4>4. ASSUME holder'[session'[g]] = g
            PROVE  g \in active'
        <5>1. session[g] = session'[g]
          BY <2>1, <3>1, <3>3, <4>1, <4>4
        <5>2. QED
          BY <4>1, <4>4, <5>1 DEF IInv, PendingIsActive
      <4>5. QED
        BY <4>1, <4>3, <4>4 DEF IInv, PendingIsActive
    <3>4. QED
      BY <3>2, <3>3
  <2>3. QED
    BY <2>1, <2>2 DEF PendingIsActive
<1>4. LiveFlowsAreServed'
  <2>1. ASSUME NEW g \in Flow, Holds(g)', at'[g] \in {"asking", "held", "waiting"}, kind'[g] # "silent"
        PROVE  server' = "up" /\ stopping' = "no" /\ callback'[g] # "none"
    <3>1. CASE g = f
      BY <2>1, <3>1
    <3>2. CASE g # f
      <4>1. Holds(g) /\ at[g] \in {"asking", "held", "waiting"} /\ kind[g] # "silent"
        BY <2>1, <3>2
      <4>2. server = "up" /\ stopping = "no" /\ callback[g] # "none"
        BY <4>1 DEF IInv, LiveFlowsAreServed
      <4>3. QED
        BY <3>2, <4>2
    <3>3. QED
      BY <3>1, <3>2
  <2>2. QED
    BY <2>1 DEF LiveFlowsAreServed
<1>5. BindingIsAlive'
  <2>1. ASSUME NEW g \in Flow
        PROVE  /\ at'[g] = "binding" <=> binding' = g
               /\ at'[g] = "binding" /\ Holds(g)' => stopping' = "no"
    <3>1. g # None /\ (at[g] = "binding" <=> binding = g) /\ (at[g] = "binding" /\ Holds(g) => stopping = "no")
      BY DEF IInv, BindingIsAlive, FlowParams
    <3>2. CASE g = f
      BY <3>1, <3>2
    <3>3. CASE g # f
      BY <3>1, <3>3
    <3>4. QED
      BY <3>2, <3>3
  <2>2. QED
    BY <2>1 DEF BindingIsAlive
<1>6. AuthorityIsLive'
  <2>1. \A g \in holds' \ aborted' : session'[g] \in alive'
    <3>1. TAKE g \in holds' \ aborted'
    <3>2. g \in Flow /\ Holds(g)'
      BY DEF TypeOK, Holds
    <3>3. CASE g = f
      BY <3>2, <3>3
    <3>4. CASE g # f
      BY <3>2, <3>4 DEF IInv, AuthorityIsLive, Holds
    <3>5. QED
      BY <3>3, <3>4
  <2>2. QED
    BY <2>1 DEF IInv, AuthorityIsLive, LoggingOut
<1>7. QED
  BY <1>3, <1>4, <1>5, <1>6 DEF IInv

\* ensureCallbackServerLocked() of a flow: it has its state in a server that listens, or binds.
LEMMA Locking ==
  ASSUME FlowParams, TypeOK, NEW f \in Flow, at[f] \in {"free", "queued"}, binding = None, Locked(f), ~Ends(f)
  PROVE  /\ at' \in [Flow -> Places] /\ at'[f] \in {"binding", "asking"}
         /\ callback' \in [Flow -> {"none", "reserved", "pending"}]
         /\ callback'[f] \in {callback[f], "reserved"}
         /\ \A g \in Flow \ {f} : at'[g] = at[g] /\ callback'[g] = callback[g]
         /\ UNCHANGED <<active, holder, stopping>>
         /\ binding' = IF at'[f] = "binding" THEN f ELSE None
         /\ at'[f] = "asking" => server = "up" /\ callback'[f] = "reserved"
<1>1. f # None
  BY DEF FlowParams
<1>2. CASE /\ server = "up" /\ at' = [at EXCEPT ![f] = "asking"] /\ callback' = [callback EXCEPT ![f] = "reserved"]
           /\ UNCHANGED <<active, holder, binding, stopping>>
  BY <1>2 DEF TypeOK, Places
<1>3. CASE /\ at' = [at EXCEPT ![f] = "binding"] /\ binding' = f
           /\ UNCHANGED <<active, holder, callback, stopping>>
  BY <1>1, <1>3 DEF TypeOK, Places
<1>4. QED
  BY <1>2, <1>3 DEF Locked

\* A flow begins: it asks at once, waits for the callback server or binds it.
LEMMA StartKeeps ==
  ASSUME FlowParams, IInv, NEW f \in Flow, NEW s \in Session, NEW k \in Kinds, Start(f, s, k)
  PROVE  IInv'
<1>1. /\ TypeOK /\ f \notin Live /\ at[f] = "free" /\ s \in alive /\ ~LoggingOut /\ fenced' = fenced \ {f}
      /\ session' = [session EXCEPT ![f] = s] /\ kind' = [kind EXCEPT ![f] = k] /\ at'[f] # "free"
      /\ holds' = holds \cup {f} /\ credentials' = "any" /\ UNCHANGED <<aborted, pasted, alive, server, logout>>
  <2>1. \E g \in Flow : g \notin Live
    BY DEF Start, Live
  <2>2. Fresh \notin Live
    BY <2>1 DEF Fresh
  <2>3. QED
    BY <2>2 DEF Start, IInv, Live
<1>2. /\ at' \in [Flow -> Places] /\ at'[f] \in {"queued", "binding", "asking"}
      /\ callback' \in [Flow -> {"none", "reserved", "pending"}]
      /\ callback'[f] \in {callback[f], "reserved"}
      /\ \A g \in Flow \ {f} : at'[g] = at[g] /\ callback'[g] = callback[g]
      /\ UNCHANGED <<active, holder, stopping>>
      /\ binding' = (IF at'[f] = "binding" THEN f ELSE IF binding = f THEN None ELSE binding)
      /\ (at'[f] = "binding" => binding = None /\ stopping = "no")
      /\ (at'[f] = "asking" /\ k # "silent" => server = "up" /\ stopping = "no" /\ callback'[f] = "reserved")
  <2>1. binding # f
    BY <1>1 DEF IInv, BindingIsAlive
  <2>2. CASE k = "silent"
    <3>1. at' = [at EXCEPT ![f] = "asking"] /\ UNCHANGED <<active, holder, callback, binding, stopping>>
      BY <2>2 DEF Start
    <3>2. QED
      BY <1>1, <2>1, <2>2, <3>1 DEF TypeOK, Places
  <2>3. CASE /\ at' = [at EXCEPT ![f] = "queued"]
             /\ UNCHANGED <<active, holder, callback, binding, stopping>>
    BY <1>1, <2>1, <2>3 DEF TypeOK, Places
  <2>4. CASE stopping = "no" /\ ~Busy /\ Locked(f)
    <3>1. binding = None
      BY <2>4 DEF Busy
    <3>2. ~Ends(f)
      BY <1>1 DEF Ends, TypeOK
    <3>3. QED
      BY <1>1, <2>1, <2>4, <3>1, <3>2, Locking DEF FlowParams
  <2>5. QED
    BY <2>2, <2>3, <2>4 DEF Start, Ensure
<1>3. TypeOK'
  <2>1. session' \in [Flow -> Session] /\ kind' \in [Flow -> Kinds]
    BY <1>1 DEF TypeOK
  <2>2. binding' \in Flow \cup {None}
    BY <1>1, <1>2 DEF TypeOK
  <2>3. QED
    BY <1>1, <1>2, <2>1, <2>2 DEF TypeOK, Places
<1>4. \A g \in Flow \ {f} : session'[g] = session[g] /\ kind'[g] = kind[g] /\ (Holds(g)' => Holds(g))
  BY <1>1 DEF TypeOK, Holds
<1>5. session'[f] \in alive /\ kind'[f] = k
  BY <1>1 DEF TypeOK
<1>6. holds' \cup aborted' \cup fenced' \subseteq Live'
  <2>1. \A g \in Live \cup {f} : g \in Live'
    BY <1>1, <1>2 DEF Live
  <2>2. QED
    BY <1>1, <2>1 DEF IInv, AuthorityIsLive
<1>7. QED
  BY <1>1, <1>2, <1>3, <1>4, <1>5, <1>6, AdvanceKeeps

\* A flow that waited for the callback server goes on: it was fenced by a shutdown, or has its turn.
LEMMA ResumeKeeps ==
  ASSUME FlowParams, IInv, NEW f \in Flow, Resume(f)
  PROVE  IInv'
<1>1. /\ TypeOK /\ at[f] = "queued" /\ binding = None /\ binding # f
      /\ UNCHANGED <<pasted, alive, server, logout, credentials>> /\ Settle(holds, aborted, fenced)
  BY DEF IInv, Resume, FlowParams
<1>2. CASE Ends(f) /\ UNCHANGED binding
  BY <1>1, <1>2, EndsKeeps
<1>3. CASE stopping = "no" /\ Locked(f) /\ ~(Ends(f) /\ UNCHANGED binding)
  <2>1. ~Ends(f)
    <3>1. ASSUME Ends(f)
          PROVE  FALSE
      <4>1. at'[f] = "free"
        BY <1>1, <3>1 DEF Ends, TypeOK
      <4>2. at' = [at EXCEPT ![f] = "asking"] \/ at' = [at EXCEPT ![f] = "binding"]
        BY <1>3, <3>1 DEF Locked
      <4>3. QED
        BY <1>1, <4>1, <4>2 DEF TypeOK
    <3>2. QED
      BY <3>1
  <2>2. /\ at' \in [Flow -> Places] /\ at'[f] \in {"binding", "asking"}
        /\ callback' \in [Flow -> {"none", "reserved", "pending"}]
        /\ callback'[f] \in {callback[f], "reserved"}
        /\ \A g \in Flow \ {f} : at'[g] = at[g] /\ callback'[g] = callback[g]
        /\ UNCHANGED <<active, holder, stopping>>
        /\ binding' = (IF at'[f] = "binding" THEN f ELSE None)
        /\ (at'[f] = "asking" => server = "up" /\ callback'[f] = "reserved")
    BY <1>1, <1>3, <2>1, Locking
  <2>3. /\ session' \in [Flow -> Session] /\ kind' \in [Flow -> Kinds]
        /\ holds' = holds \cap Live' /\ aborted' = aborted \cap Live' /\ fenced' = fenced \cap Live'
        /\ \A g \in Live' : session'[g] = session[g] /\ kind'[g] = kind[g]
    <3>1. holds \in SUBSET Flow /\ aborted \in SUBSET Flow /\ fenced \in SUBSET Flow
      BY <1>1 DEF TypeOK
    <3>2. QED
      BY <1>1, <3>1, Settling
  <2>4. Live' \subseteq Flow
    BY DEF Live
  <2>5. TypeOK'
    BY <1>1, <2>2, <2>3, <2>4 DEF TypeOK, Places
  <2>6. \A g \in Flow : at'[g] # "free" => g \in Live'
    BY DEF Live
  <2>7. \A g \in Flow : Holds(g)' => Holds(g) /\ g \in Live'
    BY <2>3 DEF Holds
  <2>8. Holds(f)' => session'[f] \in alive
    BY <2>3, <2>7 DEF IInv, AuthorityIsLive, Holds
  <2>9. (LoggingOut \/ credentials' = "removed" => holds' = {}) /\ credentials' \in {"any", "removed"}
    BY <1>1, <2>3 DEF IInv, AuthorityIsLive
  <2>10. \A g \in Flow \ {f} : at[g] # "free" => session'[g] = session[g] /\ kind'[g] = kind[g]
    BY <2>2, <2>3, <2>6
  <2>11. \A g \in Flow \ {f} : Holds(g)' => Holds(g) /\ session'[g] = session[g] /\ kind'[g] = kind[g]
    BY <2>3, <2>7
  <2>12. QED
    BY <1>1, <1>3, <2>2, <2>3, <2>5, <2>8, <2>9, <2>10, <2>11, AdvanceKeeps
<1>4. QED
  BY <1>2, <1>3 DEF Resume

\* The port is bound, or no port could be.
LEMMA BoundKeeps ==
  ASSUME FlowParams, IInv, NEW f \in Flow, Bound(f)
  PROVE  IInv'
<1>1. /\ TypeOK /\ binding = f /\ binding' = None /\ at[f] = "binding"
      /\ UNCHANGED <<pasted, alive, logout, credentials>> /\ Settle(holds, aborted, fenced)
  BY DEF IInv, Bound, BindingIsAlive
<1>2. CASE UNCHANGED server /\ Ends(f)
  BY <1>1, <1>2, EndsKeeps
<1>3. CASE /\ server' = "up" /\ callback' = [callback EXCEPT ![f] = "reserved"]
           /\ at' = [at EXCEPT ![f] = "asking"] /\ UNCHANGED <<active, holder, stopping>>
  <2>1. /\ at' \in [Flow -> Places] /\ at'[f] = "asking"
        /\ callback' \in [Flow -> {"none", "reserved", "pending"}] /\ callback'[f] = "reserved"
        /\ \A g \in Flow \ {f} : at'[g] = at[g] /\ callback'[g] = callback[g]
    BY <1>1, <1>3 DEF TypeOK, Places
  <2>2. /\ session' \in [Flow -> Session] /\ kind' \in [Flow -> Kinds]
        /\ holds' = holds \cap Live' /\ aborted' = aborted \cap Live' /\ fenced' = fenced \cap Live'
        /\ \A g \in Live' : session'[g] = session[g] /\ kind'[g] = kind[g]
    <3>1. holds \in SUBSET Flow /\ aborted \in SUBSET Flow /\ fenced \in SUBSET Flow
      BY <1>1 DEF TypeOK
    <3>2. QED
      BY <1>1, <3>1, Settling
  <2>3. Live' \subseteq Flow
    BY DEF Live
  <2>4. TypeOK'
    BY <1>1, <1>3, <2>1, <2>2, <2>3 DEF TypeOK, Places
  <2>5. \A g \in Flow : at'[g] # "free" => g \in Live'
    BY DEF Live
  <2>6. \A g \in Flow : Holds(g)' => Holds(g) /\ g \in Live'
    BY <2>2 DEF Holds
  <2>7. Holds(f)' => session'[f] \in alive /\ stopping = "no"
    BY <1>1, <2>2, <2>6 DEF IInv, AuthorityIsLive, Holds, BindingIsAlive
  <2>8. (LoggingOut \/ credentials' = "removed" => holds' = {}) /\ credentials' \in {"any", "removed"}
    BY <1>1, <2>2 DEF IInv, AuthorityIsLive
  <2>9. \A g \in Flow \ {f} : at[g] # "free" => session'[g] = session[g] /\ kind'[g] = kind[g]
    BY <2>1, <2>2, <2>5
  <2>10. \A g \in Flow \ {f} : Holds(g)' => Holds(g) /\ session'[g] = session[g] /\ kind'[g] = kind[g]
    BY <2>2, <2>6
  <2>11. QED
    BY <1>1, <1>3, <2>1, <2>2, <2>4, <2>7, <2>8, <2>9, <2>10, AdvanceKeeps
<1>4. QED
  BY <1>2, <1>3 DEF Bound

\* The operation of a flow is over, with its tokens saved or not.
LEMMA OperationKeeps ==
  ASSUME FlowParams, IInv, NEW f \in Flow, Authorized(f) \/ OperationEnds(f)
  PROVE  IInv'
<1>1. /\ at[f] \in {"completing", "waiting", "cancelled", "asking"} /\ Ends(f)
      /\ UNCHANGED <<pasted, alive, server, binding, logout>> /\ Settle(holds, aborted, fenced)
  BY DEF Authorized, OperationEnds
<1>2. binding # f
  BY <1>1 DEF IInv, BindingIsAlive
<1>3. credentials' = credentials
  <2>1. ASSUME Holds(f), at[f] = "asking" \/ f \in active, Saved(f)
        PROVE  credentials' = credentials
    BY <2>1, Saving
  <2>2. QED
    BY <2>1 DEF Authorized, OperationEnds, SaveTokens, MaySave
<1>4. QED
  BY <1>1, <1>2, <1>3, EndsKeeps

\* setPendingAuth(): the flow takes the place of its session's pending one, which ends.
LEMMA RedirectKeeps ==
  ASSUME FlowParams, IInv, NEW f \in Flow, Redirected(f)
  PROVE  IInv'
<1> DEFINE s   == session[f]
           old == {holder[s]} \ {None}
<1>1. /\ TypeOK /\ at[f] = "asking" /\ Holds(f) /\ kind[f] # "silent" /\ s \in Session /\ f # None
      /\ UNCHANGED <<pasted, alive, httpVars, logout, credentials>> /\ Settle(holds, aborted, fenced)
  BY DEF IInv, TypeOK, Redirected, FlowParams
<1>2. \A g \in old : g \in Flow /\ g # f /\ session[g] = s /\ at[g] \in {"held", "waiting", "completing", "cancelled"}
  BY <1>1 DEF IInv, TypeOK, PendingIsActive
<1>3. /\ active' = (active \ old) \cup {f} /\ holder' = [holder EXCEPT ![s] = f]
      /\ callback' = [Drop(old) EXCEPT ![f] = IF kind[f] = "authenticate" THEN "pending" ELSE @]
      /\ at' = [g \in Flow |->
              IF g = f THEN IF kind[f] = "start" THEN "held" ELSE "waiting"
              ELSE IF g \in old /\ at[g] = "held" THEN "free"
              ELSE IF g \in old /\ at[g] = "waiting" THEN "cancelled" ELSE at[g]]
  BY DEF Redirected
<1>4. /\ at'[f] \in {"held", "waiting"} /\ callback'[f] \in {"pending", callback[f]}
      /\ \A g \in old : at'[g] \in {"free", "completing", "cancelled"} /\ callback'[g] = "none"
      /\ \A g \in Flow \ (old \cup {f}) : at'[g] = at[g] /\ callback'[g] = callback[g]
  <2>1. Drop(old) = [g \in Flow |-> IF g \in old THEN "none" ELSE callback[g]]
    BY DEF Drop
  <2>2. f \notin old
    BY <1>2
  <2>3. callback'[f] \in {"pending", callback[f]} /\ \A g \in Flow \ {f} : callback'[g] = Drop(old)[g]
    BY <1>3, <2>1, <2>2
  <2>4. at'[f] \in {"held", "waiting"}
    BY <1>3
  <2>5. \A g \in old : at'[g] \in {"free", "completing", "cancelled"}
    BY <1>2, <1>3
  <2>6. \A g \in Flow \ (old \cup {f}) : at'[g] = at[g]
    BY <1>3
  <2>7. QED
    BY <1>2, <2>1, <2>3, <2>4, <2>5, <2>6
<1>5. at' \in [Flow -> Places] /\ callback' \in [Flow -> {"none", "reserved", "pending"}]
  <2>1. \A g \in Flow : at[g] \in Places /\ callback[g] \in {"none", "reserved", "pending"}
    BY <1>1 DEF TypeOK, Places
  <2>2. \A g \in Flow : at'[g] \in Places /\ callback'[g] \in {"none", "reserved", "pending"}
    BY <1>4, <2>1 DEF Places
  <2>3. callback' = [g \in Flow |-> callback'[g]]
    BY <1>3 DEF Drop
  <2>4. at' = [g \in Flow |-> at'[g]]
    BY <1>3
  <2>5. QED
    BY <2>2, <2>3, <2>4
<1>6. /\ session' \in [Flow -> Session] /\ kind' \in [Flow -> Kinds]
      /\ holds' = holds \cap Live' /\ aborted' = aborted \cap Live' /\ fenced' = fenced \cap Live'
      /\ \A g \in Live' : session'[g] = session[g] /\ kind'[g] = kind[g]
  <2>1. holds \in SUBSET Flow /\ aborted \in SUBSET Flow /\ fenced \in SUBSET Flow
    BY <1>1 DEF TypeOK
  <2>2. QED
    BY <1>1, <2>1, Settling
<1>7. Live' \subseteq Flow /\ \A g \in Flow : at'[g] # "free" => g \in Live'
  BY DEF Live
<1>8. \A g \in Flow : Holds(g)' => Holds(g) /\ g \in Live'
  BY <1>6 DEF Holds
<1>9. session'[f] = s /\ kind'[f] = kind[f]
  BY <1>4, <1>6, <1>7
<1>10. TypeOK'
  <2>1. active' \subseteq Flow /\ holder' \in [Session -> Flow \cup {None}]
    BY <1>1, <1>3 DEF TypeOK
  <2>2. QED
    BY <1>1, <1>5, <1>6, <1>7, <2>1 DEF TypeOK, Places, httpVars
<1>11. \A t \in Session : IF t = s THEN holder'[t] = f ELSE holder'[t] = holder[t] /\ holder[t] # f /\ holder[t] \notin old
  <2>1. TAKE t \in Session
  <2>2. holder[t] # f
    BY <1>1 DEF IInv, PendingIsActive
  <2>3. t # s => holder[t] \notin old
    BY <1>2 DEF IInv, PendingIsActive
  <2>4. QED
    BY <1>1, <1>3, <2>2, <2>3 DEF TypeOK
<1> HIDE DEF s, old
<1>12. PendingIsActive'
  <2>1. ASSUME NEW t \in Session, holder'[t] # None
        PROVE  session'[holder'[t]] = t /\ at'[holder'[t]] \in {"held", "waiting", "completing", "cancelled"}
    <3>1. CASE t = s
      BY <1>4, <1>9, <1>11, <3>1
    <3>2. CASE t # s
      <4>1. holder'[t] = holder[t] /\ holder[t] \in Flow \ (old \cup {f})
        BY <1>1, <1>11, <2>1, <3>2 DEF TypeOK
      <4>2. session[holder[t]] = t /\ at[holder[t]] \in {"held", "waiting", "completing", "cancelled"}
        BY <2>1, <4>1 DEF IInv, PendingIsActive
      <4>3. at'[holder[t]] = at[holder[t]]
        BY <1>4, <4>1
      <4>4. QED
        BY <1>6, <1>7, <4>1, <4>2, <4>3
    <3>3. QED
      BY <3>1, <3>2
  <2>2. ASSUME NEW g \in Flow
        PROVE  /\ g \in active' <=> holder'[session'[g]] = g
               /\ at'[g] = "held" \/ callback'[g] = "pending" => g \in active'
               /\ at'[g] = "free" => callback'[g] = "none"
    <3>1. session'[g] \in Session /\ session[g] \in Session /\ g # None
      BY <1>1, <1>6 DEF TypeOK, FlowParams
    <3>2. CASE g = f
      BY <1>1, <1>3, <1>4, <1>9, <1>11, <3>2
    <3>3. CASE g \in old
      <4>1. holder'[session'[g]] # g
        BY <1>2, <1>11, <3>1, <3>3
      <4>2. g \notin active'
        BY <1>2, <1>3, <3>3
      <4>3. QED
        BY <1>4, <3>3, <4>1, <4>2
    <3>4. CASE g \notin old \cup {f}
      <4>1. at'[g] = at[g] /\ callback'[g] = callback[g] /\ (g \in active' <=> g \in active)
        BY <1>3, <1>4, <3>4
      <4>2. g \in active => holder[session[g]] = g /\ at[g] # "free"
        BY <3>1 DEF IInv, PendingIsActive
      <4>3. ASSUME g \in active'
            PROVE  holder'[session'[g]] = g
        <5>1. holder[session[g]] = g /\ session'[g] = session[g]
          BY <1>6, <1>7, <4>1, <4>2, <4>3
        <5>2. session[g] # s
          BY <3>1, <3>4, <5>1 DEF s, old
        <5>3. QED
          BY <1>11, <3>1, <5>1, <5>2
      <4>4. ASSUME holder'[session'[g]] = g
            PROVE  g \in active'
        <5>1. session'[g] # s /\ holder[session'[g]] = g
          BY <1>11, <3>1, <3>4, <4>4
        <5>2. session[g] = session'[g]
          BY <3>1, <5>1 DEF IInv, PendingIsActive
        <5>3. QED
          BY <4>1, <5>1, <5>2 DEF IInv, PendingIsActive
      <4>5. QED
        BY <4>1, <4>3, <4>4 DEF IInv, PendingIsActive
    <3>5. QED
      BY <3>2, <3>3, <3>4
  <2>3. QED
    BY <2>1, <2>2 DEF PendingIsActive
<1>13. LiveFlowsAreServed'
  <2>1. ASSUME NEW g \in Flow, Holds(g)', at'[g] \in {"asking", "held", "waiting"}, kind'[g] # "silent"
        PROVE  server' = "up" /\ stopping' = "no" /\ callback'[g] # "none"
    <3>1. g \notin old /\ Holds(g) /\ kind[g] # "silent"
      BY <1>4, <1>6, <1>8, <2>1
    <3>2. at[g] \in {"asking", "held", "waiting"}
      BY <1>1, <1>4, <2>1, <3>1
    <3>3. server = "up" /\ stopping = "no" /\ callback[g] # "none"
      BY <3>1, <3>2 DEF IInv, LiveFlowsAreServed
    <3>4. QED
      BY <1>1, <1>4, <3>1, <3>3 DEF httpVars
  <2>2. QED
    BY <2>1 DEF LiveFlowsAreServed
<1>14. BindingIsAlive'
  <2>1. ASSUME NEW g \in Flow
        PROVE  /\ at'[g] = "binding" <=> binding' = g
               /\ at'[g] = "binding" /\ Holds(g)' => stopping' = "no"
    <3>1. (at[g] = "binding" <=> binding = g) /\ (at[g] = "binding" /\ Holds(g) => stopping = "no")
      BY DEF IInv, BindingIsAlive
    <3>2. at'[g] = "binding" <=> at[g] = "binding"
      BY <1>1, <1>2, <1>4
    <3>3. QED
      BY <1>1, <1>8, <3>1, <3>2 DEF httpVars
  <2>2. QED
    BY <2>1 DEF BindingIsAlive
<1>15. AuthorityIsLive'
  <2>1. \A g \in holds' \ aborted' : session'[g] \in alive'
    <3>1. TAKE g \in holds' \ aborted'
    <3>2. g \in holds \ aborted /\ session'[g] = session[g]
      BY <1>6
    <3>3. QED
      BY <1>1, <3>2 DEF IInv, AuthorityIsLive
  <2>2. QED
    BY <1>1, <1>6, <2>1 DEF IInv, AuthorityIsLive, LoggingOut
<1>16. QED
  BY <1>10, <1>12, <1>13, <1>14, <1>15 DEF IInv

-----------------------------------------------------------------------------
(* The callback server stops, and what changes no flow's end *)

\* cleanup(): nobody who is alive needs the server when it has stopped.
LEMMA StopKeepsFlows ==
  ASSUME FlowParams, IInv, StopDone
  PROVE  IInv'
<1>1. /\ TypeOK /\ stopping # "no" /\ binding = None /\ stopping' = "no" /\ server' = "down"
      /\ logout' = [stopping |-> 0, clearing |-> logout.clearing + logout.stopping]
      /\ callback' = [f \in Flow |-> "none"]
      /\ at' = [f \in Flow |-> IF callback[f] = "pending" THEN "cancelled" ELSE at[f]]
      /\ UNCHANGED <<active, pasted, holder, alive, binding, credentials>>
      /\ Settle(holds, aborted, fenced)
  BY DEF IInv, StopDone
<1>2. at' \in [Flow -> Places] /\ \A g \in Flow : at'[g] = at[g] \/ (callback[g] = "pending" /\ at'[g] = "cancelled")
  <2>1. \A g \in Flow : at[g] \in Places
    BY <1>1 DEF TypeOK, Places
  <2>2. QED
    BY <1>1, <2>1 DEF Places
<1>3. logout' \in [stopping : 0..MaxLogouts, clearing : 0..MaxLogouts]
      /\ logout'.stopping + logout'.clearing = logout.stopping + logout.clearing
  BY <1>1 DEF IInv, TypeOK, AuthorityIsLive, FlowParams
<1>4. /\ session' \in [Flow -> Session] /\ kind' \in [Flow -> Kinds]
      /\ holds' = holds \cap Live' /\ aborted' = aborted \cap Live' /\ fenced' = fenced \cap Live'
      /\ \A g \in Live' : session'[g] = session[g] /\ kind'[g] = kind[g]
  <2>1. holds \in SUBSET Flow /\ aborted \in SUBSET Flow /\ fenced \in SUBSET Flow
    BY <1>1 DEF TypeOK
  <2>2. QED
    BY <1>1, <2>1, Settling
<1>5. Live' \subseteq Flow /\ \A g \in Flow : at'[g] # "free" => g \in Live'
  BY DEF Live
<1>6. TypeOK'
  BY <1>1, <1>2, <1>3, <1>4, <1>5 DEF TypeOK, Places
<1>7. \A g \in Flow : Holds(g)' => Holds(g) /\ g \in Live'
  BY <1>4 DEF Holds
<1>8. \A g \in Flow : callback[g] = "pending" => at[g] # "free"
  BY DEF IInv, PendingIsActive
<1>9. PendingIsActive'
  <2>1. ASSUME NEW s \in Session, holder'[s] # None
        PROVE  session'[holder'[s]] = s /\ at'[holder'[s]] \in {"held", "waiting", "completing", "cancelled"}
    <3>1. /\ holder[s] \in Flow /\ session[holder[s]] = s
          /\ at[holder[s]] \in {"held", "waiting", "completing", "cancelled"}
      BY <1>1, <2>1 DEF IInv, PendingIsActive, TypeOK
    <3>2. at'[holder[s]] \in {"held", "waiting", "completing", "cancelled"}
      BY <1>2, <3>1
    <3>3. QED
      BY <1>1, <1>4, <1>5, <3>1, <3>2
  <2>2. ASSUME NEW g \in Flow
        PROVE  /\ g \in active' <=> holder'[session'[g]] = g
               /\ at'[g] = "held" \/ callback'[g] = "pending" => g \in active'
               /\ at'[g] = "free" => callback'[g] = "none"
    <3>1. session'[g] \in Session /\ session[g] \in Session /\ g # None
      BY <1>1, <1>4 DEF TypeOK, FlowParams
    <3>2. callback'[g] = "none" /\ (at'[g] = "held" => at[g] = "held")
      BY <1>1, <1>2
    <3>3. ASSUME g \in active'
          PROVE  holder'[session'[g]] = g
      <4>1. holder[session[g]] = g /\ at[g] # "free"
        BY <1>1, <3>1, <3>3 DEF IInv, PendingIsActive
      <4>2. at'[g] # "free"
        BY <1>2, <4>1
      <4>3. QED
        BY <1>1, <1>4, <1>5, <4>1, <4>2
    <3>4. ASSUME holder'[session'[g]] = g
          PROVE  g \in active'
      <4>1. session[g] = session'[g] /\ holder[session'[g]] = g
        BY <1>1, <3>1, <3>4 DEF IInv, PendingIsActive
      <4>2. QED
        BY <1>1, <4>1 DEF IInv, PendingIsActive
    <3>5. QED
      BY <1>1, <3>2, <3>3, <3>4 DEF IInv, PendingIsActive
  <2>3. QED
    BY <2>1, <2>2 DEF PendingIsActive
<1>10. LiveFlowsAreServed'
  <2>1. ASSUME NEW g \in Flow, Holds(g)', at'[g] \in {"asking", "held", "waiting"}, kind'[g] # "silent"
        PROVE  FALSE
    <3>1. Holds(g) /\ kind[g] # "silent" /\ at[g] \in {"asking", "held", "waiting"}
      BY <1>2, <1>4, <1>7, <2>1
    <3>2. QED
      BY <1>1, <3>1 DEF IInv, LiveFlowsAreServed
  <2>2. QED
    BY <2>1 DEF LiveFlowsAreServed
<1>11. BindingIsAlive'
  <2>1. ASSUME NEW g \in Flow
        PROVE  at'[g] # "binding" /\ binding' # g
    <3>1. at[g] # "binding" /\ binding # g
      BY <1>1 DEF IInv, BindingIsAlive, FlowParams
    <3>2. QED
      BY <1>1, <1>2, <3>1
  <2>2. QED
    BY <2>1 DEF BindingIsAlive
<1>12. AuthorityIsLive'
  <2>1. \A g \in holds' \ aborted' : session'[g] \in alive'
    <3>1. TAKE g \in holds' \ aborted'
    <3>2. g \in holds \ aborted /\ session'[g] = session[g]
      BY <1>4
    <3>3. QED
      BY <1>1, <3>2 DEF IInv, AuthorityIsLive
  <2>2. LoggingOut' => LoggingOut
    BY <1>3 DEF LoggingOut
  <2>3. QED
    BY <1>1, <1>3, <1>4, <2>1, <2>2 DEF IInv, AuthorityIsLive
<1>13. QED
  BY <1>6, <1>9, <1>10, <1>11, <1>12 DEF IInv

\* Another command waits for a pending flow, or the browser calls back.
LEMMA CallbackKeeps ==
  ASSUME FlowParams, IInv, NEW f \in Flow, Join(f) \/ Answered(f)
  PROVE  IInv'
<1>1. /\ TypeOK /\ at[f] \in {"held", "waiting"} /\ f \in active
      /\ UNCHANGED <<session, kind, holds, aborted, active, fenced, pasted, holder, alive, httpVars,
                     logout, credentials>>
  BY DEF IInv, Join, Answered, PendingIsActive
<1>2. /\ at' \in [Flow -> Places] /\ callback' \in [Flow -> {"none", "reserved", "pending"}]
      /\ (at'[f] = "completing" \/ (at'[f] = "waiting" /\ callback'[f] = "pending"))
      /\ \A g \in Flow \ {f} : at'[g] = at[g] /\ callback'[g] = callback[g]
  <2>1. CASE Join(f)
    BY <1>1, <2>1 DEF Join, TypeOK, Places
  <2>2. CASE Answered(f)
    BY <1>1, <2>2 DEF Answered, TypeOK, Places, Drop
  <2>3. QED
    BY <2>1, <2>2
<1>3. TypeOK'
  BY <1>1, <1>2 DEF TypeOK, Places, httpVars
<1>4. PendingIsActive'
  BY <1>1, <1>2 DEF IInv, PendingIsActive, TypeOK
<1>5. LiveFlowsAreServed'
  <2>1. ASSUME NEW g \in Flow, Holds(g)', at'[g] \in {"asking", "held", "waiting"}, kind'[g] # "silent"
        PROVE  server' = "up" /\ stopping' = "no" /\ callback'[g] # "none"
    <3>1. Holds(g) /\ kind[g] # "silent" /\ at[g] \in {"asking", "held", "waiting"}
      BY <1>1, <1>2, <2>1 DEF Holds
    <3>2. server = "up" /\ stopping = "no" /\ callback[g] # "none"
      BY <3>1 DEF IInv, LiveFlowsAreServed
    <3>3. QED
      BY <1>1, <1>2, <2>1, <3>2 DEF httpVars
  <2>2. QED
    BY <2>1 DEF LiveFlowsAreServed
<1>6. BindingIsAlive'
  <2>1. ASSUME NEW g \in Flow
        PROVE  /\ at'[g] = "binding" <=> binding' = g
               /\ at'[g] = "binding" /\ Holds(g)' => stopping' = "no"
    <3>1. (at[g] = "binding" <=> binding = g) /\ (at[g] = "binding" /\ Holds(g) => stopping = "no")
      BY DEF IInv, BindingIsAlive
    <3>2. at'[g] = "binding" <=> at[g] = "binding"
      BY <1>1, <1>2
    <3>3. QED
      BY <1>1, <3>1, <3>2 DEF Holds, httpVars
  <2>2. QED
    BY <2>1 DEF BindingIsAlive
<1>7. AuthorityIsLive'
  <2>1. \A g \in Live : g \in Live'
    BY <1>1, <1>2 DEF Live
  <2>2. QED
    BY <1>1, <2>1 DEF IInv, AuthorityIsLive, LoggingOut
<1>8. QED
  BY <1>3, <1>4, <1>5, <1>6, <1>7 DEF IInv

\* A code is pasted, credentials are removed, a session begins.
LEMMA RestKeeps ==
  ASSUME FlowParams, IInv, (\E f \in Flow : Paste(f)) \/ LogoutEnds \/ (\E s \in Session : NewSession(s))
  PROVE  IInv'
<1>1. CASE \E f \in Flow : Paste(f)
  <2>1. PICK f \in Flow : Paste(f)
    BY <1>1
  <2>2. /\ pasted' = f /\ pasted = None
        /\ UNCHANGED <<at, session, kind, holds, aborted, active, fenced, callback, holder, alive,
                       httpVars, logout, credentials>>
    BY <2>1 DEF Paste
  <2>3. \A g \in Live : g \in Live'
    BY <2>2 DEF Live, FlowParams
  <2>4. TypeOK'
    BY <2>2 DEF IInv, TypeOK, httpVars
  <2>5. PendingIsActive' /\ BindingIsAlive' /\ LiveFlowsAreServed'
    BY <2>2 DEF IInv, PendingIsActive, BindingIsAlive, LiveFlowsAreServed, Holds, httpVars
  <2>6. AuthorityIsLive'
    BY <2>2, <2>3 DEF IInv, AuthorityIsLive, LoggingOut
  <2>7. QED
    BY <2>4, <2>5, <2>6 DEF IInv
<1>2. CASE LogoutEnds
  <2>1. /\ logout.clearing > 0 /\ logout' = [logout EXCEPT !.clearing = @ - 1]
        /\ credentials' \in {"removed", credentials}
        /\ UNCHANGED <<flowVars, holder, alive, httpVars>>
    BY <1>2 DEF LogoutEnds
  <2>2. /\ logout' \in [stopping : 0..MaxLogouts, clearing : 0..MaxLogouts]
        /\ logout'.stopping + logout'.clearing <= MaxLogouts /\ LoggingOut
    BY <2>1 DEF IInv, TypeOK, AuthorityIsLive, LoggingOut, FlowParams
  <2>3. TypeOK'
    BY <2>1, <2>2 DEF IInv, TypeOK, flowVars, httpVars
  <2>4. PendingIsActive' /\ BindingIsAlive' /\ LiveFlowsAreServed'
    BY <2>1 DEF IInv, PendingIsActive, BindingIsAlive, LiveFlowsAreServed, Holds, flowVars, httpVars
  <2>5. AuthorityIsLive'
    BY <2>1, <2>2 DEF IInv, AuthorityIsLive, Live, flowVars
  <2>6. QED
    BY <2>3, <2>4, <2>5 DEF IInv
<1>3. CASE \E s \in Session : NewSession(s)
  <2>1. /\ alive \subseteq alive' /\ alive' \subseteq Session
        /\ UNCHANGED <<flowVars, holder, httpVars, logout, credentials>>
    BY <1>3 DEF NewSession, IInv, TypeOK
  <2>2. TypeOK'
    BY <2>1 DEF IInv, TypeOK, flowVars, httpVars
  <2>3. PendingIsActive' /\ BindingIsAlive' /\ LiveFlowsAreServed'
    BY <2>1 DEF IInv, PendingIsActive, BindingIsAlive, LiveFlowsAreServed, Holds, flowVars, httpVars
  <2>4. AuthorityIsLive'
    BY <2>1 DEF IInv, AuthorityIsLive, Live, LoggingOut, flowVars
  <2>5. QED
    BY <2>2, <2>3, <2>4 DEF IInv
<1>4. QED
  BY <1>1, <1>2, <1>3

-----------------------------------------------------------------------------
(* The theorems *)

\* The invariant holds before anybody signs in.
LEMMA FlowsBegin ==
  ASSUME FlowParams, Init
  PROVE  IInv
<1>1. /\ at = [f \in Flow |-> "free"] /\ kind = [f \in Flow |-> "start"]
      /\ session = [f \in Flow |-> AnySession]
      /\ holds = {} /\ aborted = {} /\ active = {} /\ fenced = {} /\ pasted = None
      /\ callback = [f \in Flow |-> "none"]
      /\ holder = [s \in Session |-> None] /\ alive = Session
      /\ server = "down" /\ binding = None /\ stopping = "no"
      /\ logout = [stopping |-> 0, clearing |-> 0] /\ credentials = "any"
  BY DEF Init, Starts
<1>2. AnySession \in Session
  BY DEF AnySession, FlowParams
<1>3. TypeOK
  BY <1>1, <1>2 DEF TypeOK, Kinds, FlowParams
<1>4. PendingIsActive
  BY <1>1, <1>2 DEF PendingIsActive, FlowParams
<1>5. LiveFlowsAreServed /\ BindingIsAlive
  BY <1>1 DEF LiveFlowsAreServed, BindingIsAlive, FlowParams
<1>6. AuthorityIsLive
  BY <1>1 DEF AuthorityIsLive, LoggingOut, FlowParams
<1>7. QED
  BY <1>3, <1>4, <1>5, <1>6 DEF IInv

\* So every step keeps the invariant of the sign-ins.
LEMMA FlowsKeep ==
  ASSUME FlowParams, IInv, [Next]_vars
  PROVE  IInv'
<1>1. CASE \E f \in Flow : \E s \in Session, k \in Kinds : Start(f, s, k)
  BY <1>1, StartKeeps
<1>2. CASE \E f \in Flow : Resume(f)
  BY <1>2, ResumeKeeps
<1>3. CASE \E f \in Flow : Bound(f)
  BY <1>3, BoundKeeps
<1>4. CASE \E f \in Flow : Authorized(f) \/ OperationEnds(f)
  BY <1>4, OperationKeeps
<1>5. CASE \E f \in Flow : Redirected(f)
  BY <1>5, RedirectKeeps
<1>6. CASE \E f \in Flow : TimedOut(f) \/ PasteEnds(f)
  BY <1>6, PendingEnds
<1>7. CASE \E f \in Flow : Join(f) \/ Answered(f)
  BY <1>7, CallbackKeeps
<1>8. CASE \E s \in Session : Shutdown(s)
  BY <1>8, ShutdownKeeps
<1>9. CASE LogoutBegins
  BY <1>9, LogoutKeeps
<1>10. CASE StopDone
  BY <1>10, StopKeepsFlows
<1>11. CASE (\E f \in Flow : Paste(f)) \/ LogoutEnds \/ (\E s \in Session : NewSession(s))
  BY <1>11, RestKeeps
<1>12. CASE UNCHANGED vars
  <2>1. UNCHANGED <<flowVars, holder, alive, httpVars, logout, credentials>>
    BY <1>12 DEF vars
  <2>2. TypeOK'
    BY <2>1 DEF IInv, TypeOK, flowVars, httpVars
  <2>3. PendingIsActive' /\ BindingIsAlive' /\ LiveFlowsAreServed'
    BY <2>1 DEF IInv, PendingIsActive, BindingIsAlive, LiveFlowsAreServed, Holds, flowVars, httpVars
  <2>4. AuthorityIsLive'
    BY <2>1 DEF IInv, AuthorityIsLive, Live, LoggingOut, flowVars
  <2>5. QED
    BY <2>2, <2>3, <2>4 DEF IInv
<1>13. QED
  BY <1>1, <1>2, <1>3, <1>4, <1>5, <1>6, <1>7, <1>8, <1>9, <1>10, <1>11, <1>12 DEF Next, FlowStep

\* The inductive invariant holds of every behaviour: any sign-ins, logouts and sessions that share
\* the callback server (mcp-auth-flow.ts, mcp-callback-server.ts).
THEOREM FlowInvariance ==
  ASSUME FlowParams
  PROVE  Spec => []IInv
<1>1. Init => IInv
  BY FlowsBegin
<1>2. IInv /\ [Next]_vars => IInv'
  BY FlowsKeep
<1>3. QED
  BY <1>1, <1>2, PTL DEF Spec

\* A live flow's callback reaches it, only a session's pending flow waits for one or exchanges a
\* code, and work begun before a logout does not undo it.
THEOREM SignInsSafe ==
  ASSUME FlowParams
  PROVE  Spec => []SignInsHold
<1>1. IInv => SignInsHold
  <2>1. IInv => WaitersArePending
    BY DEF IInv, WaitersArePending, PendingIsActive
  <2>2. QED
    BY <2>1 DEF IInv, SignInsHold, SignedOutStaysOut, OnlyPendingFlowSaves, AuthorityIsLive
<1>2. QED
  BY <1>1, FlowInvariance, PTL

-----------------------------------------------------------------------------
(***************************************************************************)
(* Theorems about CredentialStore, for any urls and any number of token    *)
(* responses: its inductive invariant StoreInv holds of every behaviour,       *)
(* wherever the store fails or the process dies, and with it RecordsHold.  *)
(***************************************************************************)

\* What is absent is no url, token or entry; there is a url, and token responses are counted.
StoreParams ==
  /\ Null \notin Url /\ Null \notin Tok /\ Null \notin Entry
  /\ Url # {} /\ MaxRotation \in Nat

-----------------------------------------------------------------------------
(* The operators *)

\* What a slot of the store holds.
LEMMA SlotMembers ==
  ASSUME NEW e, NEW c
  PROVE  c \in Slots(e) <=> c = <<e, 1>> \/ c = <<e, 2>>
BY DEF Slots

\* The chunks of two entries are apart.
LEMMA SlotsApart ==
  ASSUME NEW r, NEW q, r.split \in BOOLEAN, q.split \in BOOLEAN, SlotsOf(r) # SlotsOf(q)
  PROVE  SlotsOf(r) \cap SlotsOf(q) = {}
<1>1. CASE r.split /\ q.split
  <2>1. r.entry # q.entry
    BY <1>1 DEF SlotsOf
  <2>2. \A c : ~(c \in Slots(r.entry) /\ c \in Slots(q.entry))
    BY <2>1, SlotMembers
  <2>3. QED
    BY <1>1, <2>2 DEF SlotsOf
<1>2. CASE ~(r.split /\ q.split)
  BY <1>2 DEF SlotsOf
<1>3. QED
  BY <1>1, <1>2

\* A record is typed, and is split only where it names an entry.
LEMMA RecordTyped ==
  ASSUME StoreParams, NEW e \in Entry
  PROVE  Record(e) \in [entry : Entry, split : BOOLEAN] /\ Record(e).entry = e /\ Record(e).split = Splits(e)
BY DEF Record, Splits

\* A slot that is written is typed.
LEMMA SlotsTyped ==
  ASSUME NEW r, r.split => r.entry \in Entry
  PROVE  SlotsOf(r) \subseteq Entry \X {1, 2}
BY DEF SlotsOf, Slots

\* What is stored is an entry of one url.
LEMMA StoredIsOfOneUrl ==
  ASSUME StoreInv
  PROVE  Stored \in Entry \cup {Null} /\ (Stored # Null => OfOneUrl(Stored))
BY DEF StoreInv, StoreTypeOK, SourcesAreOfOneUrl, Stored

-----------------------------------------------------------------------------
(* Writing *)

\* A write begins: the record and its chunks are as they were.
LEMMA BeginKeeps ==
  ASSUME StoreParams, StoreInv, op = Idle, NEW e \in Entry, OfOneUrl(e), NEW why \in {"save", "import"},
         WriteBegins(e, why), UNCHANGED <<backend, main, chunks, legacy, cache, faulted, damaged, foreign>>,
         rotation' \in 0..MaxRotation, forgotten' = FALSE
  PROVE  StoreInv'
<1>1. op' = [at |-> IF Splits(e) THEN "chunk" ELSE "main", new |-> e, old |-> main, i |-> 1, why |-> why]
  BY DEF WriteBegins
<1>2. /\ op'.at = (IF Splits(e) THEN "chunk" ELSE "main") /\ op'.new = e /\ op'.old = main /\ op'.i = 1
      /\ e # Null /\ op.at = "idle"
  BY <1>1 DEF Idle, StoreParams
<1>3. StoreTypeOK'
  <2>1. op' \in [at : {"idle", "chunk", "main", "stale", "undo", "legacy", "remove-chunks",
                  "remove-main", "remove-legacy"},
            new : Entry \cup {Null}, old : [entry : Entry \cup {Null}, split : BOOLEAN],
            i : 0..3, why : {"save", "import", "remove"}]
    BY <1>1 DEF StoreInv, StoreTypeOK
  <2>2. QED
    BY <2>1 DEF StoreInv, StoreTypeOK
<1>4. RecordIsReadable' /\ LogoutForgets'
  BY DEF StoreInv, RecordIsReadable, Readable, SlotsOf, LogoutForgets
<1>6. OperationIsStaged'
  <2>1. Splits(op.new)' = Splits(e)
    BY <1>2 DEF Splits
  <2>2. op'.at = "main" => SlotsOf(Record(op.new))' = {}
    BY <1>2, <2>1 DEF SlotsOf, Record
  <2>3. op'.at = "chunk" => Splits(op.new)' /\ op'.i = 1
    BY <1>2, <2>1
  <2>4. op'.at \in {"chunk", "main"} /\ op'.old = main' /\ op'.new # Null /\ ~forgotten'
    BY <1>2
  <2>5. main'.split => main'.entry # Null
    BY DEF StoreInv, OperationIsStaged
  <2>6. QED
    BY <2>2, <2>3, <2>4, <2>5 DEF OperationIsStaged
<1>7. ChunksAreInUse'
  <2>1. ~faulted => chunks \subseteq SlotsOf(main) /\ ~damaged
    BY <1>2 DEF StoreInv, ChunksAreInUse
  <2>2. SlotsOf(main)' = SlotsOf(main)
    BY DEF SlotsOf
  <2>3. QED
    BY <1>2, <2>1, <2>2 DEF ChunksAreInUse
<1>8. CacheFollows'
  BY <1>2 DEF StoreInv, CacheFollows, Stored
<1>9. SourcesAreOfOneUrl'
  BY <1>2 DEF StoreInv, SourcesAreOfOneUrl, OfOneUrl
<1>10. QED
  BY <1>3, <1>4, <1>6, <1>7, <1>8, <1>9 DEF StoreInv

\* readAuthEntry()
LEMMA ReadKeeps ==
  ASSUME StoreParams, StoreInv, Read
  PROVE  StoreInv'
<1>1. /\ op = Idle /\ op.at = "idle" /\ ~cache.on /\ Readable
      /\ UNCHANGED <<backend, main, chunks, rotation, faulted, damaged, foreign, forgotten>>
  BY DEF Read, Idle
<1>2. CASE Imports \/ Compacts
  <2>1. Stored # Null
    BY <1>2 DEF StoreInv, OperationIsStaged, Imports, Compacts, Stored
  <2>2. Stored \in Entry /\ OfOneUrl(Stored)
    BY <2>1, StoredIsOfOneUrl
  <2>3. forgotten' = FALSE
    BY <1>1, <2>1 DEF StoreInv, LogoutForgets, StoreTypeOK
  <2>4. rotation' \in 0..MaxRotation
    BY <1>1 DEF StoreInv, StoreTypeOK
  <2>5. QED
    BY <1>1, <1>2, <2>2, <2>3, <2>4, BeginKeeps DEF Read
<1>3. CASE ~(Imports \/ Compacts)
  <2>1. /\ cache' = Known(Stored) /\ op' = op
        /\ legacy' = IF main.entry # Null /\ backend # "file" THEN Null ELSE legacy
    BY <1>3 DEF Read
  <2>2. cache'.on = TRUE /\ cache'.entry = Stored
    BY <2>1 DEF Known
  <2>3. Stored' = Stored /\ SlotsOf(main)' = SlotsOf(main)
    BY <1>1, <2>1 DEF Stored, SlotsOf
  <2>4. StoreTypeOK'
    BY <1>1, <2>1, StoredIsOfOneUrl DEF StoreInv, StoreTypeOK, Known
  <2>5. RecordIsReadable' /\ LogoutForgets'
    BY <1>1, <2>3 DEF StoreInv, RecordIsReadable, Readable, LogoutForgets
  <2>6. OperationIsStaged'
    BY <1>1, <2>1 DEF StoreInv, OperationIsStaged
  <2>7. ChunksAreInUse'
    BY <1>1, <2>1, <2>3 DEF StoreInv, ChunksAreInUse
  <2>8. CacheFollows'
    BY <2>2, <2>3 DEF CacheFollows
  <2>9. SourcesAreOfOneUrl'
    BY <1>1, <2>1, <2>2, StoredIsOfOneUrl DEF StoreInv, SourcesAreOfOneUrl, OfOneUrl
  <2>10. QED
    BY <2>4, <2>5, <2>6, <2>7, <2>8, <2>9 DEF StoreInv
<1>4. QED
  BY <1>2, <1>3

\* What was obtained for another url is dropped from an entry that is saved.
LEMMA SaveKeeps ==
  ASSUME StoreParams, StoreInv,
         (\E u \in Url : UpdateTokens(u) \/ UpdateClientInfo(u)) \/ Clear
  PROVE  StoreInv'
<1>1. StoreTypeOK
  BY DEF StoreInv
<1>2. cache.entry # Null => cache.entry \in Entry /\ OfOneUrl(cache.entry)
  BY <1>1 DEF StoreInv, StoreTypeOK, SourcesAreOfOneUrl
<1>3. cache.entry = Null => Base = [url |-> Null, tok |-> Null, client |-> Null]
  BY DEF Base
<1>4. cache.entry # Null => Base = cache.entry
  BY DEF Base
<1>5. ASSUME NEW e \in Entry, OfOneUrl(e), Save(e), rotation' \in 0..MaxRotation
      PROVE  StoreInv'
  BY <1>5, BeginKeeps DEF Save
<1>6. ASSUME NEW u \in Url, UpdateTokens(u)
      PROVE  StoreInv'
  <2> DEFINE t == <<u, rotation + 1>>
  <2>1. rotation + 1 \in 0..MaxRotation /\ rotation' = rotation + 1 /\ Save(WithTokens(u, t))
    BY <1>1, <1>6 DEF UpdateTokens, StoreTypeOK, StoreParams
  <2>2. t \in Tok /\ t[1] = u
    BY <2>1 DEF Tok
  <2>3. Base.url = u => Base.client \in {u, Null}
    BY <1>2, <1>3, <1>4 DEF OfOneUrl, StoreParams
  <2> HIDE DEF t
  <2>4. WithTokens(u, t) \in Entry /\ OfOneUrl(WithTokens(u, t))
    BY <2>2, <2>3 DEF WithTokens, Entry, OfOneUrl
  <2>5. QED
    BY <1>5, <2>1, <2>4
<1>7. ASSUME NEW u \in Url, UpdateClientInfo(u)
      PROVE  StoreInv'
  <2>1. Base.url = u => Base.tok \in Tok \cup {Null} /\ (Base.tok # Null => Base.tok[1] = u)
    BY <1>2, <1>3, <1>4 DEF OfOneUrl, StoreParams, Entry
  <2>2. WithClient(u) \in Entry /\ OfOneUrl(WithClient(u))
    BY <2>1 DEF WithClient, Entry, OfOneUrl
  <2>3. QED
    BY <1>1, <1>5, <1>7, <2>2 DEF UpdateClientInfo, StoreTypeOK
<1>8. ASSUME Clear
      PROVE  StoreInv'
  <2>1. Base \in Entry /\ OfOneUrl(Base)
    BY <1>2, <1>3, <1>4, <1>8 DEF Clear
  <2>2. [Base EXCEPT !.client = Null] \in Entry /\ OfOneUrl([Base EXCEPT !.client = Null])
    BY <2>1 DEF Entry, OfOneUrl
  <2>3. QED
    BY <1>1, <1>5, <1>8, <2>1, <2>2 DEF Clear, StoreTypeOK
<1>9. QED
  BY <1>6, <1>7, <1>8

\* A chunk is written: not yet counted by the main slot.
LEMMA WriteChunkKeeps ==
  ASSUME StoreParams, StoreInv, WriteChunk
  PROVE  StoreInv'
<1>1. /\ op.at = "chunk" /\ chunks' = chunks \cup {<<op.new, op.i>>}
      /\ op' = [op EXCEPT !.at = IF op.i = 2 THEN "main" ELSE "chunk", !.i = op.i + 1]
      /\ UNCHANGED <<backend, main, legacy, cache, rotation, faulted, damaged, foreign, forgotten>>
  BY DEF WriteChunk
<1>2. /\ Splits(op.new) /\ op.i \in {1, 2} /\ (op.i = 2 => <<op.new, 1>> \in chunks)
      /\ op.new \in Entry /\ ~forgotten /\ op.old = main /\ (main.split => main.entry # Null)
  BY <1>1 DEF StoreInv, OperationIsStaged, StoreTypeOK
<1>3. /\ op'.at = (IF op.i = 2 THEN "main" ELSE "chunk") /\ op'.new = op.new /\ op'.i = op.i + 1
      /\ op'.old = op.old /\ op'.why = op.why
  BY <1>1 DEF StoreInv, StoreTypeOK
<1>4. /\ Splits(op.new)' = Splits(op.new) /\ SlotsOf(Record(op.new))' = SlotsOf(Record(op.new))
      /\ SlotsOf(main)' = SlotsOf(main) /\ Stored' = Stored
      /\ SlotsOf(Record(op.new)) = Slots(op.new)
  <2>1. Splits(op.new)' = Splits(op.new)
    BY <1>1, <1>3 DEF Splits
  <2>2. Record(op.new)' = Record(op.new)
    BY <1>3, <2>1 DEF Record
  <2>3. SlotsOf(Record(op.new))' = SlotsOf(Record(op.new))
    BY <2>2 DEF SlotsOf
  <2>4. SlotsOf(main)' = SlotsOf(main) /\ Stored' = Stored
    BY <1>1 DEF SlotsOf, Stored
  <2>5. SlotsOf(Record(op.new)) = Slots(op.new)
    BY <1>2 DEF SlotsOf, Record
  <2>6. QED
    BY <2>1, <2>3, <2>4, <2>5
<1>5. StoreTypeOK'
  <2>1. chunks' \subseteq Entry \X {1, 2}
    BY <1>1, <1>2 DEF StoreInv, StoreTypeOK
  <2>2. op' \in [at : {"idle", "chunk", "main", "stale", "undo", "legacy", "remove-chunks",
                  "remove-main", "remove-legacy"},
            new : Entry \cup {Null}, old : [entry : Entry \cup {Null}, split : BOOLEAN],
            i : 0..3, why : {"save", "import", "remove"}]
    <3>1. op'.at \in {"chunk", "main"} /\ op'.i \in 0..3 /\ op'.new \in Entry \cup {Null}
      BY <1>2, <1>3
    <3>2. op'.old \in [entry : Entry \cup {Null}, split : BOOLEAN] /\ op'.why \in {"save", "import", "remove"}
      BY <1>3 DEF StoreInv, StoreTypeOK
    <3>3. op' = [at |-> op'.at, new |-> op'.new, old |-> op'.old, i |-> op'.i, why |-> op'.why]
      BY <1>1 DEF StoreInv, StoreTypeOK
    <3>4. QED
      BY <3>1, <3>2, <3>3
  <2>3. QED
    BY <1>1, <2>1, <2>2 DEF StoreInv, StoreTypeOK
<1>6. RecordIsReadable' /\ LogoutForgets'
  BY <1>1, <1>4 DEF StoreInv, RecordIsReadable, Readable, LogoutForgets
<1>7. OperationIsStaged'
  <2>1. op'.at = "chunk" => Splits(op.new)' /\ op'.i = 2 /\ <<op'.new, 1>> \in chunks'
    <3>1. CASE op.i = 1
      <4>1. op'.i = 2 /\ op'.new = op.new
        BY <1>3, <3>1
      <4>2. <<op.new, 1>> \in chunks'
        BY <1>1, <3>1
      <4>3. QED
        BY <1>2, <1>4, <4>1, <4>2
    <3>2. CASE op.i = 2
      BY <1>3, <3>2
    <3>3. QED
      BY <1>2, <3>1, <3>2
  <2>2. op'.at = "main" => SlotsOf(Record(op.new))' \subseteq chunks'
    BY <1>1, <1>2, <1>3, <1>4, SlotMembers
  <2>3. /\ op'.at \in {"chunk", "main"} /\ op'.new # Null /\ ~forgotten' /\ op'.old = main'
        /\ (main'.split => main'.entry # Null)
    BY <1>1, <1>2, <1>3 DEF StoreParams
  <2>4. QED
    BY <2>1, <2>2, <2>3 DEF OperationIsStaged
<1>8. ChunksAreInUse'
  <2>1. <<op.new, op.i>> \in SlotsOf(Record(op.new))
    BY <1>2, <1>4, SlotMembers
  <2>2. op'.at \in {"chunk", "main"}
    BY <1>3
  <2>3. ~faulted => chunks \subseteq SlotsOf(main) \cup SlotsOf(Record(op.new)) /\ ~damaged
    BY <1>1 DEF StoreInv, ChunksAreInUse
  <2>4. QED
    BY <1>1, <1>4, <2>1, <2>2, <2>3 DEF ChunksAreInUse
<1>9. CacheFollows'
  BY <1>1, <1>3, <1>4 DEF StoreInv, CacheFollows
<1>10. SourcesAreOfOneUrl'
  BY <1>1, <1>3 DEF StoreInv, SourcesAreOfOneUrl, OfOneUrl
<1>11. QED
  BY <1>5, <1>6, <1>7, <1>8, <1>9, <1>10 DEF StoreInv

\* The main slot is written, once all chunks are.
LEMMA WriteMainKeeps ==
  ASSUME StoreParams, StoreInv, WriteMain
  PROVE  StoreInv'
<1>1. /\ op.at = "main" /\ main' = Record(op.new)
      /\ op' = [op EXCEPT !.at = IF op.old.split /\ SlotsOf(op.old) # SlotsOf(Record(op.new))
                                 THEN "stale" ELSE "legacy"]
      /\ damaged' = FALSE
      /\ UNCHANGED <<backend, chunks, legacy, cache, rotation, faulted, foreign, forgotten>>
  BY DEF WriteMain
<1>2. /\ SlotsOf(Record(op.new)) \subseteq chunks
      /\ op.new \in Entry /\ op.new # Null /\ ~forgotten /\ op.old = main
      /\ (main.split => main.entry # Null)
  BY <1>1 DEF StoreInv, OperationIsStaged, StoreTypeOK
<1>3. /\ op'.at = (IF op.old.split /\ SlotsOf(op.old) # SlotsOf(Record(op.new))
                   THEN "stale" ELSE "legacy")
      /\ op'.new = op.new /\ op'.i = op.i /\ op'.old = op.old /\ op'.why = op.why
  BY <1>1 DEF StoreInv, StoreTypeOK
<1>4. Record(op.new) \in [entry : Entry, split : BOOLEAN] /\ Record(op.new).entry = op.new
  BY <1>2, RecordTyped
<1>5. /\ Record(op.new)' = Record(op.new) /\ SlotsOf(main)' = SlotsOf(Record(op.new))
      /\ SlotsOf(op.old)' = SlotsOf(op.old)
  BY <1>1, <1>3 DEF Record, Splits, SlotsOf
<1>6. StoreTypeOK'
  <2>1. main' \in [entry : Entry \cup {Null}, split : BOOLEAN]
    BY <1>1, <1>4
  <2>2. op' \in [at : {"idle", "chunk", "main", "stale", "undo", "legacy", "remove-chunks",
                  "remove-main", "remove-legacy"},
            new : Entry \cup {Null}, old : [entry : Entry \cup {Null}, split : BOOLEAN],
            i : 0..3, why : {"save", "import", "remove"}]
    BY <1>1 DEF StoreInv, StoreTypeOK
  <2>3. QED
    BY <1>1, <2>1, <2>2 DEF StoreInv, StoreTypeOK
<1>7. RecordIsReadable'
  BY <1>1, <1>2, <1>5 DEF RecordIsReadable, Readable
<1>8. LogoutForgets'
  BY <1>1, <1>2 DEF LogoutForgets
<1>9. OperationIsStaged'
  <2>1. op'.at \in {"stale", "legacy"} /\ op'.new # Null /\ ~forgotten' /\ main' = Record(op.new)'
    BY <1>1, <1>2, <1>3, <1>5
  <2>2. main'.split => main'.entry # Null
    BY <1>1, <1>2, <1>4
  <2>3. op'.at = "stale" => op'.old.split /\ SlotsOf(op.old)' # SlotsOf(main)'
    BY <1>3, <1>5
  <2>4. QED
    BY <2>1, <2>2, <2>3 DEF OperationIsStaged
<1>10. ChunksAreInUse'
  <2>1. ~faulted => chunks \subseteq SlotsOf(main) \cup SlotsOf(Record(op.new))
    BY <1>1 DEF StoreInv, ChunksAreInUse
  <2>2. op'.at = "stale" => (~faulted' => chunks' \subseteq SlotsOf(main)' \cup SlotsOf(op.old)')
    BY <1>1, <1>2, <1>5, <2>1
  <2>3. op'.at = "legacy" => (~faulted' => chunks' \subseteq SlotsOf(main)')
    <3>1. CASE op.old.split
      BY <1>1, <1>2, <1>3, <1>5, <2>1, <3>1
    <3>2. CASE ~op.old.split
      BY <1>1, <1>2, <1>3, <1>5, <2>1, <3>2 DEF SlotsOf
    <3>3. QED
      BY <3>1, <3>2
  <2>4. QED
    BY <1>1, <1>3, <2>2, <2>3 DEF ChunksAreInUse
<1>11. CacheFollows'
  BY <1>3 DEF CacheFollows
<1>12. SourcesAreOfOneUrl'
  BY <1>1, <1>2, <1>3, <1>4 DEF StoreInv, SourcesAreOfOneUrl, OfOneUrl
<1>13. QED
  BY <1>6, <1>7, <1>8, <1>9, <1>10, <1>11, <1>12 DEF StoreInv
-----------------------------------------------------------------------------
(* Removal of chunks, and the end of a write *)

\* An operation moves on: only its stage changes.
LEMMA Advance ==
  ASSUME StoreTypeOK,
         NEW a \in {"idle", "chunk", "main", "stale", "undo", "legacy", "remove-chunks",
                    "remove-main", "remove-legacy"},
         op' = [op EXCEPT !.at = a]
  PROVE  /\ op'.at = a /\ op'.new = op.new /\ op'.old = op.old /\ op'.i = op.i
         /\ op' \in [at : {"idle", "chunk", "main", "stale", "undo", "legacy", "remove-chunks",
                           "remove-main", "remove-legacy"},
                     new : Entry \cup {Null}, old : [entry : Entry \cup {Null}, split : BOOLEAN],
                     i : 0..3, why : {"save", "import", "remove"}]
BY DEF StoreTypeOK

\* A process that does nothing is typed.
LEMMA IdleTyped ==
  /\ Idle \in [at : {"idle", "chunk", "main", "stale", "undo", "legacy", "remove-chunks",
                     "remove-main", "remove-legacy"},
               new : Entry \cup {Null}, old : [entry : Entry \cup {Null}, split : BOOLEAN],
               i : 0..3, why : {"save", "import", "remove"}]
  /\ Idle.at = "idle" /\ Idle.new = Null /\ Idle.old = NoRecord
BY DEF Idle, NoRecord

\* An operation ends, or is given up, and the store is as it was.
LEMMA StopKeepsRecord ==
  ASSUME StoreParams, StoreInv, op' = Idle, faulted' = TRUE, op.at \notin {"stale", "legacy"},
         UNCHANGED <<backend, main, chunks, legacy, cache, rotation, damaged, foreign, forgotten>>
  PROVE  StoreInv'
<1>1. op'.at = "idle" /\ op'.new = Null
  BY IdleTyped
<1>2. SlotsOf(main)' = SlotsOf(main) /\ Stored' = Stored
  BY DEF SlotsOf, Stored
<1>3. StoreTypeOK'
  BY IdleTyped DEF StoreInv, StoreTypeOK
<1>4. RecordIsReadable' /\ LogoutForgets'
  BY <1>2 DEF StoreInv, RecordIsReadable, Readable, LogoutForgets
<1>5. Idle' = Idle
  BY DEF Idle, NoRecord
<1>6. OperationIsStaged'
  BY <1>1, <1>5 DEF StoreInv, OperationIsStaged
<1>7. ChunksAreInUse'
  BY DEF ChunksAreInUse
<1>8. CacheFollows'
  BY <1>2 DEF StoreInv, CacheFollows
<1>9. SourcesAreOfOneUrl'
  BY <1>1 DEF StoreInv, SourcesAreOfOneUrl, OfOneUrl
<1>10. QED
  BY <1>3, <1>4, <1>6, <1>7, <1>8, <1>9 DEF StoreInv

\* Chunks past the new record are removed.
LEMMA RemoveStaleKeeps ==
  ASSUME StoreParams, StoreInv, RemoveStale
  PROVE  StoreInv'
<1> DEFINE r == IF op.at = "stale" THEN op.old ELSE Record(op.new)
           left == SlotsOf(r) \cap chunks
<1>1. op.at \in {"stale", "undo"} /\ UNCHANGED <<backend, main, legacy, cache, rotation, foreign, forgotten>>
  BY DEF RemoveStale
<1>2. /\ op.at = "stale" => main = Record(op.new) /\ op.old.split /\ SlotsOf(op.old) # SlotsOf(main)
      /\ op.at = "stale" => r = op.old
      /\ main.split \in BOOLEAN /\ op.old.split \in BOOLEAN
      /\ (main.split => main.entry # Null)
      /\ op.new # Null /\ ~forgotten
  BY <1>1 DEF StoreInv, OperationIsStaged, StoreTypeOK
<1>3. SlotsOf(main)' = SlotsOf(main) /\ Stored' = Stored
  BY <1>1 DEF SlotsOf, Stored
<1>4. /\ ~faulted => op.at = "stale" /\ ~damaged
      /\ ~faulted => chunks \subseteq SlotsOf(main) \cup SlotsOf(op.old)
  BY <1>1 DEF StoreInv, ChunksAreInUse
<1>5. ASSUME NEW c \in left, chunks' = chunks \ {c}, damaged' = (damaged \/ c \in SlotsOf(main)),
             UNCHANGED <<op, faulted>>
      PROVE  StoreInv'
  <2>1. c \in SlotsOf(r)
    OBVIOUS
  <2>2. ~faulted => c \notin SlotsOf(main)
    BY <1>2, <1>4, <2>1, SlotsApart
  <2>3. SlotsOf(op.old)' = SlotsOf(op.old) /\ Record(op.new)' = Record(op.new)
    BY <1>1, <1>5 DEF SlotsOf, Record, Splits
  <2>4. StoreTypeOK'
    <3>1. damaged' \in BOOLEAN
      BY <1>5
    <3>2. QED
      BY <1>1, <1>5, <3>1 DEF StoreInv, StoreTypeOK
  <2>5. RecordIsReadable'
    BY <1>3, <1>5 DEF StoreInv, RecordIsReadable, Readable
  <2>6. LogoutForgets'
    BY <1>1, <1>2 DEF LogoutForgets
  <2>7. OperationIsStaged'
    BY <1>1, <1>2, <1>3, <1>5, <2>3 DEF OperationIsStaged
  <2>8. ChunksAreInUse'
    BY <1>3, <1>4, <1>5, <2>2, <2>3 DEF ChunksAreInUse
  <2>9. CacheFollows'
    BY <1>1, <1>3, <1>5 DEF StoreInv, CacheFollows
  <2>10. SourcesAreOfOneUrl'
    BY <1>1, <1>5 DEF StoreInv, SourcesAreOfOneUrl, OfOneUrl
  <2>11. QED
    BY <2>4, <2>5, <2>6, <2>7, <2>8, <2>9, <2>10 DEF StoreInv
<1>6. ASSUME op' = IF op.at = "undo" THEN Idle
                   ELSE [op EXCEPT !.at = IF op.at = "stale" THEN "legacy" ELSE "idle"],
             UNCHANGED <<chunks, damaged>>, (left = {} /\ faulted' = faulted) \/ faulted' = TRUE
      PROVE  StoreInv'
  <2>1. CASE op.at = "undo"
    <3>1. op' = Idle
      BY <1>6, <2>1
    <3>2. faulted' = TRUE
      BY <1>4, <1>6, <2>1 DEF StoreInv, StoreTypeOK
    <3>3. QED
      BY <1>1, <1>6, <2>1, <3>1, <3>2, StopKeepsRecord
  <2>2. CASE op.at = "stale"
    <3>1. op' = [op EXCEPT !.at = "legacy"]
      BY <1>6, <2>2
    <3>2. StoreTypeOK
      BY DEF StoreInv
    <3>3. /\ op'.at = "legacy" /\ op'.new = op.new /\ op'.old = op.old /\ op'.i = op.i
          /\ op' \in [at : {"idle", "chunk", "main", "stale", "undo", "legacy", "remove-chunks",
                            "remove-main", "remove-legacy"},
                      new : Entry \cup {Null}, old : [entry : Entry \cup {Null}, split : BOOLEAN],
                      i : 0..3, why : {"save", "import", "remove"}]
      BY <3>1, <3>2, Advance
    <3>4. Record(op.new)' = Record(op.new)
      BY <1>1, <3>3 DEF Record, Splits
    <3>5. StoreTypeOK'
      <4>1. faulted' \in BOOLEAN
        BY <1>6, <3>2 DEF StoreTypeOK
      <4>2. QED
        BY <1>1, <1>6, <3>2, <3>3, <4>1 DEF StoreTypeOK
    <3>6. RecordIsReadable'
      BY <1>3, <1>6 DEF StoreInv, RecordIsReadable, Readable
    <3>7. LogoutForgets'
      BY <1>1, <1>2 DEF LogoutForgets
    <3>8. OperationIsStaged'
      BY <1>1, <1>2, <2>2, <3>3, <3>4 DEF OperationIsStaged
    <3>9. ChunksAreInUse'
      <4>1. ~faulted' => ~faulted /\ left = {}
        BY <1>6
      <4>2. ~faulted' => chunks' \subseteq SlotsOf(main)'
        BY <1>2, <1>3, <1>4, <1>6, <2>2, <4>1
      <4>3. QED
        BY <1>4, <1>6, <3>3, <4>1, <4>2 DEF ChunksAreInUse
    <3>10. CacheFollows'
      BY <3>3 DEF CacheFollows
    <3>11. SourcesAreOfOneUrl'
      BY <1>1, <3>3 DEF StoreInv, SourcesAreOfOneUrl, OfOneUrl
    <3>12. QED
      BY <3>5, <3>6, <3>7, <3>8, <3>9, <3>10, <3>11 DEF StoreInv
  <2>3. QED
    BY <1>1, <2>1, <2>2
<1>7. QED
  BY <1>5, <1>6 DEF RemoveStale

\* A write fails.
LEMMA WriteFailsKeeps ==
  ASSUME StoreParams, StoreInv, WriteFails
  PROVE  StoreInv'
<1>1. /\ op.at \in {"chunk", "main"} /\ faulted' = TRUE
      /\ UNCHANGED <<backend, main, chunks, legacy, cache, rotation, damaged, foreign, forgotten>>
  BY DEF WriteFails
<1>2. CASE op' = Idle
  BY <1>1, <1>2, StopKeepsRecord
<1>3. CASE op' = [op EXCEPT !.at = "undo"]
  <2>1. StoreTypeOK
    BY DEF StoreInv
  <2>2. /\ op'.at = "undo" /\ op'.new = op.new /\ op'.old = op.old /\ op'.i = op.i
        /\ op' \in [at : {"idle", "chunk", "main", "stale", "undo", "legacy", "remove-chunks",
                          "remove-main", "remove-legacy"},
                    new : Entry \cup {Null}, old : [entry : Entry \cup {Null}, split : BOOLEAN],
                    i : 0..3, why : {"save", "import", "remove"}]
    BY <1>3, <2>1, Advance
  <2>3. SlotsOf(main)' = SlotsOf(main) /\ Stored' = Stored
    BY <1>1 DEF SlotsOf, Stored
  <2>4. StoreTypeOK'
    BY <1>1, <2>1, <2>2 DEF StoreTypeOK
  <2>5. RecordIsReadable' /\ LogoutForgets'
    BY <1>1, <2>3 DEF StoreInv, RecordIsReadable, Readable, LogoutForgets
  <2>6. OperationIsStaged'
    BY <1>1, <2>2 DEF StoreInv, OperationIsStaged
  <2>7. ChunksAreInUse'
    BY <1>1 DEF ChunksAreInUse
  <2>8. CacheFollows'
    BY <1>1, <2>3 DEF StoreInv, CacheFollows
  <2>9. SourcesAreOfOneUrl'
    BY <1>1, <2>2 DEF StoreInv, SourcesAreOfOneUrl, OfOneUrl
  <2>10. QED
    BY <2>4, <2>5, <2>6, <2>7, <2>8, <2>9 DEF StoreInv
<1>4. QED
  BY <1>2, <1>3 DEF WriteFails

\* A write ends.
LEMMA WriteEndsKeeps ==
  ASSUME StoreParams, StoreInv, WriteEnds
  PROVE  StoreInv'
<1>1. /\ op.at = "legacy" /\ op' = Idle /\ cache' = Known(op.new) /\ foreign' = FALSE
      /\ legacy' \in {legacy, Null} /\ faulted' \in {faulted, TRUE}
      /\ (backend = "file" => legacy' = legacy)
      /\ UNCHANGED <<backend, main, chunks, rotation, damaged, forgotten>>
  BY DEF WriteEnds
<1>2. main = Record(op.new) /\ op.new # Null /\ ~forgotten /\ op.new \in Entry
  BY <1>1 DEF StoreInv, OperationIsStaged, StoreTypeOK
<1>3. main.entry = op.new
  BY <1>2, RecordTyped
<1>4. op'.at = "idle" /\ op'.new = Null /\ Idle' = Idle
  BY <1>1, IdleTyped DEF Idle, NoRecord
<1>5. Stored' = op.new /\ SlotsOf(main)' = SlotsOf(main)
  BY <1>1, <1>2, <1>3 DEF Stored, SlotsOf
<1>6. cache'.on = TRUE /\ cache'.entry = op.new
  BY <1>1 DEF Known
<1>7. StoreTypeOK'
  <2>1. cache' \in [on : BOOLEAN, entry : Entry \cup {Null}]
    BY <1>1, <1>2 DEF Known
  <2>2. legacy' \in Entry \cup {Null} /\ faulted' \in BOOLEAN
    BY <1>1 DEF StoreInv, StoreTypeOK
  <2>3. QED
    BY <1>1, <2>1, <2>2, IdleTyped DEF StoreInv, StoreTypeOK
<1>8. RecordIsReadable'
  BY <1>1, <1>5 DEF StoreInv, RecordIsReadable, Readable
<1>9. LogoutForgets'
  BY <1>1, <1>2 DEF LogoutForgets
<1>10. OperationIsStaged'
  BY <1>1, <1>4 DEF StoreInv, OperationIsStaged
<1>11. ChunksAreInUse'
  <2>1. ~faulted' => ~faulted
    BY <1>1
  <2>2. QED
    BY <1>1, <1>4, <1>5, <2>1 DEF StoreInv, ChunksAreInUse
<1>12. CacheFollows'
  BY <1>5, <1>6 DEF CacheFollows
<1>13. SourcesAreOfOneUrl'
  BY <1>1, <1>2, <1>4, <1>6 DEF StoreInv, SourcesAreOfOneUrl, OfOneUrl
<1>14. QED
  BY <1>7, <1>8, <1>9, <1>10, <1>11, <1>12, <1>13 DEF StoreInv

-----------------------------------------------------------------------------
(* Removal of the record, crashes and other processes *)

\* A removal begins.
LEMMA RemoveKeeps ==
  ASSUME StoreParams, StoreInv, Remove
  PROVE  StoreInv'
<1>1. /\ op = Idle /\ op.at = "idle" /\ op'.at \in {"remove-chunks", "remove-main"} /\ op'.new = Null
      /\ (op'.at = "remove-main" => ~main.split)
      /\ UNCHANGED <<backend, main, chunks, legacy, cache, rotation, faulted, damaged, foreign, forgotten>>
  BY DEF Remove, Idle
<1>2. SlotsOf(main)' = SlotsOf(main) /\ Stored' = Stored
  BY <1>1 DEF SlotsOf, Stored
<1>3. StoreTypeOK'
  <2>1. op' \in [at : {"idle", "chunk", "main", "stale", "undo", "legacy", "remove-chunks",
                       "remove-main", "remove-legacy"},
                 new : Entry \cup {Null}, old : [entry : Entry \cup {Null}, split : BOOLEAN],
                 i : 0..3, why : {"save", "import", "remove"}]
    BY DEF Remove, Idle, StoreInv, StoreTypeOK
  <2>2. QED
    BY <1>1, <2>1 DEF StoreInv, StoreTypeOK
<1>4. RecordIsReadable' /\ LogoutForgets'
  BY <1>1, <1>2 DEF StoreInv, RecordIsReadable, Readable, LogoutForgets
<1>5. OperationIsStaged'
  BY <1>1 DEF StoreInv, OperationIsStaged
<1>6. ChunksAreInUse'
  <2>1. ~faulted => chunks \subseteq SlotsOf(main) /\ ~damaged
    BY <1>1 DEF StoreInv, ChunksAreInUse
  <2>2. op'.at = "remove-main" => SlotsOf(main) = {}
    BY <1>1 DEF SlotsOf
  <2>3. QED
    BY <1>1, <1>2, <2>1, <2>2 DEF ChunksAreInUse
<1>7. CacheFollows'
  BY <1>1, <1>2 DEF StoreInv, CacheFollows
<1>8. SourcesAreOfOneUrl'
  BY <1>1 DEF StoreInv, SourcesAreOfOneUrl, OfOneUrl
<1>9. QED
  BY <1>3, <1>4, <1>5, <1>6, <1>7, <1>8 DEF StoreInv

\* Its chunks are removed.
LEMMA RemoveChunksKeeps ==
  ASSUME StoreParams, StoreInv, RemoveChunks
  PROVE  StoreInv'
<1> DEFINE left == SlotsOf(main) \cap chunks
<1>1. /\ op.at = "remove-chunks"
      /\ UNCHANGED <<backend, main, legacy, cache, rotation, faulted, foreign, forgotten>>
  BY DEF RemoveChunks
<1>2. SlotsOf(main)' = SlotsOf(main) /\ Stored' = Stored
  BY <1>1 DEF SlotsOf, Stored
<1>3. ~faulted => chunks \subseteq SlotsOf(main)
  BY <1>1 DEF StoreInv, ChunksAreInUse
<1>4. StoreTypeOK
  BY DEF StoreInv
<1>5. CASE left = {}
  <2>1. op' = [op EXCEPT !.at = "remove-main"] /\ UNCHANGED <<chunks, damaged>>
    BY <1>5 DEF RemoveChunks
  <2>2. /\ op'.at = "remove-main" /\ op'.new = op.new /\ op'.old = op.old /\ op'.i = op.i
        /\ op' \in [at : {"idle", "chunk", "main", "stale", "undo", "legacy", "remove-chunks",
                          "remove-main", "remove-legacy"},
                    new : Entry \cup {Null}, old : [entry : Entry \cup {Null}, split : BOOLEAN],
                    i : 0..3, why : {"save", "import", "remove"}]
    BY <1>4, <2>1, Advance
  <2>3. StoreTypeOK'
    BY <1>1, <1>4, <2>1, <2>2 DEF StoreTypeOK
  <2>4. RecordIsReadable' /\ LogoutForgets'
    BY <1>1, <1>2, <2>1 DEF StoreInv, RecordIsReadable, Readable, LogoutForgets
  <2>5. OperationIsStaged'
    BY <1>1, <2>1, <2>2 DEF StoreInv, OperationIsStaged
  <2>6. ChunksAreInUse'
    BY <1>1, <1>2, <1>3, <1>5, <2>1, <2>2 DEF ChunksAreInUse
  <2>7. CacheFollows'
    BY <1>1, <1>2, <2>1 DEF StoreInv, CacheFollows
  <2>8. SourcesAreOfOneUrl'
    BY <1>1, <2>2 DEF StoreInv, SourcesAreOfOneUrl, OfOneUrl
  <2>9. QED
    BY <2>3, <2>4, <2>5, <2>6, <2>7, <2>8 DEF StoreInv
<1>6. CASE left # {}
  <2>1. chunks' \subseteq chunks /\ damaged' = TRUE /\ op' = op
    BY <1>6 DEF RemoveChunks
  <2>2. StoreTypeOK'
    BY <1>1, <1>4, <2>1 DEF StoreTypeOK
  <2>3. RecordIsReadable' /\ CacheFollows'
    BY <2>1 DEF RecordIsReadable, CacheFollows
  <2>4. LogoutForgets'
    BY <1>1, <1>2 DEF StoreInv, LogoutForgets
  <2>5. OperationIsStaged'
    BY <1>1, <2>1 DEF StoreInv, OperationIsStaged
  <2>6. ChunksAreInUse'
    BY <1>1, <1>2, <1>3, <2>1 DEF ChunksAreInUse
  <2>7. SourcesAreOfOneUrl'
    BY <1>1, <2>1 DEF StoreInv, SourcesAreOfOneUrl, OfOneUrl
  <2>8. QED
    BY <2>2, <2>3, <2>4, <2>5, <2>6, <2>7 DEF StoreInv
<1>7. QED
  BY <1>5, <1>6

\* The main slot is removed.
LEMMA RemoveMainKeeps ==
  ASSUME StoreParams, StoreInv, RemoveMain
  PROVE  StoreInv'
<1>1. /\ op.at = "remove-main" /\ main' = NoRecord /\ damaged' = FALSE /\ cache' = Unknown
      /\ foreign' = FALSE /\ op' = [op EXCEPT !.at = "remove-legacy"]
      /\ UNCHANGED <<backend, chunks, legacy, rotation, faulted, forgotten>>
  BY DEF RemoveMain
<1>2. main'.entry = Null /\ main'.split = FALSE /\ cache'.on = FALSE /\ cache'.entry = Null
  BY <1>1 DEF NoRecord, Unknown
<1>3. StoreTypeOK
  BY DEF StoreInv
<1>4. /\ op'.at = "remove-legacy" /\ op'.new = op.new /\ op'.old = op.old /\ op'.i = op.i
      /\ op' \in [at : {"idle", "chunk", "main", "stale", "undo", "legacy", "remove-chunks",
                        "remove-main", "remove-legacy"},
                  new : Entry \cup {Null}, old : [entry : Entry \cup {Null}, split : BOOLEAN],
                  i : 0..3, why : {"save", "import", "remove"}]
  BY <1>1, <1>3, Advance
<1>5. StoreTypeOK'
  BY <1>1, <1>3, <1>4 DEF StoreTypeOK, NoRecord, Unknown
<1>6. RecordIsReadable'
  BY <1>2 DEF RecordIsReadable, Readable, SlotsOf
<1>7. LogoutForgets'
  BY <1>1, <1>2 DEF StoreInv, LogoutForgets, Stored
<1>8. OperationIsStaged'
  BY <1>1, <1>2, <1>4 DEF OperationIsStaged, NoRecord
<1>9. ChunksAreInUse'
  <2>1. ~faulted' => chunks' = {}
    BY <1>1 DEF StoreInv, ChunksAreInUse
  <2>2. QED
    BY <1>1, <1>4, <2>1 DEF ChunksAreInUse
<1>10. CacheFollows'
  BY <1>2 DEF CacheFollows
<1>11. SourcesAreOfOneUrl'
  BY <1>1, <1>2, <1>4 DEF StoreInv, SourcesAreOfOneUrl, OfOneUrl
<1>12. QED
  BY <1>5, <1>6, <1>7, <1>8, <1>9, <1>10, <1>11 DEF StoreInv

\* The record of earlier versions is removed.
LEMMA RemoveLegacyKeeps ==
  ASSUME StoreParams, StoreInv, RemoveLegacy
  PROVE  StoreInv'
<1>1. /\ op.at = "remove-legacy" /\ op' = Idle
      /\ legacy' = (IF backend = "file" THEN legacy ELSE Null) /\ forgotten' = TRUE
      /\ UNCHANGED <<backend, main, chunks, cache, rotation, faulted, damaged, foreign>>
  BY DEF RemoveLegacy
<1>2. main = NoRecord /\ ~cache.on
  BY <1>1 DEF StoreInv, OperationIsStaged
<1>3. main.entry = Null /\ main.split = FALSE
  BY <1>2 DEF NoRecord
<1>4. op'.at = "idle" /\ op'.new = Null /\ Idle' = Idle
  BY <1>1, IdleTyped DEF Idle, NoRecord
<1>5. SlotsOf(main)' = SlotsOf(main)
  BY <1>1 DEF SlotsOf
<1>6. StoreTypeOK'
  BY <1>1, IdleTyped DEF StoreInv, StoreTypeOK
<1>7. RecordIsReadable'
  BY <1>1, <1>5 DEF StoreInv, RecordIsReadable, Readable
<1>8. LogoutForgets'
  BY <1>1, <1>3 DEF LogoutForgets, Stored
<1>9. OperationIsStaged'
  BY <1>1, <1>3, <1>4 DEF OperationIsStaged
<1>10. ChunksAreInUse'
  BY <1>1, <1>4, <1>5 DEF StoreInv, ChunksAreInUse
<1>11. CacheFollows'
  BY <1>1, <1>2 DEF CacheFollows
<1>12. SourcesAreOfOneUrl'
  BY <1>1, <1>4 DEF StoreInv, SourcesAreOfOneUrl, OfOneUrl
<1>13. QED
  BY <1>6, <1>7, <1>8, <1>9, <1>10, <1>11, <1>12 DEF StoreInv

\* A removal fails.
LEMMA RemoveFailsKeeps ==
  ASSUME StoreParams, StoreInv, RemoveFails
  PROVE  StoreInv'
BY StopKeepsRecord DEF RemoveFails

\* A process crashes between two of its steps.
LEMMA CrashKeeps ==
  ASSUME StoreParams, StoreInv, Crash
  PROVE  StoreInv'
<1>1. /\ op' = Idle /\ cache' = Unknown /\ foreign' = FALSE /\ faulted' = (faulted \/ op # Idle)
      /\ UNCHANGED <<backend, main, chunks, legacy, rotation, damaged, forgotten>>
  BY DEF Crash
<1>2. /\ op'.at = "idle" /\ op'.new = Null /\ Idle' = Idle
      /\ cache'.on = FALSE /\ cache'.entry = Null
  BY <1>1, IdleTyped DEF Idle, NoRecord, Unknown
<1>3. SlotsOf(main)' = SlotsOf(main) /\ Stored' = Stored
  BY <1>1 DEF SlotsOf, Stored
<1>4. StoreTypeOK'
  <2>1. faulted' \in BOOLEAN /\ cache' \in [on : BOOLEAN, entry : Entry \cup {Null}]
    BY <1>1 DEF Unknown
  <2>2. QED
    BY <1>1, <2>1, IdleTyped DEF StoreInv, StoreTypeOK
<1>5. RecordIsReadable' /\ LogoutForgets'
  BY <1>1, <1>3 DEF StoreInv, RecordIsReadable, Readable, LogoutForgets
<1>6. OperationIsStaged'
  BY <1>1, <1>2 DEF StoreInv, OperationIsStaged
<1>7. ChunksAreInUse'
  <2>1. ~faulted' => ~faulted /\ op.at = "idle"
    BY <1>1, IdleTyped
  <2>2. QED
    BY <1>1, <1>2, <1>3, <2>1 DEF StoreInv, ChunksAreInUse
<1>8. CacheFollows'
  BY <1>2 DEF CacheFollows
<1>9. SourcesAreOfOneUrl'
  BY <1>1, <1>2 DEF StoreInv, SourcesAreOfOneUrl, OfOneUrl
<1>10. QED
  BY <1>4, <1>5, <1>6, <1>7, <1>8, <1>9 DEF StoreInv

\* Another process writes or removes.
LEMMA OtherProcessKeeps ==
  ASSUME StoreParams, StoreInv, OtherProcess
  PROVE  StoreInv'
<1>1. /\ op = Idle /\ op.at = "idle" /\ op' = op /\ rotation < MaxRotation /\ rotation' = rotation + 1
      /\ legacy' \in {legacy, Null} /\ foreign' = TRUE /\ forgotten' = FALSE
      /\ UNCHANGED <<backend, cache, op, faulted, damaged>>
  BY IdleTyped DEF OtherProcess
<1>2. rotation' \in 0..MaxRotation
  BY <1>1 DEF StoreInv, StoreTypeOK, StoreParams
<1>3. PICK u \in Url, c \in Url \cup {Null} :
        /\ c \in {u, Null}
        /\ main' = Record([url |-> u, tok |-> <<u, rotation + 1>>, client |-> c])
        /\ chunks' = (chunks \ SlotsOf(main))
                     \cup SlotsOf(Record([url |-> u, tok |-> <<u, rotation + 1>>, client |-> c]))
  BY DEF OtherProcess
<1> DEFINE t == <<u, rotation + 1>>
           e == [url |-> u, tok |-> t, client |-> c]
<1>4. t \in Tok /\ t[1] = u
  BY <1>1, <1>2 DEF Tok
<1>5. main' = Record(e) /\ chunks' = (chunks \ SlotsOf(main)) \cup SlotsOf(Record(e))
  BY <1>3
<1> HIDE DEF t
<1>6. e \in Entry /\ OfOneUrl(e) /\ e # Null
  BY <1>3, <1>4 DEF Entry, OfOneUrl, StoreParams
<1> HIDE DEF e
<1>7. Record(e) \in [entry : Entry, split : BOOLEAN] /\ Record(e).entry = e
  BY <1>6, RecordTyped
<1>8. SlotsOf(main)' = SlotsOf(Record(e))
  BY <1>5 DEF SlotsOf
<1>9. StoreTypeOK'
  <2>1. SlotsOf(Record(e)) \subseteq Entry \X {1, 2}
    BY <1>6, <1>7, SlotsTyped
  <2>2. chunks' \subseteq Entry \X {1, 2}
    BY <1>5, <2>1 DEF StoreInv, StoreTypeOK
  <2>3. main' \in [entry : Entry \cup {Null}, split : BOOLEAN]
    BY <1>5, <1>7
  <2>4. QED
    BY <1>1, <1>2, <2>2, <2>3 DEF StoreInv, StoreTypeOK
<1>10. RecordIsReadable' /\ LogoutForgets' /\ CacheFollows'
  BY <1>1, <1>5, <1>8 DEF RecordIsReadable, Readable, LogoutForgets, CacheFollows
<1>11. OperationIsStaged'
  <2>1. Idle' = Idle
    BY DEF Idle, NoRecord
  <2>2. QED
    BY <1>1, <1>5, <1>6, <1>7, <2>1 DEF OperationIsStaged
<1>12. ChunksAreInUse'
  BY <1>1, <1>5, <1>8 DEF StoreInv, ChunksAreInUse
<1>13. SourcesAreOfOneUrl'
  BY <1>1, <1>5, <1>6, <1>7 DEF StoreInv, SourcesAreOfOneUrl, OfOneUrl
<1>14. QED
  BY <1>9, <1>10, <1>11, <1>12, <1>13 DEF StoreInv

\* A record is invalidated.
LEMMA InvalidateKeeps ==
  ASSUME StoreParams, StoreInv, Invalidate
  PROVE  StoreInv'
<1>1. /\ op' = op /\ cache' = Unknown /\ foreign' = FALSE
      /\ UNCHANGED <<backend, main, chunks, legacy, op, rotation, faulted, damaged, forgotten>>
  BY DEF Invalidate
<1>2. /\ cache'.on = FALSE /\ cache'.entry = Null
      /\ cache' \in [on : BOOLEAN, entry : Entry \cup {Null}]
  BY <1>1 DEF Unknown
<1>3. SlotsOf(main)' = SlotsOf(main) /\ Stored' = Stored
  BY <1>1 DEF SlotsOf, Stored
<1>4. StoreTypeOK'
  BY <1>1, <1>2 DEF StoreInv, StoreTypeOK
<1>5. RecordIsReadable' /\ LogoutForgets'
  BY <1>1, <1>3 DEF StoreInv, RecordIsReadable, Readable, LogoutForgets
<1>6. /\ Idle' = Idle /\ Splits(op.new)' = Splits(op.new) /\ Record(op.new)' = Record(op.new)
      /\ SlotsOf(op.old)' = SlotsOf(op.old) /\ SlotsOf(Record(op.new))' = SlotsOf(Record(op.new))
  BY <1>1 DEF Idle, NoRecord, Splits, Record, SlotsOf
<1>7. OperationIsStaged'
  BY <1>1, <1>2, <1>3, <1>6 DEF StoreInv, OperationIsStaged, NoRecord
<1>8. ChunksAreInUse'
  BY <1>1, <1>3, <1>6 DEF StoreInv, ChunksAreInUse
<1>9. CacheFollows'
  BY <1>2 DEF CacheFollows
<1>10. SourcesAreOfOneUrl'
  BY <1>1, <1>2 DEF StoreInv, SourcesAreOfOneUrl, OfOneUrl
<1>11. QED
  BY <1>4, <1>5, <1>7, <1>8, <1>9, <1>10 DEF StoreInv

-----------------------------------------------------------------------------
(* The theorems *)

\* The store is empty, and nobody writes.
LEMMA StoreBegins ==
  ASSUME StoreParams, StoreInit
  PROVE  StoreInv
<1> DEFINE u == CHOOSE u \in Url : TRUE
           t == <<u, 0>>
           e == [url |-> u, tok |-> t, client |-> u]
<1>1. u \in Url
  BY DEF StoreParams
<1> HIDE DEF u
<1>2. t \in Tok /\ t[1] = u
  BY <1>1 DEF Tok, StoreParams
<1> HIDE DEF t
<1>3. e \in Entry /\ OfOneUrl(e) /\ e # Null
  BY <1>1, <1>2 DEF Entry, OfOneUrl, StoreParams
<1>4. /\ backend \in {"chunking", "plain", "file"} /\ cache = Unknown /\ op = Idle /\ rotation = 0
      /\ faulted = FALSE /\ damaged = FALSE /\ foreign = FALSE /\ forgotten = FALSE
      /\ legacy \in {Null, e}
      /\ \/ main = NoRecord /\ chunks = {}
         \/ main = [entry |-> e, split |-> TRUE] /\ chunks = Slots(e)
  BY DEF StoreInit, StoreStarts, u, t
<1> HIDE DEF e
<1>5. cache.on = FALSE /\ cache.entry = Null /\ op.at = "idle" /\ op.new = Null
  BY <1>4, IdleTyped DEF Unknown
<1>6. /\ main \in [entry : Entry \cup {Null}, split : BOOLEAN] /\ main.entry \in {Null, e}
      /\ (main.split => main.entry # Null) /\ chunks = SlotsOf(main)
  <2>1. CASE main = NoRecord /\ chunks = {}
    BY <2>1 DEF NoRecord, SlotsOf
  <2>2. CASE main = [entry |-> e, split |-> TRUE] /\ chunks = Slots(e)
    BY <1>3, <2>2 DEF SlotsOf
  <2>3. QED
    BY <1>4, <2>1, <2>2
<1>7. chunks \subseteq Entry \X {1, 2}
  BY <1>3, <1>6, SlotsTyped
<1>8. cache \in [on : BOOLEAN, entry : Entry \cup {Null}] /\ legacy \in Entry \cup {Null}
  BY <1>3, <1>4 DEF Unknown
<1>9. StoreTypeOK
  <2>1. rotation \in 0..MaxRotation
    BY <1>4 DEF StoreParams
  <2>2. {faulted, damaged, foreign, forgotten} \subseteq BOOLEAN
    BY <1>4
  <2>3. QED
    BY <1>4, <1>6, <1>7, <1>8, <2>1, <2>2, IdleTyped DEF StoreTypeOK
<1>10. RecordIsReadable /\ LogoutForgets /\ CacheFollows
  BY <1>4, <1>5, <1>6 DEF RecordIsReadable, Readable, LogoutForgets, CacheFollows
<1>11. OperationIsStaged
  BY <1>4, <1>5, <1>6 DEF OperationIsStaged
<1>12. ChunksAreInUse
  BY <1>4, <1>5, <1>6 DEF ChunksAreInUse
<1>13. SourcesAreOfOneUrl
  BY <1>3, <1>4, <1>5, <1>6 DEF SourcesAreOfOneUrl
<1>14. QED
  BY <1>9, <1>10, <1>11, <1>12, <1>13 DEF StoreInv

\* So every step keeps the invariant of the store.
LEMMA StoreKeeps ==
  ASSUME StoreParams, StoreInv, [StoreNext]_storeVars
  PROVE  StoreInv'
<1>1. CASE StoreNext
  BY <1>1, ReadKeeps, SaveKeeps, WriteChunkKeeps, WriteMainKeeps, RemoveStaleKeeps, WriteFailsKeeps,
     WriteEndsKeeps, RemoveKeeps, RemoveChunksKeeps, RemoveMainKeeps, RemoveLegacyKeeps,
     RemoveFailsKeeps, CrashKeeps, OtherProcessKeeps, InvalidateKeeps DEF StoreNext
<1>2. CASE UNCHANGED storeVars
  BY <1>2
     DEF storeVars, StoreInv, StoreTypeOK, RecordIsReadable, Readable, LogoutForgets, Stored, OperationIsStaged,
     ChunksAreInUse, CacheFollows, SourcesAreOfOneUrl, OfOneUrl, SlotsOf, Slots, Record, Splits, Idle,
     NoRecord, Entry, Tok
<1>3. QED
  BY <1>1, <1>2

\* Whatever fails and wherever the process dies, the store and the cache are as far as the
\* operation in progress says (mcp-auth.ts writes chunks, record, old chunks, plaintext in order).
THEOREM StoreInvariance ==
  ASSUME StoreParams
  PROVE  StoreSpec => []StoreInv
<1>1. StoreInit => StoreInv
  BY StoreBegins
<1>2. StoreInv /\ [StoreNext]_storeVars => StoreInv'
  BY StoreKeeps
<1>3. QED
  BY <1>1, <1>2, PTL DEF StoreSpec

\* A record can be read unless a removal or a failed rewrite of itself took its chunks; no chunk
\* of a replaced record stays in a store that never failed; the cache is what a read would return;
\* tokens and client are of the url of their entry; after a logout nothing is found.
THEOREM CredentialsHold ==
  ASSUME StoreParams
  PROVE  StoreSpec => []RecordsHold
<1>1. StoreInv => RecordsHold
  <2> SUFFICES ASSUME StoreInv
               PROVE  RecordsHold
    OBVIOUS
  <2>1. NoStaleChunks
    <3>1. op = Idle => op.at = "idle"
      BY IdleTyped
    <3>2. op = Idle /\ ~faulted => chunks \subseteq SlotsOf(main) /\ ~damaged
      BY <3>1 DEF StoreInv, ChunksAreInUse
    <3>3. QED
      BY <3>2 DEF StoreInv, RecordIsReadable, Readable, NoStaleChunks
  <2>2. CacheIsStored
    BY IdleTyped DEF StoreInv, CacheFollows, CacheIsStored
  <2>3. OneUrl
    BY DEF StoreInv, SourcesAreOfOneUrl, OneUrl
  <2>4. QED
    BY <2>1, <2>2, <2>3 DEF StoreInv, RecordsHold
<1>2. QED
  BY <1>1, StoreInvariance, PTL

-----------------------------------------------------------------------------
(* Both *)

\* The flows, the callback server and the record stay well typed and the inductive invariants hold
\* in every behaviour of either component.
THEOREM SignInConsistent ==
  ASSUME FlowParams, StoreParams
  PROVE  MCSpec => []SignInTypeOK
<1>1. MCInit => SignInTypeOK
  BY FlowsBegin, StoreBegins DEF MCInit, SignInTypeOK
<1>2. SignInTypeOK /\ [MCNext]_<<focus, vars, storeVars>> => SignInTypeOK'
  <2>1. IInv /\ [Next]_vars => IInv'
    BY FlowsKeep
  <2>2. StoreInv /\ [StoreNext]_storeVars => StoreInv'
    BY StoreKeeps
  <2>3. QED
    BY <2>1, <2>2 DEF MCNext, SignInTypeOK
<1>3. QED
  BY <1>1, <1>2, PTL DEF MCSpec
=============================================================================
