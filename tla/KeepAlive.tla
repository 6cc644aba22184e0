------------------------------ MODULE KeepAlive ------------------------------
(***************************************************************************)
(* McpLifecycleManager (lifecycle.ts) for one server name: the convergence *)
(* passes that reconnect or refresh a keep-alive server, while the name is *)
(* disposed and registered again with another definition, tool calls and   *)
(* sign-ins move the connection, and the session stops.                    *)
(*                                                                         *)
(* At most one pass runs at a time (activeConvergence).  A pass is         *)
(* `queued` between the snapshot of the registrations and its turn in      *)
(* parallelLimit(), and `returned` between the end of a connection attempt *)
(* and the continuation of its await.  Connections and definitions are     *)
(* identities, used again once nothing refers to them.                     *)
(***************************************************************************)
EXTENDS Naturals

CONSTANTS Connection, Def,
  HttpDef, \* the definitions with a url: only these are refreshed
  None

VARIABLES
  registered, \* keepAliveServers.get(name)
  route,      \* the manager's connection of the name; a connection that is no longer
              \* the route is closed
  retry,      \* retryStates.get(name), and the definition it was recorded for
  pending,    \* pendingMetadataPublications has the name
  pass,       \* the pass: where it is suspended, its definition and connection
  signingIn,  \* hasPendingAuth()
  up,         \* the server answers
  phase       \* "running", "stopping" or "stopped"

reg  == <<registered, retry, pending>>
env  == <<signingIn, up, phase>>
vars == <<reg, route, pass, env>>

NoRetry == [on |-> FALSE, conn |-> None, status |-> "none", due |-> FALSE, def |-> None]
\* byPass: a pass connected it; shown: its metadata is what the adapter shows.
NoRoute == [conn |-> None, status |-> "none", def |-> None, byPass |-> FALSE, shown |-> FALSE]
Idle    == [at |-> "idle", def |-> None, conn |-> None, again |-> FALSE]
Statuses == {"none", "connected", "closed", "needs-auth"}

TypeOK ==
  /\ registered \in Def \cup {None}
  /\ route \in [conn : Connection \cup {None}, status : Statuses, def : Def \cup {None},
                 byPass : BOOLEAN, shown : BOOLEAN]
  /\ retry \in [on : BOOLEAN, conn : Connection \cup {None}, status : Statuses, due : BOOLEAN,
                def : Def \cup {None}]
  /\ pending \in BOOLEAN
  /\ pass \in [at : {"idle", "queued", "connecting", "reconnecting", "aborted", "returned",
                     "refreshing", "published", "unpublished"},
               def : Def \cup {None}, conn : Connection \cup {None}, again : BOOLEAN]
  /\ signingIn \in BOOLEAN /\ up \in BOOLEAN /\ phase \in {"running", "stopping", "stopped"}

\* The session's phase at first: a run may also begin with everything stopped.
Starts(p) ==
  /\ registered \in IF p = "running" THEN Def ELSE {None}
  /\ route = NoRoute
  /\ retry = NoRetry /\ pending = FALSE /\ pass = Idle
  /\ signingIn = FALSE /\ up = TRUE /\ phase = p

Init == Starts("running")

Fresh == CHOOSE c \in Connection : c \notin {route.conn, pass.conn, retry.conn}
StatusOf(c) == IF c = None THEN "none" ELSE IF c = route.conn THEN route.status ELSE "closed"
Usable == route.status = "connected"
Opened(s, d, own) == [conn |-> Fresh, status |-> s, def |-> d, byPass |-> own, shown |-> ~own]

-----------------------------------------------------------------------------
(* Bookkeeping of a pass of definition d, and its ends. *)

\* MUTANT of RecordRetry: a stale pass records its failure.
RecordRetryUnfenced(d, c) ==
  retry' = [on |-> TRUE, conn |-> c, status |-> StatusOf(c), due |-> FALSE, def |-> d]

RecordRetry(d, c) ==
  retry' = IF registered # d THEN retry
           ELSE [on |-> TRUE, conn |-> c, status |-> StatusOf(c), due |-> FALSE, def |-> d]

Ends == pass' = Idle /\ UNCHANGED route
Fails(d, c) == Ends /\ RecordRetry(d, c) /\ UNCHANGED pending

\* A pass whose definition was replaced closes its own connection, if still the route.
CloseOwn(c) ==
  /\ pass' = Idle /\ UNCHANGED <<retry, pending>>
  /\ route' = IF route.conn = c THEN NoRoute ELSE route

\* onReconnect() shows the metadata of the route, not of c, or throws.
Published(d, c, again) ==
  /\ UNCHANGED retry
  /\ \/ /\ pass' = [at |-> "published", def |-> d, conn |-> c, again |-> again]
        /\ route' = [route EXCEPT !.shown = @ \/ Usable]
     \/ /\ pass' = [at |-> "unpublished", def |-> d, conn |-> c, again |-> again]
        /\ UNCHANGED route

\* publishConnectedMetadata()
Publish(d, c) ==
  IF registered # d THEN CloseOwn(c)
  ELSE pending' = TRUE /\ Published(d, c, pass.again)

NotifyAuthRequired(d, c) ==
  IF registered # d THEN CloseOwn(c)
  ELSE pending' = FALSE /\ retry' = NoRetry /\ Ends

ShouldAttempt(c) ==
  ~retry.on \/ retry.due \/ retry.conn # c \/ retry.status # StatusOf(c)
Changed(c) == retry.on /\ (retry.conn # c \/ retry.status # StatusOf(c))

\* checkKeepAliveConnection() up to its first await.
CheckKeepAlive(d, again) ==
  \/ /\ phase # "running" \/ registered # d
     /\ Ends /\ UNCHANGED <<retry, pending>>
  \/ /\ phase = "running" /\ registered = d
     /\ \/ /\ route.status = "needs-auth"
           /\ pending' = FALSE /\ Ends /\ UNCHANGED retry
        \/ /\ route.status # "needs-auth" /\ ~ShouldAttempt(route.conn)
           /\ Ends /\ UNCHANGED <<retry, pending>>
        \/ /\ route.status # "needs-auth" /\ ShouldAttempt(route.conn) /\ ~(Usable /\ pending)
           /\ retry' = IF Changed(route.conn) THEN NoRetry ELSE retry
           /\ UNCHANGED <<route, pending>>
           /\ pass' = IF Usable
                      THEN IF d \in HttpDef
                           THEN [at |-> "refreshing", def |-> d, conn |-> route.conn, again |-> again]
                           ELSE Idle
                      ELSE IF signingIn THEN Idle
                           ELSE [at |-> "connecting", def |-> d, conn |-> None, again |-> again]
        \/ /\ Usable /\ pending /\ ShouldAttempt(route.conn)
           /\ Published(d, route.conn, again) /\ UNCHANGED pending

\* handleSupersededConnection()
Superseded(d, c) ==
  IF registered # d THEN Ends /\ UNCHANGED <<retry, pending>>
  ELSE \/ /\ route.conn = c /\ Usable
          /\ retry' = NoRetry /\ Ends /\ UNCHANGED pending
       \/ route.conn # c /\ Usable /\ Publish(d, route.conn)
       \/ /\ ~Usable /\ route.status = "needs-auth"
          /\ NotifyAuthRequired(d, route.conn)
       \/ /\ ~Usable /\ route.status # "needs-auth"
          /\ IF pass.again THEN CheckKeepAlive(d, FALSE)
             ELSE Ends /\ UNCHANGED <<retry, pending>>

-----------------------------------------------------------------------------
(* A pass *)

\* The health timer, input and turn starts share one pass; it snapshots the names.
PassBegins ==
  /\ phase = "running" /\ pass.at = "idle" /\ registered # None
  /\ pass' = [at |-> "queued", def |-> registered, conn |-> None, again |-> TRUE]
  /\ UNCHANGED <<reg, route, env>>

PassChecks ==
  /\ pass.at = "queued" /\ CheckKeepAlive(pass.def, pass.again)
  /\ UNCHANGED <<registered, env>>

\* connect() or reconnect() of the pass succeeds: the route is the new connection,
\* whatever another continuation does before the pass resumes.
AttemptSucceeds ==
  /\ pass.at \in {"connecting", "reconnecting"} /\ phase # "stopped"
  /\ \E s \in {"connected", "needs-auth"} :
       (s = "connected" => up) /\ route' = Opened(s, pass.def, TRUE)
  /\ pass' = [pass EXCEPT !.at = "returned", !.conn = Fresh]
  /\ UNCHANGED <<reg, env>>

AttemptFails ==
  /\ \/ pass.at = "aborted"
     \/ pass.at \in {"connecting", "reconnecting"} /\ (~up \/ phase # "running")
  /\ IF phase # "running" THEN Ends /\ UNCHANGED <<retry, pending>>
     ELSE Fails(pass.def, route.conn)
  /\ UNCHANGED <<registered, env>>

AttemptReturns ==
  /\ pass.at = "returned"
  /\ \/ phase # "running" /\ Ends /\ UNCHANGED <<retry, pending>>
     \/ /\ phase = "running"
        /\ \/ StatusOf(pass.conn) = "needs-auth" /\ NotifyAuthRequired(pass.def, pass.conn)
           \/ StatusOf(pass.conn) = "closed" /\ Fails(pass.def, pass.conn)
           \/ StatusOf(pass.conn) = "connected" /\ Publish(pass.def, pass.conn)
  /\ UNCHANGED <<registered, env>>

\* The await of onReconnect() resumes.  What follows a success is not fenced again.
PublishReturns ==
  /\ \/ pass.at = "published" /\ pending' = FALSE /\ retry' = NoRetry
     \/ /\ pass.at = "unpublished" /\ UNCHANGED pending
        /\ IF phase = "running" THEN RecordRetry(pass.def, pass.conn) ELSE UNCHANGED retry
  /\ Ends /\ UNCHANGED <<registered, env>>

\* refreshTools() of the pass settles: unchanged, an error, a timeout or superseded.
RefreshReturns ==
  /\ pass.at = "refreshing"
  /\ LET c == pass.conn
         stale == route.conn # c \/ ~Usable IN
     \/ /\ ~stale /\ Ends /\ UNCHANGED pending
        /\ retry' = IF registered = pass.def THEN NoRetry ELSE retry
     \/ /\ phase # "running" /\ Ends /\ UNCHANGED <<retry, pending>>
     \/ phase = "running" /\ Superseded(pass.def, c)
     \/ phase = "running" /\ ~stale /\ Fails(pass.def, c)
     \/ /\ phase = "running" /\ ~stale /\ UNCHANGED <<retry, pending, route>>
        /\ pass' = IF signingIn THEN Idle ELSE [pass EXCEPT !.at = "reconnecting"]
  /\ UNCHANGED <<registered, env>>

-----------------------------------------------------------------------------
(* What happens around it *)

\* attachRuntimeServerLifecycle() or the session's start
Register ==
  /\ registered = None /\ phase = "running"
  /\ \E d \in Def : d # pass.def /\ registered' = d
  /\ UNCHANGED <<retry, pending, route, pass, env>>

\* unregisterServer() and the synchronous part of close(): attempts are aborted.
Unregister ==
  /\ registered # None /\ phase = "running"
  /\ registered' = None /\ retry' = NoRetry /\ pending' = FALSE
  /\ route' = NoRoute
  /\ pass' = IF pass.at \in {"connecting", "reconnecting"}
             THEN [pass EXCEPT !.at = "aborted"] ELSE pass
  /\ UNCHANGED env

\* A tool call connects, or replaces a connection that failed it, and publishes it.
ToolCallConnects ==
  /\ registered # None /\ phase = "running" /\ up
  /\ pass.at \notin {"connecting", "reconnecting", "aborted"}
  /\ route' = Opened("connected", registered, FALSE)
  /\ UNCHANGED <<reg, pass, env>>

RemoteClose ==
  /\ Usable /\ ~up
  /\ route' = [route EXCEPT !.status = "closed"]
  /\ UNCHANGED <<reg, pass, env>>

\* A sign-in begins, or ends and clears a connection that needed it.
SignIn ==
  /\ phase = "running" /\ signingIn' = ~signingIn
  /\ route' = IF signingIn /\ route.status = "needs-auth" THEN NoRoute ELSE route
  /\ UNCHANGED <<reg, pass, up, phase>>

ServerChanges == up' = ~up /\ UNCHANGED <<reg, route, pass, signingIn, phase>>

\* MUTANT of BackoffEnds: a retry that was deferred is never due.
BackoffNever == FALSE /\ UNCHANGED vars

BackoffEnds ==
  /\ retry.on /\ ~retry.due /\ retry' = [retry EXCEPT !.due = TRUE]
  /\ UNCHANGED <<registered, pending, route, pass, env>>

Shutdown ==
  /\ phase = "running" /\ phase' = "stopping"
  /\ UNCHANGED <<reg, route, pass, signingIn, up>>

\* gracefulShutdown() after the pass in flight: clear everything, close the servers.
CloseAll ==
  /\ phase = "stopping" /\ pass.at = "idle" /\ phase' = "stopped"
  /\ retry' = NoRetry /\ pending' = FALSE /\ route' = NoRoute
  /\ UNCHANGED <<registered, pass, signingIn, up>>

PassStep == PassChecks \/ AttemptSucceeds \/ AttemptFails \/ AttemptReturns
              \/ PublishReturns \/ RefreshReturns

Next == \/ PassBegins \/ PassStep \/ Register \/ Unregister \/ ToolCallConnects
        \/ RemoteClose \/ SignIn \/ ServerChanges \/ BackoffEnds \/ Shutdown \/ CloseAll

Spec == Init /\ [][Next]_vars

\* The health timer ticks, promises settle and backoffs end.
Fairness == WF_vars(PassBegins) /\ WF_vars(PassStep) /\ WF_vars(BackoffEnds) /\ WF_vars(CloseAll)

-----------------------------------------------------------------------------
(* Properties *)

\* Backoff and owed publications always belong to the definition now registered: a
\* pass that outlived it leaves nothing behind for its successor.
NothingStaleRecorded ==
  /\ retry.on => registered # None /\ retry.def = registered
  /\ pending => registered # None

\* No connection of a disposed definition is ever the usable route.
NoOrphanConnection == Usable => route.def = registered

\* A connection a pass opened is shown to the model, or the next pass still owes it.
ConnectedIsPublished ==
  phase = "running" /\ Usable /\ route.byPass /\ pass.at = "idle"
    => pending \/ route.shown

\* After the session's shutdown no late pass brings back state or a connection.
StoppedIsQuiet ==
  phase = "stopped" => route = NoRoute /\ ~retry.on /\ ~pending /\ pass.at = "idle"

\* The four of them: what the passes, the registrations and the connections leave behind.
KeepAliveHolds ==
  NothingStaleRecorded /\ NoOrphanConnection /\ ConnectedIsPublished /\ StoppedIsQuiet

-----------------------------------------------------------------------------
(* The inductive invariant: what makes these hold. *)

\* Only an attempt that was aborted outlives its definition: one that may still connect,
\* or that refreshes the route, is the registered definition's.
PassIsRegistered ==
  /\ pass.at # "idle" => pass.def # None
  /\ pass.at \in {"connecting", "reconnecting"} => pass.def = registered
  /\ pass.at = "refreshing" => pass.conn # None /\ (route.conn = pass.conn => pass.def = registered)

\* A connection in use is one, of a name that is registered.
RouteIsRegistered ==
  (route.status = "none" <=> route.conn = None) /\ (Usable => registered # None)

\* What a pass connected is shown, owed, or about to be published by the pass; a pass whose
\* publication returned has shown it.
PassPublishes ==
  /\ phase = "running" /\ Usable /\ route.byPass =>
       pending \/ route.shown \/ (pass.at = "returned" /\ pass.conn = route.conn)
  /\ pass.at = "published" /\ Usable => route.shown

IInv == TypeOK /\ NothingStaleRecorded /\ NoOrphanConnection /\ StoppedIsQuiet
          /\ PassIsRegistered /\ RouteIsRegistered /\ PassPublishes

-----------------------------------------------------------------------------
(* Liveness *)

Healthy == up /\ registered # None /\ phase = "running" /\ ~signingIn

\* A keep-alive server that stays reachable is connected again, however the last
\* attempts ended, and stays so, or waits for a sign-in.
Recovers == <>[]Healthy => <>[](route.status \in {"connected", "needs-auth"})

\* Shutdown waits for the pass in flight, which always ends: a manager that is stopping
\* is stopped one day, which it stays.
ShutdownEnds == <>[](phase # "stopping")
=============================================================================
