------------------------------ MODULE ToolCalls ------------------------------
(***************************************************************************)
(* The tool calls of one server, from lazyConnect() to the final block     *)
(* that gives back the in-flight count: createDirectToolExecutor() of      *)
(* direct-tools.ts, executeCall() of proxy-modes.ts, and what they share,  *)
(* withSessionRecovery() of session-recovery.ts, the failure backoff and   *)
(* the manager's in-flight counts, which spare a server from the idle      *)
(* check of lifecycle.ts.                                                  *)
(*                                                                         *)
(* The manager keeps one attempt per server and publishes what it built    *)
(* (ServerRoutes shows it does), so an attempt is one step here, and       *)
(* attempt k builds connection k.  A closed connection's disposal touches  *)
(* nothing a call looks at.  expired[k] stands for every way a server      *)
(* refuses a request on connection k before it runs it: a session that     *)
(* ended, or a provider's token that is no longer good.                    *)
(***************************************************************************)
EXTENDS Naturals, FiniteSets

CONSTANTS
  Call,       \* the tool calls of a behaviour
  Direct,     \* those of directly registered tools; the others are proxied
  Executor,   \* those of Executor's `execute` and `call`, which may pause
  None,
  LastConn    \* bound: attempts, and so connections, are 1 .. LastConn

Conn == 1 .. LastConn
Maybe == Conn \cup {None}

ASSUME CallsAreFinite == IsFiniteSet(Call)
ASSUME DirectAreCalls == Direct \subseteq Call
ASSUME ExecutorAreCalls == Executor \subseteq Call
ASSUME LastConnIsNat == LastConn \in Nat
ASSUME NoneIsNoConn == None \notin Conn

VARIABLES
  route,     \* connections.get(name)
  status,    \* of a connection; "building" while its attempt runs
  expired,   \* the server refuses requests on the connection
  count,     \* ServerConnection.inFlight
  target,    \* the connection an attempt is to replace
  owner,     \* the call whose AbortSignal the attempt carries
  attempt,   \* the attempt that is running
  quiet,     \* the idle timeout has passed since lastUsedAt of the route
  backoff,   \* a failure was recorded within FAILURE_BACKOFF_MS
  pc,        \* where a call waits
  at,        \* the attempt it waits for, or the connection it uses
  authTried, \* autoAuthAttempted
  aborted,   \* its AbortSignal
  why,       \* the error that ended it
  ran,       \* history: how often the server ran it
  holds,     \* history: it has been counted and not yet given the count back
  home,      \* history: the lineage whose count it raised
  origin,    \* history: the connection whose count a connection inherited
  strayed    \* history: lineages lowered by a call that had not raised them

manager == <<route, status, expired, target, owner, attempt, origin>>
counts  == <<count, holds, home, strayed>>
clocks  == <<quiet, backoff>>
frames  == <<pc, at, authTried, aborted, why, ran>>
vars    == <<manager, counts, clocks, frames>>

Resting == {"idle", "approval", "dialog", "task", "done"}
InFlight == {"sent", "resuming", "resent"}
PC == Resting \cup InFlight \cup
      {"connect", "listen", "auth", "authClosed", "recover", "reauth", "reauthClosed",
       "relazy", "failing"}
Statuses == {"none", "building", "connected", "needs-auth", "closed", "failed"}
Reasons == {"none", "refusedResume", "refused", "lost", "failed"}

\* The values the manager's record and a call's frame may hold.
TypeOK ==
  /\ route \in Maybe /\ attempt \in Maybe
  /\ status \in [Conn -> Statuses] /\ expired \in [Conn -> BOOLEAN]
  /\ count \in [Conn -> Nat] /\ target \in [Conn -> Maybe]
  /\ owner \in [Conn -> Call \cup {None}] /\ origin \in [Conn -> Maybe]
  /\ quiet \in BOOLEAN /\ backoff \in BOOLEAN
  /\ pc \in [Call -> PC] /\ at \in [Call -> Maybe]
  /\ authTried \in [Call -> BOOLEAN] /\ aborted \in [Call -> BOOLEAN]
  /\ why \in [Call -> Reasons] /\ ran \in [Call -> Nat]
  /\ holds \in [Call -> BOOLEAN] /\ home \in [Call -> Maybe]
  /\ strayed \subseteq Maybe

Init ==
  /\ route = None /\ attempt = None
  /\ status = [k \in Conn |-> "none"] /\ expired = [k \in Conn |-> FALSE]
  /\ count = [k \in Conn |-> 0] /\ target = [k \in Conn |-> None]
  /\ owner = [k \in Conn |-> None] /\ origin = [k \in Conn |-> None]
  /\ quiet = FALSE /\ backoff = FALSE
  /\ pc = [p \in Call |-> "idle"] /\ at = [p \in Call |-> None]
  /\ authTried = [p \in Call |-> FALSE] /\ aborted = [p \in Call |-> FALSE]
  /\ why = [p \in Call |-> "none"] /\ ran = [p \in Call |-> 0]
  /\ holds = [p \in Call |-> FALSE] /\ home = [p \in Call |-> None]
  /\ strayed = {}

-----------------------------------------------------------------------------
(* The manager, as the calls see it. *)

Connected(k) == k # None /\ status[k] = "connected"
NeedsAuth(k) == k # None /\ status[k] = "needs-auth"
Lineage(k)   == IF k = None THEN None ELSE origin[k]

Goto(p, where) == pc' = [pc EXCEPT ![p] = where]
Wait(p, where, k) == Goto(p, where) /\ at' = [at EXCEPT ![p] = k]

\* connect() or reconnect(): share the attempt that is running, or start one.
Join(p, where, replaced) ==
  \/ /\ attempt # None /\ Wait(p, where, attempt)
     /\ UNCHANGED <<status, target, owner, attempt>>
  \/ /\ attempt = None
     /\ \E k \in Conn :
          /\ status[k] = "none" /\ \A j \in Conn : status[j] = "none" => k <= j
          /\ Wait(p, where, k)
          /\ status' = [status EXCEPT ![k] = "building"]
          /\ target' = [target EXCEPT ![k] = replaced]
          /\ owner' = [owner EXCEPT ![k] = p]
          /\ attempt' = k

\* MUTANT of InheritedCount: the replacement starts without the calls in flight.
StartsAtZero(stale) == 0

\* doReconnect() carries the count over; a connection of connect() starts at 0.
InheritedCount(stale) == IF stale = None THEN 0 ELSE count[stale]

Publish(k, s) ==
  /\ attempt = k /\ ~(owner[k] # None /\ aborted[owner[k]])
  /\ s \in {"connected", "needs-auth"}
  /\ route' = k /\ attempt' = None
  /\ status' = [c \in Conn |-> IF c = k THEN s ELSE IF c = target[k] THEN "closed" ELSE status[c]]
  /\ count' = [count EXCEPT ![k] = InheritedCount(target[k])]
  /\ origin' = [origin EXCEPT ![k] = IF target[k] = None THEN k ELSE origin[target[k]]]
  /\ quiet' = FALSE
  /\ UNCHANGED <<expired, target, owner, holds, home, strayed, backoff, frames>>

AttemptFails(k) ==
  /\ attempt = k
  /\ status' = [status EXCEPT ![k] = "failed"] /\ attempt' = None
  /\ UNCHANGED <<route, expired, target, owner, origin, counts, clocks, frames>>

\* close(): the route leaves the map and whatever attempt is running is fenced.
CloseByName ==
  /\ status' = [c \in Conn |-> IF c = route THEN "closed"
                              ELSE IF c = attempt THEN "failed" ELSE status[c]]
  /\ route' = None /\ attempt' = None
  /\ UNCHANGED <<expired, target, owner, origin>>

\* The user signs out of the server.
UserCloses == /\ route # None /\ CloseByName /\ UNCHANGED <<counts, clocks, frames>>

\* client.onclose: the map keeps the entry.
RemoteClose ==
  /\ Connected(route)
  /\ status' = [status EXCEPT ![route] = "closed"]
  /\ UNCHANGED <<route, expired, target, owner, attempt, origin, counts, clocks, frames>>

\* The server ends the session of a connection.
SessionEnds(k) ==
  /\ status[k] = "connected" /\ ~expired[k]
  /\ expired' = [expired EXCEPT ![k] = TRUE]
  /\ UNCHANGED <<route, status, target, owner, attempt, origin, counts, clocks, frames>>

TimePasses ==
  /\ \/ route # None /\ ~quiet /\ quiet' = TRUE /\ UNCHANGED backoff
     \/ backoff /\ backoff' = FALSE /\ UNCHANGED quiet
  /\ UNCHANGED <<manager, counts, frames>>

IsIdle == Connected(route) /\ count[route] = 0 /\ quiet

\* The idle check: isIdle() and then close(), in one turn.
IdleShutdown ==
  /\ IsIdle
  /\ CloseByName
  /\ UNCHANGED <<counts, clocks, frames>>

-----------------------------------------------------------------------------
(* Counting. *)

\* touch() and incrementInFlight(), by name
Raise(p) ==
  /\ count' = IF route = None THEN count ELSE [count EXCEPT ![route] = @ + 1]
  /\ holds' = [holds EXCEPT ![p] = TRUE]
  /\ home' = [home EXCEPT ![p] = Lineage(route)]
  /\ quiet' = (quiet /\ route = None)
  /\ UNCHANGED strayed

\* decrementInFlight() and touch(), by name: whichever connection is the route.
Lower(p) ==
  /\ count' = IF route = None \/ count[route] = 0 THEN count
              ELSE [count EXCEPT ![route] = @ - 1]
  /\ strayed' = IF route # None /\ home[p] # Lineage(route)
                THEN strayed \cup {Lineage(route)} ELSE strayed
  /\ holds' = [holds EXCEPT ![p] = FALSE]
  /\ quiet' = (quiet /\ route = None)
  /\ UNCHANGED home

Leave(p) == Lower(p) /\ Goto(p, "done")

-----------------------------------------------------------------------------
(* Reaching the server. *)

\* Every call starts here, and comes back once an automatic sign-in closed the server.
Seek(p, waits) ==
  \/ /\ Connected(route)
     /\ IF p \in Direct
        THEN /\ Wait(p, "listen", route)      \* lazyConnect() awaits ensureListen()
             /\ UNCHANGED <<status, target, owner, attempt, counts, quiet>>
        ELSE /\ Wait(p, "approval", route) /\ Raise(p)
             /\ UNCHANGED <<status, target, owner, attempt>>
  \/ /\ NeedsAuth(route)
     /\ Goto(p, IF authTried[p] THEN "done" ELSE "auth")
     /\ UNCHANGED <<at, status, target, owner, attempt, counts, quiet>>
  \/ /\ ~Connected(route) /\ ~NeedsAuth(route) /\ waits
     /\ Goto(p, "done")
     /\ UNCHANGED <<at, status, target, owner, attempt, counts, quiet>>
  \/ /\ ~Connected(route) /\ ~NeedsAuth(route) /\ ~waits
     /\ Join(p, "connect", None)
     /\ UNCHANGED <<counts, quiet>>

Start(p) ==
  /\ pc[p] = "idle"
  /\ Seek(p, backoff)
  /\ UNCHANGED <<route, expired, origin, backoff, authTried, aborted, why, ran>>

\* MUTANT of ConnectReturns: those who share a failed attempt are not told.
ConnectReturnsConnected(p) ==
  /\ pc[p] = "connect" /\ status[at[p]] = "connected" /\ ~aborted[p]
  /\ backoff' = FALSE
  /\ Goto(p, "approval") /\ Raise(p)
  /\ UNCHANGED <<manager, at, authTried, aborted, why, ran>>

\* A failed connect is recorded; a needs-auth route is signed in to once.
ConnectReturns(p) ==
  /\ pc[p] = "connect" /\ status[at[p]] # "building" /\ ~aborted[p]
  /\ backoff' = (status[at[p]] = "failed" \/ (backoff /\ NeedsAuth(at[p])))
  /\ \/ /\ status[at[p]] \in {"connected", "closed"}
        /\ IF p \in Direct /\ ~Connected(route)
           THEN Goto(p, "done") /\ UNCHANGED <<counts, quiet>>
           ELSE Goto(p, "approval") /\ Raise(p)
     \/ /\ status[at[p]] \in {"needs-auth", "failed"}
        /\ Goto(p, IF ~authTried[p] /\ NeedsAuth(IF p \in Direct THEN route ELSE at[p])
                   THEN "auth" ELSE "done")
        /\ UNCHANGED <<counts, quiet>>
  /\ UNCHANGED <<manager, at, authTried, aborted, why, ran>>

\* Only the direct path looks the connection up again after ensureListen().
ListenReturns(p) ==
  /\ pc[p] = "listen"
  /\ IF Connected(route)
     THEN Goto(p, "approval") /\ Raise(p)
     ELSE Goto(p, "done") /\ UNCHANGED <<counts, quiet>>
  /\ UNCHANGED <<manager, backoff, at, authTried, aborted, why, ran>>

\* attemptAutoAuth(): failed or skipped ends the call, success closes the server by name.
AuthReturns(p) ==
  /\ pc[p] = "auth"
  /\ authTried' = [authTried EXCEPT ![p] = TRUE]
  /\ \/ Goto(p, "done") /\ UNCHANGED manager
     \/ Goto(p, "authClosed") /\ CloseByName
  /\ UNCHANGED <<counts, clocks, at, aborted, why, ran>>

\* close() returned.  The proxied path that signed in after its own connect() leaves the
\* backoff alone and connects again, whatever the route says.
AuthClosed(p) ==
  /\ pc[p] = "authClosed"
  /\ backoff' \in (IF p \in Direct THEN {FALSE} ELSE {FALSE, backoff})
  /\ \/ Seek(p, FALSE)
     \/ /\ p \notin Direct /\ NeedsAuth(route)
        /\ Join(p, "connect", None) /\ UNCHANGED <<counts, quiet>>
  /\ UNCHANGED <<route, expired, origin, authTried, aborted, why, ran>>

-----------------------------------------------------------------------------
(* The request. *)

\* The catch block: a direct call closes the server by name, unless it was aborted.
Fail(p, reason) ==
  /\ why' = [why EXCEPT ![p] = reason]
  /\ IF p \in Direct /\ ~aborted[p]
     THEN Goto(p, "failing") /\ CloseByName /\ UNCHANGED <<counts, quiet>>
     ELSE Leave(p) /\ UNCHANGED manager

FailingReturns(p) ==
  /\ pc[p] = "failing"
  /\ Leave(p)
  /\ UNCHANGED <<manager, backoff, at, authTried, aborted, why, ran>>

\* withSessionRecovery() takes whatever the map holds once the call is approved.
Approve(p) ==
  /\ pc[p] = "approval" /\ ~aborted[p]
  /\ IF route = None
     THEN Fail(p, "lost") /\ UNCHANGED at
     ELSE Wait(p, "sent", route) /\ UNCHANGED <<manager, counts, quiet, why>>
  /\ UNCHANGED <<backoff, authTried, aborted, ran>>

Refuse(p) ==
  /\ pc[p] = "approval"
  /\ Leave(p)
  /\ UNCHANGED <<manager, backoff, at, authTried, aborted, why, ran>>

Serves(k) == Connected(k) /\ ~expired[k]
Ran(p) == IF pc[p] = "resuming" THEN ran ELSE [ran EXCEPT ![p] = @ + 1]

\* The server runs the call and answers.
Answered(p) ==
  /\ pc[p] \in InFlight /\ Serves(at[p])
  /\ ran' = Ran(p)
  /\ Leave(p)
  /\ UNCHANGED <<manager, backoff, at, authTried, aborted, why>>

\* The server answers with a task: the registry keeps the count.
BecomesTask(p) ==
  /\ pc[p] \in {"sent", "resent"} /\ p \notin Executor /\ Serves(at[p]) /\ ~aborted[p]
  /\ ran' = Ran(p)
  /\ Goto(p, "task")
  /\ UNCHANGED <<manager, counts, clocks, at, authTried, aborted, why>>

\* MUTANT of TaskEnds: release() forgets the server's count.
TaskEndsUncounted(p) ==
  /\ pc[p] = "task"
  /\ holds' = [holds EXCEPT ![p] = FALSE] /\ Goto(p, "done")
  /\ UNCHANGED <<manager, clocks, count, home, strayed, at, authTried, aborted, why, ran>>

TaskEnds(p) ==
  /\ pc[p] = "task"
  /\ Leave(p)
  /\ UNCHANGED <<manager, backoff, at, authTried, aborted, why, ran>>

\* Executor pauses for the user, who answers with `resume`.
Paused(p) ==
  /\ p \in Executor /\ pc[p] \in InFlight /\ Serves(at[p])
  /\ ran' = Ran(p)
  /\ Goto(p, "dialog")
  /\ UNCHANGED <<manager, counts, clocks, at, authTried, aborted, why>>

Resume(p) ==
  /\ pc[p] = "dialog" /\ ~aborted[p]
  /\ Goto(p, "resuming")
  /\ UNCHANGED <<manager, counts, clocks, at, authTried, aborted, why, ran>>

-----------------------------------------------------------------------------
(* Session recovery: one reconnect, one more try. *)

\* A refused first request asks for a replacement of the connection it used.
Recover(p) ==
  \/ /\ route \notin {None, at[p]} /\ attempt = None
     /\ Wait(p, "recover", route) /\ UNCHANGED <<status, target, owner, attempt>>
  \/ /\ route \in {None, at[p]} \/ attempt # None
     /\ Join(p, "recover", route)

Refused(p) ==
  /\ pc[p] = "sent" /\ Connected(at[p]) /\ expired[at[p]] /\ ~aborted[p]
  /\ Recover(p)
  /\ UNCHANGED <<route, expired, origin, counts, clocks, authTried, aborted, why, ran>>

\* MUTANT of RefusedAgain: a refused resume is recovered like a refused call.
ResumeRecovers(p) ==
  /\ Connected(at[p]) /\ expired[at[p]] /\ ~aborted[p]
  /\ \/ /\ pc[p] = "resent" /\ Fail(p, "refused") /\ UNCHANGED at
     \/ /\ pc[p] = "resuming" /\ Recover(p)
        /\ UNCHANGED <<route, expired, origin, counts, quiet, why>>
  /\ UNCHANGED <<backoff, authTried, aborted, ran>>

\* The second refusal, and a refused `resume`, end the call.
RefusedAgain(p) ==
  /\ pc[p] \in {"resent", "resuming"}
  /\ Connected(at[p]) /\ expired[at[p]] /\ ~aborted[p]
  /\ Fail(p, IF pc[p] = "resuming" THEN "refusedResume" ELSE "refused")
  /\ UNCHANGED <<backoff, at, authTried, aborted, ran>>

\* MUTANT of RequestFails: a lost connection is taken for an ended session.
LostIsRefused(p) ==
  /\ pc[p] \in InFlight /\ ~aborted[p]
  /\ ran' \in (IF Serves(at[p]) THEN {ran, Ran(p)} ELSE {ran})
  /\ \/ pc[p] = "sent" /\ Recover(p) /\ UNCHANGED <<route, expired, origin, counts, quiet, why>>
     \/ pc[p] # "sent" /\ Fail(p, "failed") /\ UNCHANGED at
  /\ UNCHANGED <<backoff, authTried, aborted>>

\* A timeout, a lost connection, a server error: the call may have run.
RequestFails(p) ==
  /\ pc[p] \in InFlight /\ ~aborted[p]
  /\ ran' \in (IF Serves(at[p]) THEN {ran, Ran(p)} ELSE {ran})
  /\ Fail(p, "failed")
  /\ UNCHANGED <<backoff, at, authTried, aborted>>

\* The connection that recovery ended up with, and what becomes of the call.
Retry(p, k) ==
  \/ Connected(k) /\ Wait(p, "resent", k) /\ UNCHANGED <<manager, counts, quiet, why>>
  \/ (NeedsAuth(k) \/ k = None) /\ Leave(p) /\ UNCHANGED <<manager, at, why>>
  \/ ~Connected(k) /\ ~NeedsAuth(k) /\ k # None /\ Fail(p, "refused") /\ UNCHANGED at

\* reconnect() returned; a needs-auth connection goes to recoverAuthConnection().
RecoverReturns(p) ==
  /\ pc[p] = "recover" /\ status[at[p]] # "building" /\ ~aborted[p]
  /\ \/ status[at[p]] = "failed" /\ Fail(p, "lost") /\ UNCHANGED at
     \/ status[at[p]] \in {"connected", "closed"} /\ Retry(p, at[p])
     \/ /\ NeedsAuth(at[p])
        /\ IF Connected(route) \/ authTried[p]
           THEN Retry(p, route)
           ELSE Goto(p, "reauth") /\ UNCHANGED <<manager, counts, quiet, at, why>>
  /\ UNCHANGED <<backoff, authTried, aborted, ran>>

ReauthReturns(p) ==
  /\ pc[p] = "reauth"
  /\ authTried' = [authTried EXCEPT ![p] = TRUE]
  /\ \/ Leave(p) /\ UNCHANGED <<manager, backoff, at, why>>           \* failed
     \/ Retry(p, route) /\ UNCHANGED backoff                          \* skipped
     \/ /\ Connected(route)
        /\ Retry(p, route) /\ UNCHANGED backoff
     \/ /\ NeedsAuth(route) /\ CloseByName /\ Goto(p, "reauthClosed")
        /\ UNCHANGED <<counts, clocks, at, why>>
     \/ /\ ~Connected(route) /\ ~NeedsAuth(route)
        /\ backoff' = FALSE
        /\ Join(p, "relazy", None)
        /\ UNCHANGED <<route, expired, origin, counts, quiet, why>>
  /\ UNCHANGED <<aborted, ran>>

\* The needs-auth route is closed: connect again, now that Pi has a token.
ReauthClosed(p) ==
  /\ pc[p] = "reauthClosed"
  /\ backoff' = FALSE
  /\ \/ /\ Connected(route) /\ Wait(p, "relazy", route)
        /\ UNCHANGED <<status, target, owner, attempt, counts, quiet>>
     \/ /\ NeedsAuth(route) /\ p \in Direct /\ Leave(p)
        /\ UNCHANGED <<status, target, owner, attempt, at>>
     \/ /\ ~Connected(route) /\ (NeedsAuth(route) => p \notin Direct)
        /\ Join(p, "relazy", None) /\ UNCHANGED <<counts, quiet>>
  /\ UNCHANGED <<route, expired, origin, authTried, aborted, why, ran>>

\* A direct call goes on with the route, a proxied one with what connect() returned.
RelazyReturns(p) ==
  /\ pc[p] = "relazy" /\ status[at[p]] # "building" /\ ~aborted[p]
  /\ IF status[at[p]] = "failed"
     THEN /\ backoff' = (backoff \/ p \in Direct)
          /\ Leave(p) /\ UNCHANGED <<manager, at, why>>
     ELSE /\ UNCHANGED backoff
          /\ Retry(p, IF p \in Direct /\ ~NeedsAuth(at[p]) THEN route ELSE at[p])
  /\ UNCHANGED <<authTried, aborted, ran>>

-----------------------------------------------------------------------------
(* The caller gives up. *)

Abort(p) ==
  /\ pc[p] \notin {"idle", "task", "done"} /\ ~aborted[p]
  /\ aborted' = [aborted EXCEPT ![p] = TRUE]
  /\ UNCHANGED <<manager, counts, clocks, pc, at, authTried, why, ran>>

\* Whatever an aborted call was waiting for throws; its request may still run.
AbortThrows(p) ==
  /\ aborted[p]
  /\ \/ /\ pc[p] \in {"connect", "auth"}
        /\ Goto(p, "done") /\ UNCHANGED <<counts, quiet, ran>>
     \/ /\ pc[p] \in InFlight \cup {"approval", "dialog", "recover", "reauth", "relazy"}
        /\ ran' \in (IF pc[p] \in InFlight /\ Serves(at[p]) THEN {ran, Ran(p)} ELSE {ran})
        /\ Leave(p)
  /\ UNCHANGED <<manager, backoff, at, authTried, aborted, why>>

Runs(p) ==
  \/ Start(p) \/ ConnectReturns(p) \/ ListenReturns(p) \/ AuthReturns(p) \/ AuthClosed(p)
  \/ FailingReturns(p) \/ RecoverReturns(p) \/ ReauthReturns(p) \/ ReauthClosed(p)
  \/ RelazyReturns(p) \/ AbortThrows(p)

Request(p) ==
  \/ Answered(p) \/ BecomesTask(p) \/ Paused(p) \/ RequestFails(p) \/ Refused(p)
  \/ RefusedAgain(p)

User(p) == Approve(p) \/ Refuse(p) \/ Resume(p) \/ Abort(p)

Settles == \E k \in Conn :
  AttemptFails(k) \/ \E s \in {"connected", "needs-auth"} : Publish(k, s)

Next ==
  \/ \E p \in Call : Runs(p) \/ Request(p) \/ User(p) \/ TaskEnds(p)
  \/ Settles
  \/ \E k \in Conn : SessionEnds(k)
  \/ UserCloses \/ RemoteClose \/ TimePasses \/ IdleShutdown

Spec == Init /\ [][Next]_vars

\* Continuations run, requests and connects time out; users and servers owe nothing.
FairSpec ==
  /\ Spec
  /\ WF_vars(Settles)
  /\ \A p \in Call : WF_vars(Runs(p) \/ Request(p))

-----------------------------------------------------------------------------
(* Properties. *)

\* A call runs on the server at most once, whatever recovery does: only a request the
\* server refused before it ran anything is sent again (session-recovery.ts:8-13), and
\* not even then when Executor has already begun the program.
AtMostOnce == \A p \in Call : ran[p] <= 1

Holders(lineage) == {p \in Call : holds[p] /\ home[p] = lineage}

\* The count of the route is never above the calls it stands for: after the last one the
\* server may be shut down when idle.
NeverOverCounted == route # None => count[route] <= Cardinality(Holders(origin[route]))

\* While every call that left this lineage had entered it, the count is exact, through
\* every replacement: the idle check sees each call, also in a dialog or as a task.
CountCovers ==
  route # None /\ origin[route] \notin strayed
    => count[route] = Cardinality(Holders(origin[route]))

Counted == InFlight \cup {"approval", "dialog", "task", "recover", "reauth", "reauthClosed",
                          "relazy", "failing"}
NotYetRun == {"idle", "connect", "listen", "auth", "authClosed", "approval", "sent", "recover",
              "reauth", "reauthClosed", "relazy", "resent"}

\* A call holds a count exactly between its increment and its decrement.
HoldersAreCounted == \A p \in Call : holds[p] <=> pc[p] \in Counted

\* A request that is sent, or sent again, has not run before.
SentBeforeRun == \A p \in Call : ran[p] <= 1 /\ (pc[p] \in NotYetRun => ran[p] = 0)

\* A running attempt is to replace the route or finds none; nothing has counted on it.
AttemptIsPrivate ==
  /\ attempt # None => status[attempt] = "building" /\ target[attempt] \in {None, route}
  /\ \A k \in Conn : status[k] \in {"none", "building", "failed"} => origin[k] = None

\* Every lineage a call or a connection belongs to began with a published connection.
LineagesArePublished ==
  /\ route # None => origin[route] # None
  /\ \A k \in Conn : origin[k] # None => origin[origin[k]] # None
  /\ \A p \in Call : home[p] # None => origin[home[p]] # None

\* What the count of the route stands for.
RouteCounted == NeverOverCounted /\ CountCovers

IInv ==
  /\ TypeOK
  /\ HoldersAreCounted
  /\ SentBeforeRun
  /\ AttemptIsPrivate
  /\ LineagesArePublished
  /\ RouteCounted

\* A call that is running a request comes to rest: an answer, a task, a user's turn.
CallsSettle ==
  \A p \in Call : []<>(pc[p] \in Resting \/ status[LastConn] # "none")

\* docs/configuration.md:147-149: the idle check never stops a server while a tool call
\* is running on it.
IdleNeverStopsACall ==
  IsIdle => ~\E p \in Call : pc[p] \in InFlight \cup {"dialog"} /\ at[p] = route
=============================================================================
