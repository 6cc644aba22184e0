------------------------------- MODULE Catalog -------------------------------
(***************************************************************************)
(* The tool list of one connected server and the subscription that keeps   *)
(* it current (server-manager.ts): ensureListen() and the catalog it       *)
(* reconciles, list-changed notifications, keep-alive refreshes, and the   *)
(* publication of what changed.  A list is the server's version it shows.  *)
(*                                                                         *)
(* One modern connection, until it stops being the route (`current`).      *)
(* Listing prompts and resources is one answer that may fail (`optional`). *)
(***************************************************************************)
EXTENDS Integers

CONSTANT MaxVersion \* bound: how often the server's tools change

VARIABLES
  current,   \* the connection is the route and connected
  up,        \* the server answers
  server,    \* version of the server's tools
  listen,    \* listenState
  sub,       \* listenSubscription: "none", "open", "remote" (the server closed it) or "ended"
  halted,    \* listenStopped
  stale,     \* listenCatalogStale
  waiting,   \* listenRetryAfter is in the future
  wanted, filter, \* currentListenFilter() and listenFilter
  job,       \* the attempt behind listenPromise
  tools,     \* version of connection.tools
  shown,     \* version the listener last published
  owed,      \* pendingMetadataPublications has the connection
  unqueued,  \* a publication failed that no one queued
  refresh,   \* refreshTools() of a keep-alive pass
  note       \* a tools/list that a notification caused: its answer, or 0 before it

conn == <<current, up, server>>
subs == <<listen, sub, halted, stale, waiting, wanted, filter>>
list == <<tools, shown, owed, unqueued>>
vars == <<conn, subs, job, list, refresh, note>>

Version == 1 .. MaxVersion
NoJob == [at |-> "none", recover |-> FALSE, filter |-> 0, got |-> 0]
\* moved: toolsRevision is no longer what refreshTools() saw.
NoRefresh == [at |-> "none", got |-> 0, moved |-> FALSE]

TypeOK ==
  /\ current \in BOOLEAN /\ up \in BOOLEAN /\ server \in Version
  /\ listen \in {"active", "not-listening", "dropped", "re-establishing"}
  /\ sub \in {"none", "open", "remote", "ended"}
  /\ halted \in BOOLEAN /\ stale \in BOOLEAN /\ waiting \in BOOLEAN
  /\ owed \in BOOLEAN /\ unqueued \in BOOLEAN
  /\ wanted \in {0, 1} /\ filter \in {0, 1}
  /\ job \in [at : {"none", "closing", "listening", "fetching", "fetched"}, recover : BOOLEAN,
              filter : {0, 1}, got : 0 .. MaxVersion]
  /\ tools \in Version /\ shown \in Version
  /\ refresh \in [at : {"none", "fetching", "fetched"}, got : 0 .. MaxVersion, moved : BOOLEAN]
  /\ note \in -1 .. MaxVersion

\* The connection is the route at first, or was replaced already.
Starts(c) ==
  /\ current = c /\ up = TRUE /\ server = 1
  /\ listen = "active" /\ sub = "open" /\ halted = FALSE /\ stale = FALSE /\ waiting = FALSE
  /\ wanted = 0 /\ filter = 0 /\ job = NoJob
  /\ tools = 1 /\ shown = 1 /\ owed = FALSE /\ unqueued = FALSE
  /\ refresh = NoRefresh /\ note = -1

Init == Starts(TRUE)

Moves == refresh' = [refresh EXCEPT !.moved = @ \/ refresh.at # "none"]

-----------------------------------------------------------------------------
(* The subscription *)

NeedsListen == listen # "active" \/ filter # wanted \/ stale

\* An activity boundary (a call, a resource read, a refresh) finds no attempt to join.
EnsureListen ==
  /\ current /\ ~halted /\ ~waiting /\ job.at = "none"
  /\ NeedsListen
  /\ job' = IF listen = "active" /\ filter = wanted
            THEN [NoJob EXCEPT !.at = "fetching"]
            ELSE [at |-> "closing", recover |-> listen = "dropped", filter |-> wanted, got |-> 0]
  /\ listen' = "re-establishing"
  /\ UNCHANGED <<conn, sub, halted, stale, waiting, wanted, filter, list, refresh, note>>

\* The previous subscription is closed; its watcher finds the listen re-establishing.
PreviousClosed ==
  /\ job.at = "closing"
  /\ job' = IF current THEN [job EXCEPT !.at = "listening"] ELSE NoJob
  /\ sub' = IF sub = "open" THEN "ended" ELSE sub
  /\ UNCHANGED <<conn, listen, halted, stale, waiting, wanted, filter, list, refresh, note>>

ListenSucceeds ==
  /\ job.at = "listening" /\ up
  /\ IF ~current THEN job' = NoJob /\ UNCHANGED subs
     ELSE /\ sub' = "open" /\ filter' = job.filter /\ halted' = FALSE /\ waiting' = FALSE
          /\ job' = IF job.recover THEN [job EXCEPT !.at = "fetching"] ELSE NoJob
          /\ listen' = IF job.recover THEN listen ELSE "active"
          /\ UNCHANGED <<stale, wanted>>
  /\ UNCHANGED <<conn, list, refresh, note>>

ListenFails ==
  /\ job.at = "listening" /\ ~up /\ job' = NoJob
  /\ IF current THEN waiting' = TRUE /\ listen' = "dropped" ELSE UNCHANGED <<waiting, listen>>
  /\ UNCHANGED <<conn, sub, halted, stale, wanted, filter, list, refresh, note>>

\* The server ends the subscription without a word, or says so.
RemoteDrop ==
  /\ sub = "open" /\ sub' = "remote" /\ ~up
  /\ IF current THEN stale' = TRUE /\ waiting' = FALSE /\ listen' = "dropped"
     ELSE UNCHANGED <<stale, waiting, listen>>
  /\ UNCHANGED <<conn, halted, wanted, filter, job, list, refresh, note>>

GracefulClose ==
  /\ sub = "open" /\ sub' = "ended"
  /\ IF current THEN halted' = TRUE /\ listen' = "not-listening" ELSE UNCHANGED <<halted, listen>>
  /\ UNCHANGED <<conn, stale, waiting, wanted, filter, job, list, refresh, note>>

\* reconcileCatalogAfterListen(): the tools answer, and wait for the other lists.
ToolsFetched ==
  /\ job.at = "fetching"
  /\ \/ up /\ job' = [job EXCEPT !.at = "fetched", !.got = server]
     \/ ~up /\ job' = [job EXCEPT !.at = "fetched", !.got = 0]
  /\ UNCHANGED <<conn, subs, list, refresh, note>>

\* MUTANT of Changed: a list that could not be fetched counts as another list.
ChangedByFailure == job.got # tools

Changed == job.got \notin {0, tools}

\* Applied whatever list-changed notifications brought meanwhile.
Applied ==
  /\ tools' = IF Changed THEN job.got ELSE tools
  /\ IF Changed THEN Moves ELSE UNCHANGED refresh

\* The other lists were fetched too, or failed.
Published(optional) ==
  LET confirmed == job.got # 0 /\ optional IN
  /\ stale' = ~confirmed /\ Applied
  /\ shown' = IF Changed \/ owed THEN tools' ELSE shown
  /\ owed' = FALSE /\ UNCHANGED <<unqueued, sub>>
  /\ waiting' = (waiting \/ ~confirmed) /\ listen' = "active"

\* A listener that throws ends the attempt, and nobody queues the publication.  A list that did
\* not change leaves the flag as it was: the publication owed is retried before it is updated.
ListenerThrew(optional) ==
  /\ Changed \/ owed
  /\ stale' = (IF Changed THEN ~(job.got # 0 /\ optional) ELSE stale) /\ Applied
  /\ unqueued' = (unqueued \/ Changed) /\ UNCHANGED <<shown, owed>>
  /\ IF job.recover
     THEN /\ waiting' = TRUE /\ listen' = "dropped"
          /\ sub' = IF sub = "open" THEN "ended" ELSE sub
     ELSE UNCHANGED <<waiting, listen, sub>>

CatalogReconciled(threw) ==
  /\ job.at = "fetched" /\ job' = NoJob
  /\ \/ /\ ~current /\ ~threw
        /\ waiting' = TRUE /\ listen' = "active" /\ UNCHANGED <<sub, stale, list, refresh>>
     \/ /\ current
        /\ \E optional \in {up, TRUE} : IF threw THEN ListenerThrew(optional) ELSE Published(optional)
  /\ UNCHANGED <<conn, halted, wanted, filter, note>>

-----------------------------------------------------------------------------
(* Notifications and keep-alive refreshes *)

ServerChanges ==
  /\ current /\ server < MaxVersion /\ server' = server + 1
  /\ note' = IF sub = "open" /\ note = -1 THEN 0 ELSE note
  /\ UNCHANGED <<current, up, subs, job, list, refresh>>

NoteFetched ==
  /\ note = 0 /\ note' = IF up THEN server ELSE -1
  /\ UNCHANGED <<conn, subs, job, list, refresh>>

\* handleToolsListChanged() and publishMetadataChanged()
ListChanged ==
  /\ note > 0 /\ note' = -1
  /\ IF ~current THEN UNCHANGED <<list, refresh>>
     ELSE /\ tools' = note /\ Moves /\ UNCHANGED unqueued
          /\ \/ shown' = note /\ owed' = FALSE
             \/ owed' = TRUE /\ UNCHANGED shown
  /\ UNCHANGED <<conn, subs, job>>

RefreshStarts ==
  /\ current /\ refresh.at = "none" /\ job.at = "none"
  /\ refresh' = [NoRefresh EXCEPT !.at = "fetching"]
  /\ UNCHANGED <<conn, subs, job, list, note>>

RefreshFetched ==
  /\ refresh.at = "fetching"
  /\ refresh' = IF up THEN [refresh EXCEPT !.at = "fetched", !.got = server] ELSE NoRefresh
  /\ UNCHANGED <<conn, subs, job, list, note>>

\* MUTANT of RefreshSuperseded: ignores the revision of the list.
RefreshSupersededByRoute == ~current

RefreshSuperseded == ~current \/ refresh.moved

\* A listener that throws gets the list of before again, and the refresh fails.
RefreshReturns ==
  /\ refresh.at = "fetched" /\ refresh' = NoRefresh
  /\ \/ RefreshSuperseded /\ UNCHANGED list
     \/ /\ ~RefreshSuperseded /\ (refresh.got # tools \/ owed)
        /\ tools' = refresh.got /\ shown' = refresh.got /\ owed' = FALSE /\ UNCHANGED unqueued
     \/ ~RefreshSuperseded /\ UNCHANGED list
  /\ UNCHANGED <<conn, subs, job, note>>

RetryDue == waiting /\ waiting' = FALSE
              /\ UNCHANGED <<conn, listen, sub, halted, stale, wanted, filter, job, list, refresh, note>>

\* A resource read, or a UI session that opened or closed, changes what to listen for.
FilterChanges ==
  /\ current /\ wanted' = 1 - wanted
  /\ UNCHANGED <<conn, listen, sub, halted, stale, waiting, filter, job, list, refresh, note>>

Replaced == current /\ current' = FALSE
              /\ UNCHANGED <<up, server, subs, job, list, refresh, note>>
\* The server answers or not; what it does after the connection was replaced is of the next.
UpDown == current /\ up' = ~up /\ UNCHANGED <<current, server, subs, job, list, refresh, note>>

JobStep == \/ PreviousClosed \/ ListenSucceeds \/ ListenFails \/ ToolsFetched
           \/ \E threw \in BOOLEAN : CatalogReconciled(threw)

Next == \/ EnsureListen \/ JobStep \/ RemoteDrop \/ GracefulClose
        \/ ServerChanges \/ NoteFetched \/ ListChanged
        \/ RefreshStarts \/ RefreshFetched \/ RefreshReturns
        \/ RetryDue \/ FilterChanges \/ Replaced \/ UpDown

\* The connection is used again and again, and promises and timers settle.
Fairness == WF_vars(EnsureListen) /\ WF_vars(JobStep) /\ WF_vars(RetryDue)

-----------------------------------------------------------------------------
(* Properties *)

\* A keep-alive refresh never puts an older list in place of one that a notification
\* or a recovered subscription brought while it was fetching.
RefreshKeepsNewer == [][RefreshReturns => tools' >= tools]_vars

\* What the model is shown is the connection's list, or the publication is queued,
\* unless the listener threw while a subscription recovered.
ShownOrOwed == current /\ ~unqueued => shown = tools \/ owed

\* What was listed is not ahead of the server's tools, and the answer of a refresh that nothing
\* moved is not behind the connection's list.
ListsFollowServer ==
  /\ tools <= server /\ shown <= server /\ note <= server
  /\ job.got <= server /\ refresh.got <= server
  /\ refresh.at = "fetched" /\ ~refresh.moved => tools <= refresh.got

\* Inductive: ShownOrOwed and RefreshKeepsNewer follow.
CatalogInv == TypeOK /\ ListsFollowServer /\ ShownOrOwed

\* A catalog that a dropped subscription left stale is confirmed, once the server answers, the
\* connection is used, what to listen for settles and the listener stops throwing: one that throws
\* at every publication owed keeps the flag set, however often the lists are fetched.
StaleIsConfirmed ==
  /\ <>[](current /\ up /\ ~halted)
  /\ <>[][UNCHANGED wanted]_vars
  /\ <>[][~CatalogReconciled(TRUE)]_vars
  => <>[]~stale

\* "marks only a remote listen close as dropped and repairs once at the next activity
\* boundary": a listen that reads active has a subscription the server has not closed.
ActiveListenIsOpen == current /\ listen = "active" => sub # "remote"
=============================================================================
