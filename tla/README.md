# Formal model of mcp-adapter

TLA+ models of the parts of mcp-adapter whose correctness depends on the order in which
asynchronous steps happen: connection attempts, closes, background tasks, sign-ins, session
stops, dialogs, files that several processes share. JavaScript runs one continuation at a
time, so an action of a model is the code between two `await`s (one handler or continuation
up to its next suspension), and the interleavings of the model are the orders in which the
event loop, the user, the servers and other processes may act.

`PROJECT.json` lists every component with its status, every hazard with its line and the
properties that watch it, the source lines behind every definition (`map`), the runs, and
the theorems.

## The system and the modules

| Part | Source | State | Module(s) |
| --- | --- | --- | --- |
| Connection manager: routes | `server-manager.ts`, `abort.ts` | `connections`, the two promise maps, attempt controllers, generations | ServerRoutes, RouteTable |
| Connection manager: catalog | `server-manager.ts` | subscription, stale marks, lists, owed publications | Catalog |
| Tool calls, in-flight counts, recovery | `direct-tools.ts`, `proxy-modes.ts`, `session-recovery.ts`, `executor-pauses.ts` | `inFlight`, failure back-off | ToolCalls |
| The `mcp` tool | `proxy-modes.ts`, `tool-metadata.ts` | names, back-off, sign-ins of a call | ProxyCalls |
| Background tasks | `task-jobs.ts`, `task-entries.ts` | `running`, `resuming`, generations, `stopping` | BackgroundTasks |
| Task-aware calls | `mcp-tasks.ts` | raw requests, observers | TaskCalls |
| Lifecycle manager | `lifecycle.ts` | keep-alive set, retries, active convergence | KeepAlive (idle check: ToolCalls) |
| Session start and stop | `index.ts`, `runtime-owner.ts`, `state.ts` | lifecycle generation, owner, init promise | SessionRuntime |
| Server registry, installation | `index.ts` | ledger of registrations, provisional entries, Pi's servers | ServerRegistry |
| Sign-in | `mcp-auth-flow.ts`, `mcp-callback-server.ts`, `mcp-oauth-provider.ts` | flows, pending authorizations, listener, generations | SignIn |
| Credentials | `mcp-auth.ts` | record and chunks in the store, legacy file, cache | CredentialStore |
| Bearer tokens | `bearer-command-resolver.ts`, `mcp-bearer-store.ts`, `request-headers-command.ts` | command cache, manifest and chunks, process tree | BearerCommand, BearerStore, RequestHeaders |
| Metadata cache | `metadata-cache.ts`, `init.ts` | one JSON file shared by processes | MetadataCache |
| Config watch | `config-watch.ts`, `bin/mcp-server.ts` | baseline fingerprint, timer | ConfigWatch |
| Config layers | `config.ts` | the merged entry and its provenance | ConfigMerge |
| Approvals | `tool-approval.ts`, `session-approvals.ts`, `consent-manager.ts`, `project-server-trust.ts` | grants of a branch, approvals file | Approvals, ProjectTrust |
| Embedding | `host-managed.ts`, `runtime-protocol.ts` | transports, listings; sessions, pins | HostManaged, ProtocolSession |
| App pages | `ui-session.ts`, `ui-server.ts` | page servers, windows, messages; event log | UiSession, UiEventLog |
| Server prompts | `elicitation-handler.ts`, `sampling-handler.ts` | deadlines, forms, dialogs | PromptPause, Elicitation, Sampling |
| Panels | `mcp-panel.ts`, `mcp-setup-panel.ts`, `commands.ts`, `config.ts` | switches, discards, discovery, cursors, diffs | McpPanel, SetupPanel, Previews |
| npx | `npx-resolver.ts` | kept resolutions, npm's directories | NpxResolver, NpxArgs |

How they interact. Tool calls reach a server through `connect()`; a failed call or the
lifecycle manager asks `reconnect()` to replace the connection it saw fail;
`doReconnect()` publishes the replacement, tells the background task registry to hand its
tasks over, and only then disposes the old connection. A task holds its server's in-flight
count, which keeps the lifecycle manager from closing the server when idle. A session stop
hands tasks off, aborts the runtime owner and then closes everything. A sign-in saves
credentials that the next connection uses, and closes the connection that was refused.
Extensions, Pi and installations put servers into the session's configuration, under the
names that files have not taken.

### Conventions

* A component has a module; its state is the program's, its actions are named for the
  method or the continuation. History variables are marked `history` where they are
  declared and are read by properties only.
* Identities (connections, runtimes, flows, definitions) are model values. Where the program
  makes new ones without end, an identity is used again once nothing refers to it.
* `\* bound` marks a guard that only keeps a model finite; constants named `Max...` and
  `LastConn` are bounds. Time is counted down or is one bit ("the limit has passed").
* Variables such as `missed`, `raced`, `moved`, `crossed`, `damaged`, `overtaken`, `forgone`,
  `shifted`, `trimmed` record that a known race, or loss at a limit, of the code has happened;
  properties exempt exactly what it explains, and the section on limits below names each.

### Composition

Two components that share no state are followed one at a time: the MC modules have a
variable `focus`, fixed at first, and `Next` steps the component it names. That costs the
sum of the state spaces, not their product. Where two components do meet, each is modelled
with the other as its environment: KeepAlive and Catalog meet in `refreshTools()`, SignIn
and CredentialStore in what `saveTokens()` and a logout write, ServerRoutes and ToolCalls in
"one attempt per server", ToolCalls and BackgroundTasks in the count a task holds.
The components that have theorems are EXTENDed by the MC modules, so that a run checks the
very definitions that are proved; for that the second one of each pair has names of its
own (`Registry...`, `Store...`, `Task...`). The others are INSTANCEs.

MC modules: MCServerRoutes; MCToolCalls (ToolCalls, ProxyCalls); MCUpkeep (KeepAlive,
Catalog, BackgroundTasks, ConfigWatch); MCSignIn (SignIn, CredentialStore); MCSession
(SessionRuntime, ServerRegistry); MCSurface (the other twenty).

## Components in more detail

**ServerRoutes and RouteTable.** One server name in `McpServerManager`. Each `Call` is a
`connect()`, `reconnect()`, `close()` or `closeAll()` and its own connection identity (a
build makes at most one connection). `route` is `connections.get(name)`; `connectSlot` and
`reconnectSlot` are the promise maps; `pc` says at which `await` a call is suspended. The
environment supplies failing handshakes, 401s, remote closes, caller aborts, revocations and
the end of the runtime. RouteTable is what callers are promised: a usable route is given up
only by `close()` or for a connection a caller reported stale, no connection is published
twice, nothing after `closeAll()`. ServerRoutes implements it (`RoutesAsPromised`).

**ToolCalls.** The calls of one server from `lazyConnect()` to the `finally` block that gives
the count back, direct (`Direct`), proxied, and Executor's programs that may pause
(`Executor`). Attempt `k` builds connection `k`, one at a time, which is what ServerRoutes
establishes. The code raises and lowers `inFlight` *by name*, so a call may lower the count
of another connection than the one it raised: a replacement inherits the count and with it
the lineage (`origin`), a call raises the count of one lineage (`home`), `strayed` collects
lineages lowered by a call that had not raised them. `CountCovers`: the count is exact
outside `strayed`; `NeverOverCounted` holds everywhere.

**BackgroundTasks.** `pc[t][c]` is the continuation that works for task `t` on connection
`c`, `mine` the generation it captured, `entry` the `TaskEntry` with its membership of
`running` and `resuming`. A task is started by a call or restored from the record. ext-tasks
(`handoff`, `detach`, `cancel`, `settle`, `resumeTask`) is external. `Supersedes` lets a
reconnect with other credentials start while the last one is handing over; the cancels that
follows from are exempted (`superseded`), as are those of calls answered late (`late`).

**KeepAlive.** Convergence passes: snapshot, connect or refresh, record or publish, while the
name is disposed and registered again, the connection is moved and the session stops.

**Catalog.** One connection's subscription, list and stale marks. The metadata listener may
throw in a reconciliation: with nothing changed it is called only if a publication is owed, and
then before the stale mark is updated (`server-manager.ts:1026-1031`), so the catalog stays
stale and the recovery is tried again. `StaleIsConfirmed` says that it is confirmed in the end
unless the listener throws again and again: a listener that always throws leaves it stale for
ever.

**SessionRuntime.** An owner and its initialization; `session_start`, `session_shutdown`,
first-use initialization, finalization whose callbacks may throw or reenter. **ServerRegistry.**
One name and everyone who may hold it: `registerMcpServer()`, its `dispose()`, Pi's servers,
installations with their rollback, edits of the panel. A session takes everything down when it
starts and records its context only later (`sessionCtx`); a runtime may initialize and publish
its state before that, at load time or for a first operation. Pi's definitions (`Versions`) are
ones the adapter can translate.

**SignIn.** Flows of several sessions with their kinds ("authenticate", "start", "silent"),
the callback server that starts, stops when idle and stops for good, and logouts.
**CredentialStore.** Every store call may fail and the process may die between two of them;
records are one value, or a manifest with chunks, or an encrypted file.

**The surface.** Each header comment says what the module follows and what it leaves out.
Approvals: grants over branches, forks and replaced definitions. ProjectTrust: the file of
approvals shared by processes. UiSession, UiEventLog: one page per runtime, the records of
completed pages and the contexts of a page up to their limits (`MaxCompleted`, `MaxContexts`),
the stream listener of a call that updates an open page, which lives as long as the call; a log
replayed from a checkpoint. MetadataCache: read, compute, rename without a lock. HostManaged: a host
that owns the transport. ProtocolSession: pins and owners of extensions' operations.
BearerCommand, BearerStore, RequestHeaders: one run for all who wait, chunks and manifests,
killing a tree of processes. TaskCalls: who cancels a task whose caller left. PromptPause,
Elicitation, Sampling: what the user is asked. ConfigMerge: layers, provenance, credentials.
McpPanel, SetupPanel, Previews: what is saved is what is shown. NpxResolver, NpxArgs: which
binary runs, and with which arguments. Previews, NpxArgs, Elicitation's labels, ConfigMerge
and ProxyCalls' lookup are pure algorithms: inputs are built step by step, or drawn from all
inputs of a bounded size, and the result is compared with its definition.

## Runs

| Run | Shows |
| --- | --- |
| `routes` | three calls of an OAuth server: one live attempt, no lost client, final shutdown, RouteTable, and that calls and closes settle |
| `calls_safety` | two calls over three connections: at most once, counts never too high and exact outside `strayed`, calls come to rest; and the names, sign-ins and back-off of the `mcp` tool |
| `upkeep` | keep-alive, catalog, background tasks and config watch: nothing stale recorded, what was listed is shown or owed, one owner per task, its count returned, silent hand-overs, restarts follow edits |
| `signin` | two flows of two sessions with a logout, and the credential record under failures and crashes |
| `session` | three runtimes; two registrations, two installations, two versions of Pi's server and the files contend for a name |
| `surface` | twenty parts around a session |
| `routes_selfwait`, `routes_sharer`, `tasks_late`, `calls_idle`, `catalog_dropped`, `session_forgotten` | six statements of the repository the code does not keep (see `findings`) |

Many properties are conjunctions; their parts keep the names
they have in the component: `CacheIsFaithful` is `ShapesMatchTools`, `PrivateStaysPrivate`,
`StartupDestroysNothing` and `UpdatesAreNarrow` of MetadataCache with `PinnedIsHonoured` of
NpxResolver, and so on. The MC modules list them. `SessionTypeOK`, `SignInTypeOK`,
`UpkeepTypeOK`, `SurfaceTypeOK`, `ProxyIsTrue` and the two `IInv` contain the inductive invariants
of the proofs, so TLC checked each before it was proved. `NothingIsCut` gathers what is computed
rather than kept: arguments, diffs, hunks, pages and the height of the panel.

Bounds. `routes`: an owner, a sharer or displacer, and a close need three calls. `calls_safety`:
three connections let a call be replaced twice while the other closes, signs in or ends;
`CallsSettle` exempts behaviours that used the last connection. `upkeep`: two connections for a
task (it is moved once; the proofs cover any number), four identities of connections and two
definitions for the passes, two versions of a list, four edits. `signin`: two token responses
and one logout at a time. `surface`: two of each kind of actor; kinds of which no initial state,
choice or property tells the two apart are symmetric (`Symmetry` in MCSurface; the run checks no
liveness). One record and one context are kept where the code keeps 10 and 20, so that two calls
reach both limits; `PagesServed` is proved for any limits. Deadlock is not checked: calls
return, tasks end, sessions stop for good, and the component that is not in focus rests.

Fairness. Continuations whose promise has settled run (the event loop is fair), and requests
have timeouts, so handshakes, store calls and `resumeTask()` answer. Nothing else must happen:
servers need not end tasks, users need not answer, callers need not abort, nobody has to close
anything. A fairness condition of a component that is not in focus asks for nothing, since a
resting state enables none of its steps. Liveness is stated in the forms `[]<>P` and `<>[]P`,
which say the same as the corresponding leads-to formulas here (a call that is done stays done,
a task's count that is returned stays returned, a state that is left is left for `~P`).

## Proofs

Eight modules of theorems, each for every value of the constants. A component's proof is
`Init => Inv`, one lemma per action for `Inv /\ [Next]_vars => Inv'`, and the properties from
`Inv`. Refinements and action properties use the invariant of the current and the next state.
The theorems are about the specifications of the MC modules: a lemma says that the component's
invariant survives its own steps and a stutter, and the theorem adds that the others leave its
variables alone.

| Theorem | What it says, and how |
| --- | --- |
| ServerRoutesProofs `Invariance`, `TypeCorrect`, `NoClientIsLost`, `RouteStaysOpen`, `AttemptsExclude`, `ShutdownHolds`, `Refinement` | any calls and connections. The invariant adds what arbitration needs: slots exclude each other's builds, a connect attempt saw no usable route, what is being built is private to its builder, displaced routes stay closed, `closeAll()` fences every attempt before it, a replacement was asked for. `Refinement` maps each step to a step of RouteTable or a stutter |
| ToolCallsProofs `Invariance`, `TypeCorrect`, `NoCallRunsTwice`, `CountsAreGivenBack`, `CountsCoverTheirCalls` | any finite set of calls. Each action is first shown to have one of a few effects on counts (`StepEffect`), manager (`StepManages`) and run counter (`StepProgress`); the invariants survive each effect. Cardinalities come from FiniteSetTheorems, hence `CallsAreFinite` |
| UpkeepProofs `TasksInvariance`, `TasksOwned`, `StopIsSilent`, `HandOverIsSilent`, `CancelsMeant` | any tasks and connections of BackgroundTasks. The invariant is stated per task: who owns the entry, which continuation may be at which point with which generation (`Owned`), and what each execution's life says of its connection (`Executed`). A step of one task leaves the rows of the others alone; only replacing, handing off, aborting and tearing down change every row. The last three are action properties |
| UpkeepProofs `KeepAliveInvariance`, `KeepAliveSafe` | the pass in flight captured the registered definition or is fenced (`PassIsRegistered`), the usable route has the registered definition (`RouteIsRegistered`), and a pass that connected owes a publication (`PassPublishes`) |
| UpkeepProofs `CatalogStaysCurrent`, `OnlyEditsRestart`, `UpkeepConsistent` | Catalog: what was listed is never ahead of the server, and the answer of a refresh that nothing moved is not behind the connection's list (`CatalogInv`), so it never brings back an older one. ConfigWatch: the fingerprint is of what was loaded, unless the files were written in between (`WatchInv`), so only edits and the user restart the process. Both are proved with an action property beside the invariant |
| SessionProofs `RuntimeInvariance`, `OneLiveRuntime` | a fresh owner has nothing (`OwnerIsFresh`), only the owner's initialization may run to publication (`OnlyOwnerRuns`), signed-in runtimes run (`SignedInRuns`), and starting ones are the session's (`StartingIsSession`) |
| SessionProofs `RegistryInvariance`, `NameIsHeld`, `FilesKeepTheirName`, `SessionConsistent` | a name is held once (`HeldOnce`), nothing is held without a session (`NothingWithoutSession`), Pi's turn comes after the others, or `forgone` says why not (`PiIsNext`), and what an installation in progress has put where (`InstallsHold`) |
| SignInProofs `FlowInvariance`, `SignInsSafe` | a pending flow is active (`PendingIsActive`), whom the listener is bound for is alive (`BindingIsAlive`), and an authority that still holds saw no logout (`AuthorityIsLive`) |
| SignInProofs `StoreInvariance`, `CredentialsHold`, `SignInConsistent` | `StoreInv` ties each stage of an operation to what is in the store (`OperationIsStaged`), chunks to the manifest or the operation (`ChunksAreInUse`), the cache to a read (`CacheFollows`), and the two sources of a record to one url (`SourcesAreOfOneUrl`) |
| ToolCallsProofs `ProxyHolds` | ProxyCalls, for any finite set of servers and any calls: the tool a call settles on is the one its name means, describe shows what a call reaches, what is offered can be called, one sign-in, the back-off, nothing of others closed. `ProxyInv` says that a call that connects or signs in still means its server (`Means`), that what it found while trying servers is as they list it now (`Finds`), that it has signed in at most once (`CallHolds`), and that nothing happened before the session began (`BeginsUnset`). Lookups are sets of tools, so "the only one" is an argument about cardinalities, and servers never change whether they are enabled nor what they have |
| SurfaceProofs `CallsAreOwned` | TaskCalls: where each caller and its request are relative to each other (`Consistent`). PromptPause: the clock is what the history says was measured (`Measured`) |
| SurfaceProofs `PagesServed` | any calls, pages, limits and length of the log. UiSession: a call that starts has no page yet (`StartingIsApart`), and the runtime's page is served (`ServerIsUp`); a record that joins the others pushes out the oldest of a full list and no other (`RecordJoins`), so whoever completes, what was typed is kept or was pushed out by later records that are still there (`RecordsKept`). UiEventLog: ids are consecutive, and a page that saw the latest checkpoint has everything since, or the checkpoint left the log (`SeenIsBased`) |
| SurfaceProofs `EmbeddersServed` | HostManaged: a transport is the connection's once adopted, and who gave the factory up gets none any more (`TransportIsOwned`); a definition that is not the listed one is on its way until the tool is retired (`ChangeIsOnItsWay`). ProtocolSession: each operation's record fits together, and only a live registration resolves sessions (`RecordsFit`); a pin is a number of operations, a cardinality, hence finite operations |
| SurfaceProofs `CacheKept` | MetadataCache: the entry on disk, in a snapshot, in a draft and about to be written is sound in itself (`EntriesAreSound`), and unless another process replaced the file meanwhile, what is about to be written loses nothing of it (`UnracedKeep`). NpxResolver: an entry says what its directory held until npm changed it (`EntriesAreTrue`), and what is about to be saved was found in this turn (`SavingFits`) |
| SurfaceProofs `SurfaceConsistent` | `SurfaceTypeOK`, the invariants of all twenty parts, from the lemma of each part; the cursors of Previews and the words of NpxArgs stay within their bounds |
| SecretsProofs `SecretsKept` | BearerStore: what a job has left to do is of its kind (`FitsPlan`), who changes the record alone knows what is stored (`KnowsStored`), and a chunk is the current record's or somebody will remove it or name it (`ChunksAreKept`). BearerCommand: whoever waits, waits for the run in flight (`WaitersAreAtTheRun`). RequestHeaders: from the first freeze on, who is held does nothing more (`TheHeldRest`); the descendants are the least set closed under children, so no induction is needed. ConfigMerge: a credential knows the url it was bound to |
| ConsentProofs `PanelsTrue` | McpPanel: the rows, their marks and the draft agree with the session's entry (`PanelIsConsistent`), a server that is off lists nothing (`OffListsNothing`), and the session's entry is the files' (`LayersAreCurrent`). SetupPanel: what it is about to say is true (`EndsAreTrue`), and what is loaded is what the files say (`LoadedIsCurrent`), unless someone else wrote them |
| ConsentProofs `TheUserDecides` | any callers, keys, branches, processes, projects, requests. Approvals: a live grant was chosen, and an open dialog about the live map and server was asked for (`GrantsAreAsked`). ProjectTrust: what a pass knows, has let through or is about to write was accepted (`PassIsHonest`). Sampling: a request goes on with the model it was shown with (`RunIsShown`). ConfigMerge: an entry that a project touched is known to be (`ProjectsAreNoted`). Elicitation: the fields before the one asked for are valid, all of them once there was a review (`CollectedIsValid`) |
| ConsentProofs `LabelsAreUnique` | what `uniqueLabels()` computes for a list of any length. The labels are a recursive function, made one after the other: there is one for every beginning of the list (`LabelsAreBuilt`), by induction over the numbers; `Induction` is proved here from the well-foundedness of `<`. The dots a label needs are found by the pigeonhole principle |

Hypotheses. ServerRoutes and ToolCalls have named ASSUMEs (`None` is no call or connection,
finite calls); the other modules are instantiated several to a run and state theirs in
the theorem: the absent values `None` and `Null` are distinct from the identities and records they
stand beside, there is a url, a tool, a branch, a directory, a server, servers, operations and
processes that are counted are finite, the key of a tool is not that of a page's consent, bounds and
lengths are numbers, limits positive ones. The runs' model values satisfy all of them.

Every safety property that a run checks is a theorem but `NothingIsCut`. What stays with TLC:

* Liveness (`CallsSettle`, `ClosesSettle`, `CountsReturn`, `UpkeepGoesOn`, `SignInsEnd`,
  `SessionsGoOn`): the provers do not handle fairness.
* `NothingIsCut`: that a diff is least, that its hunks give the new text, that the arguments of a
  command arrive, that the cursor is on the page. What a recursive definition computes for
  every input needs induction over data. What the state of these parts is, is proved
  (`SurfaceConsistent`).
* The six statements that do not hold: their runs show a counterexample.

## Disagreements found

Six runs end in a violation; `findings` in `PROJECT.json` quotes the code and the statement.

* `routes_selfwait`: a `reconnect()` that arrives while `close()` disposes the route falls back to
  `connect()` and awaits its own promise.
* `routes_sharer`: a call that shares a build returns a connection that was never published.
* `tasks_late`: a call in flight on a replaced connection that is answered with a task after the
  hand-over listed the tasks has it cancelled by the disposal.
* `calls_idle`: a call approved after its connection was replaced runs uncounted.
* `catalog_dropped`: a subscription that drops during the reconciliation is marked active.
* `session_forgotten`: a callback that throws in the finalization leaves the rejected
  initialization as the one that later operations await.

Seen while modelling, without a run of their own: a candidate closed while its task session
attaches replaces a usable route (`server-manager.ts:1392` against 1107-1109); a resumed
Executor program's error is rethrown plain (`executor-pauses.ts:182` against 105-106); an exact
npx version whose directory npm updated in place runs another version for up to a day
(`moved`; CHANGELOG.md:420); a server that only a host's file or a plugin disables cannot be
enabled from the panel (config.ts:2013-2015); a panel edit turns a registered server into a copy
that `dispose()` no longer removes (`edited`; index.ts:1022-1030, docs/extension-api.md:120);
a registration that is disposed of after a state was published but before the session recorded its
context leaves the name to nobody (`forgone`; index.ts:1271-1272), though Pi's server was overridden
by it and the comment at 1268-1269 says that such a server takes the freed name;
a rewrite of an unchanged chunked entry that fails removes shared chunks (`damaged` in
CredentialStore, `unseen` in BearerStore).

## Limits of the models

Exempted races, each recorded by the variable named. ServerRegistry: `overtaken` (the
installation dialog acts on earlier checks), `forgone` (a rollback does not re-apply Pi's
server, nor does a disposal while `sessionCtx` is null). BackgroundTasks: `late`, `superseded`.
ToolCalls: `strayed`. UiSession: `crossed` (two UI calls of different tools that start at once
orphan the first page's server), `late` (a native window that opens after its session was
replaced), `shifted` (a record that more than the limit of later ones pushed out), `trimmed` (a
context beyond the limit of its page). MetadataCache: `raced` (a lost update). ConfigWatch:
`missed` (an edit between load and fingerprint). NpxResolver: `moved`. Catalog: `unqueued` (a
listener that throws). SessionRuntime: `leaving` (`session_shutdown` awaits the hand-off before
the owner stops).

Left out inside modelled parts. Calls: UI sessions, resource reads, URL elicitation, the nested
call of a registered Pi tool, validation of arguments, script tools. Tasks: raw requests other
than `tools/call`. Catalog: the content of listings, servers older than listening, a server's life
after it was replaced. Sessions: what initialization loads; no tool call comes after
`session_shutdown`. Sign-in: discovery, registration, the OAuth library's requests. Cache: expiry
by age. Watch: host-discovered and plugin files are not fingerprinted. Merge: opencode's
own merges, plugins' provenance, exclusive mode. Panel: it opens on files as a session finds
them, and the 60 s inactivity limit is one event. Setup: discovery is never refreshed, as in the
code. Previews: the final newline, a terminal of unknown height. npx: npm killed by its time
limit. Headers: a process id is not used again, and one reading of the process table is one step.
Prompts: sampling dialogs do not pause deadlines, and a form outlives its connection, as in the code.
Proxy: two calls that share a sign-in each close the server by name afterwards
(`proxy-modes.ts:1540`, 1607, 1688, 1735), so one may close what the other has opened.

Not modelled: the output guard and output shapes, ranking, registration of tools and namespaces
in Pi, script tools, Executor's catalog, schemas, discovery of hosts' files, plugin manifests, the
command line and installer, tracing, colours and wording.

## Plan

1. Registration of tools in Pi (ToolSurface), sources of the configuration, script tools, the
   output guard.
2. A closed direct call that finds its connection replaced (`direct-tools.ts:458`) and a restored
   task whose server is late (`init.ts:661`): the two hazards without a property.
