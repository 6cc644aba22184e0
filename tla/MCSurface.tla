----------------------------- MODULE MCSurface -----------------------------
(***************************************************************************)
(* Instances for TLC of what surrounds a session: its app pages and their  *)
(* event log, the metadata cache the processes share, and what may run.    *)
(* They share no state; a behaviour follows one of them (`focus`), while   *)
(* the others rest.                                                        *)
(***************************************************************************)
EXTENDS Naturals, TLC

CONSTANTS Call, Tool, Page, None, MaxLog, MaxEvents, Session, Hash, Scopes, MaxTime,
          Caller, Key, Branch, Process, Project, What, HostCall, Version, Visit, Operation,
          Asker, Helper, TTL, Writer, Record, Long, Parts, Pid, Root, MaxPasses, Stable,
          Ask, Starter, Dir, Keep, MaxArgs, Prompt, Limit, Request, Url, DirectTool,
          MaxReconnects, Line, MaxLines, MaxEntries, MaxCompleted, MaxContexts

VARIABLES focus,
  running, pc, tool, http, uiServer, listening, reusing, window, windows, typed, contexts, saved,
  shifted, trimmed, crossed, late,
  nextEventId, eventLog, checkpoint, completed, sseClients, lastId, based,
  entry, time, step, hash, snapshot, own, draft, write, raced,
  position, entries, grant, approved, consent, request, chosen, unsaved,
  defined, approvals, gate, accepted,
  adapter, transport, adopted, gaveUp, listed, frozen, offered, noted, relist, again,
  retired, call, told,
  connected, owned, enrolled, visit, operation, pins, serves, informed,
  token, freshFor, restFor, inflight, helper, asker, answer, failedFor,
  stored, chunk, job, result, littered, torn, unseen, contended,
  life, parent, group, marked, tracked, phase, found, held, stable, passes,
  up, caller, awaited, wire, remote, cancelled, expired, gave,
  holds, newest, kept, starter, moved,
  args,
  clock, showing, waited,
  stage, field, editing, before, selected, values, meant, picked, reply,
  turn, aborted, favoured, sampling, ran, received,
  at, merged, gated, plugins, redefined,
  files, session, origin, panel, reload, edited,
  disk, seen, loaded, setup, changed, foreign,
  old, new, items, cursor, height

ui      == <<running, pc, tool, http, uiServer, listening, reusing, window, windows, typed,
             contexts, trimmed, saved, shifted, crossed, late>>
events  == <<nextEventId, eventLog, checkpoint, completed, sseClients, lastId, based>>
cache   == <<entry, time, step, hash, snapshot, own, draft, write, raced>>
approve == <<position, entries, grant, approved, consent, request, chosen, unsaved>>
trust   == <<defined, approvals, gate, accepted>>
host    == <<adapter, transport, adopted, gaveUp, listed, frozen, offered, noted, relist,
            again, retired, call, told>>
proto   == <<connected, owned, enrolled, visit, operation, pins, serves, informed>>
bearer  == <<token, freshFor, restFor, inflight, helper, asker, answer, failedFor>>
store   == <<stored, chunk, job, result, littered, torn, unseen, contended>>
tree    == <<life, parent, group, marked, tracked, phase, found, held, stable, passes>>
asks    == <<up, caller, awaited, wire, remote, cancelled, expired, gave>>
npx     == <<holds, newest, kept, starter, moved>>
nargs   == <<args>>
prompts == <<clock, showing, waited>>
form    == <<stage, field, editing, before, selected, values, meant, picked, reply>>
smpl    == <<turn, aborted, favoured, sampling, ran, received>>
merge   == <<at, merged, gated, plugins, redefined>>
pnl     == <<files, session, origin, panel, reload, edited>>
stp     == <<disk, seen, loaded, setup, changed, foreign>>
prv     == <<old, new, items, cursor, height>>
vars == <<focus, ui, events, cache, approve, trust, host, proto, bearer, store, tree,
          asks, npx, nargs, prompts, form, smpl, merge, pnl, stp, prv>>

Ui     == INSTANCE UiSession
Events == INSTANCE UiEventLog
Cache  == INSTANCE MetadataCache
Gate   == INSTANCE Approvals
Trust  == INSTANCE ProjectTrust
Host   == INSTANCE HostManaged
Proto  == INSTANCE ProtocolSession
Bearer == INSTANCE BearerCommand
Secret == INSTANCE BearerStore
Tree   == INSTANCE RequestHeaders
Asks   == INSTANCE TaskCalls
Npx    == INSTANCE NpxResolver
Args   == INSTANCE NpxArgs
Pause  == INSTANCE PromptPause
Form   == INSTANCE Elicitation
Sample == INSTANCE Sampling
Merge  == INSTANCE ConfigMerge
Panel  == INSTANCE McpPanel
Setup  == INSTANCE SetupPanel
Views  == INSTANCE Previews

Init ==
  /\ Ui!Init /\ Events!Init /\ Cache!Init /\ Gate!Init /\ Trust!Init /\ Host!Init
  /\ Proto!Init /\ Bearer!Init /\ Secret!Init /\ Tree!Init /\ Asks!Init /\ Npx!Init
  /\ Args!Init /\ Pause!Init /\ Form!Init /\ Sample!Init /\ Merge!Init /\ Panel!Init
  /\ Setup!Init /\ Views!Init
  /\ focus \in {"ui", "events", "cache", "approvals", "trust", "host", "protocol",
               "bearer", "secret", "tree", "taskcalls", "npx", "npxargs",
               "prompts", "form", "sampling", "merge", "panel", "setup", "previews"}

Next ==
  /\ UNCHANGED focus
  /\ IF focus = "ui" THEN Ui!Next ELSE UNCHANGED ui
  /\ IF focus = "events" THEN Events!Next ELSE UNCHANGED events
  /\ IF focus = "cache" THEN Cache!Next ELSE UNCHANGED cache
  /\ IF focus = "approvals" THEN Gate!Next ELSE UNCHANGED approve
  /\ IF focus = "trust" THEN Trust!Next ELSE UNCHANGED trust
  /\ IF focus = "host" THEN Host!Next ELSE UNCHANGED host
  /\ IF focus = "protocol" THEN Proto!Next ELSE UNCHANGED proto
  /\ IF focus = "bearer" THEN Bearer!Next ELSE UNCHANGED bearer
  /\ IF focus = "secret" THEN Secret!Next ELSE UNCHANGED store
  /\ IF focus = "tree" THEN Tree!Next ELSE UNCHANGED tree
  /\ IF focus = "taskcalls" THEN Asks!Next ELSE UNCHANGED asks
  /\ IF focus = "npx" THEN Npx!Next ELSE UNCHANGED npx
  /\ IF focus = "npxargs" THEN Args!Next ELSE UNCHANGED nargs
  /\ IF focus = "prompts" THEN Pause!Next ELSE UNCHANGED prompts
  /\ IF focus = "form" THEN Form!Next ELSE UNCHANGED form
  /\ IF focus = "sampling" THEN Sample!Next ELSE UNCHANGED smpl
  /\ IF focus = "merge" THEN Merge!Next ELSE UNCHANGED merge
  /\ IF focus = "panel" THEN Panel!Next ELSE UNCHANGED pnl
  /\ IF focus = "setup" THEN Setup!Next ELSE UNCHANGED stp
  /\ IF focus = "previews" THEN Views!Next ELSE UNCHANGED prv

Spec == Init /\ [][Next]_vars

\* Alike: processes that share the cache, work on the token store, pass the gate of a project
\* or resolve a binary; configurations, definitions, long tokens, tools in the panel.  No
\* initial state, choice or property tells the two of a kind apart; kinds are swapped
\* together, since a behaviour follows one part.
Swapped(S) == [x \in S |-> CHOOSE y \in S : y # x]
Actors   == Swapped(Writer) @@ Swapped(Process) @@ Swapped(Session)
            @@ Swapped(Starter) @@ Swapped(DirectTool)
Objects  == Swapped(Long) @@ Swapped(What) @@ Swapped(Hash)
Symmetry == {[x \in Writer |-> x]} \cup {Actors, Objects}

-----------------------------------------------------------------------------
(* The properties of the instances, under the names they have there. *)

\* The pages, the log, the cache and the decisions stay well typed.
SurfaceTypeOK ==
  CASE focus = "ui" -> Ui!UiInv
    [] focus = "events" -> Events!EventsInv
    [] focus = "cache" -> Cache!CacheInv
    [] focus = "approvals" -> Gate!ApprovalsInv
    [] focus = "trust" -> Trust!TrustInv
    [] focus = "host" -> Host!HostInv
    [] focus = "protocol" -> Proto!ProtocolInv
    [] focus = "bearer" -> Bearer!BearerInv
    [] focus = "secret" -> Secret!StoreInv
    [] focus = "tree" -> Tree!TreeInv
    [] focus = "taskcalls" -> Asks!CallsInv
    [] focus = "npx" -> Npx!NpxInv
    [] focus = "npxargs" -> Args!TypeOK
    [] focus = "prompts" -> Pause!PauseInv
    [] focus = "form" -> Form!FormInv
    [] focus = "sampling" -> Sample!SamplesInv
    [] focus = "merge" -> Merge!TypeOK /\ Merge!MergeInv
    [] focus = "panel" -> Panel!PanelInv
    [] focus = "setup" -> Setup!SetupInv
    [] focus = "previews" -> Views!TypeOK

\* App pages: one page per runtime, native windows no longer than theirs, listeners no longer
\* than their page or call, what the user types kept until the agent reads it but for the
\* oldest beyond the limits, and an event log that gives a page that reconnects everything
\* since a checkpoint (ui-session.ts, ui-server.ts).
PagesAreServed ==
  /\ focus = "ui" => /\ Ui!OnePage /\ Ui!WindowIsLive
                     /\ Ui!NothingTypedIsLost /\ Ui!ListenersAreLive
  /\ focus = "events" => Events!LogIsContiguous /\ Events!PagesAreBased

\* The caches the processes share.  Metadata: saved shapes fit their tools, private listings
\* stay private, and no pass destroys or touches what another one saved (metadata-cache.ts).
\* Binaries: a server that names an exact version gets it (npx-resolver.ts).
CacheIsFaithful ==
  /\ [](focus = "cache" => Cache!ShapesMatchTools /\ Cache!PrivateStaysPrivate)
  /\ Cache!StartupDestroysNothing /\ Cache!UpdatesAreNarrow
  /\ Npx!PinnedIsHonoured

\* The user decides: tools run on grants of the active branch, project servers as they
\* were accepted, models as they were approved, and a server gets the answers meant.
UserDecides ==
  /\ focus = "approvals" => Gate!GrantsAreChosen /\ Gate!DecisionsFollowBranch
  /\ focus = "trust" => Trust!ApprovalsWereGiven /\ Trust!RunsWhatWasAllowed
  /\ focus = "merge" => Merge!ProjectsAreAskedFor
  /\ focus = "sampling" => Sample!SamplesWereApproved
  /\ focus = "form" => Form!AnswerIsMeant

\* Hosts and extensions that embed the adapter: nothing stale is sent, what is said not
\* to have run has not, and nothing outlives the operation or the owner it belongs to.
EmbeddersAreServed ==
  /\ [](focus = "host" => Host!NotRunIsTrue /\ Host!NoTransportIsLeft)
  /\ [](focus = "protocol" => /\ Proto!PinsAreOperations /\ Proto!NothingOutlivesItsOwner
                              /\ Proto!ServerIsInformed)
  /\ Host!NothingStaleIsSent

\* Tokens and headers: a stored token is whole and leaves nothing behind, the command
\* that gives one runs once for all who wait and hides no outage, nothing it started
\* stays, and a credential goes to the URL it was given for.
SecretsAreKept ==
  /\ [](focus = "bearer" => Bearer!RunsAreShared)
  /\ [](focus = "secret" => /\ Secret!RecordIsWhole /\ Secret!NothingIsSpliced
                            /\ Secret!NothingIsLeft)
  /\ [](focus = "tree" => Tree!NothingIsLeftRunning)
  /\ [](focus = "merge" => Merge!CredentialsKeepTheirUrl)
  /\ Bearer!OnlyOutagesShow

\* Calls and their tasks: no task runs for nobody, none in the background ends with the
\* call that started it, and a call times out after its own silence only.
CallsHaveOwners ==
  /\ focus = "taskcalls" => Asks!NoTaskForNobody /\ Asks!BackgroundIsLeftAlone
  /\ focus = "prompts" => Pause!TimeoutIsFair

\* Nothing is cut: a command gets its arguments whole, a diff shown before a write is what is
\* written, what is selected is on the screen, and every line can be scrolled to.
NothingIsCut ==
  /\ focus = "npxargs" => Args!ArgumentsArrive
  /\ focus = "previews" => /\ Views!DiffIsLeast /\ Views!HunksApply
                           /\ Views!CursorIsShown /\ Views!PagesShowAll /\ Views!PanelFits

\* The panels: what is saved and announced is what they show, and the session runs with it
\* or is reloaded; nothing is lost, turned or left waiting without the user.
PanelsAreTrue ==
  /\ [](focus = "panel" => Panel!SessionIsCurrent /\ Panel!ConnectingEnds)
  /\ [](focus = "setup" => Setup!PanelReloads /\ Setup!NoticeIsTrue)
  /\ Panel!SavedIsShown /\ Panel!OnlyChangesAreSaved /\ Panel!EscapeLosesNothing
  /\ Panel!ListsTurnNoSwitch /\ Setup!NothingIsLost
=============================================================================
