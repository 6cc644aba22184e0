----------------------------- MODULE ServerRegistry -----------------------------
(***************************************************************************)
(* Who holds a server name in a session (index.ts): the configuration      *)
(* files, an extension that called registerMcpServer(), a server that Pi   *)
(* offers, or an installation from a URL.  Every path looks at one name    *)
(* only, so the module follows a single name.                              *)
(***************************************************************************)
EXTENDS Naturals

CONSTANTS Registration, Install, File, Null,
  Versions      \* the definitions that Pi may offer, all of which the adapter can connect

VARIABLES
  file,         \* the configuration files define the name
  early,        \* earlyConfig has it: they did when the extension was loaded
  active,       \* state is published
  sessionCtx,   \* "recorded", or null: in "none" of the sessions, or while session_start awaits
  config,       \* state.config.mcpServers[name]: what defined it
  edited,       \* the panel replaced that entry by a copy with other direct tools
  kept,         \* the definition that the lifecycle manager has
  runtime,      \* runtimeServers: the registration that holds the name
  handle,       \* each registration
  byPi,         \* the registrations that adopt a server of Pi's
  offered,      \* the version Pi offers
  seen,         \* piRegistered
  applied,      \* piServers: the version that was compared with the configuration
  adopted,      \* its registration, Null when it was overridden
  provisional,  \* provisionalInstalls
  install,      \* each installation
  overtaken,    \* history: an installation went on after others got the name while it asked
  forgone       \* history: since Pi's servers were last compared a rollback freed a name that
                \* overrode one, or a registration was disposed of with no sessionCtx

registryVars == <<file, early, active, sessionCtx, config, edited, kept, runtime, handle, byPi,
                  offered, seen, applied, adopted, provisional, install, overtaken, forgone>>
names    == <<config, edited, kept, runtime, handle, byPi, applied, adopted>>
installs == <<provisional, install, overtaken>>

Entries == {File, Null} \cup Registration \cup Install

RegistryTypeOK ==
  /\ {file, early, active, edited, provisional, overtaken, forgone} \subseteq BOOLEAN
  /\ sessionCtx \in {"none", "starting", "recorded"}
  /\ {config, kept} \subseteq Entries /\ {runtime, adopted} \subseteq Registration \cup {Null}
  /\ handle \in [Registration -> {"free", "held", "closing", "freeing"}]
  /\ byPi \subseteq Registration
  /\ {offered, seen, applied} \subseteq Versions \cup {Null}
  /\ install \in [Install -> {"idle", "asking", "connecting", "found", "undoing"}]

Starts(configured) ==
  /\ file = configured /\ early = configured /\ active = FALSE /\ sessionCtx = "none"
  /\ config = Null /\ edited = FALSE /\ kept = Null /\ runtime = Null
  /\ handle = [r \in Registration |-> "free"] /\ byPi = {}
  /\ offered = Null /\ seen = Null /\ applied = Null /\ adopted = Null
  /\ provisional = FALSE /\ install = [i \in Install |-> "idle"]
  /\ overtaken = FALSE /\ forgone = FALSE

RegistryInit == \E configured \in BOOLEAN : Starts(configured)

-----------------------------------------------------------------------------
(* Servers that Pi offers *)

FreeRegistration == {r \in Registration : handle[r] = "free"}

\* The name, with its holder, as an extension or a session leaves it before Pi's servers are
\* compared with it.
Name(c, k, r, h, a, ad) ==
  [config |-> c, kept |-> k, runtime |-> r, handle |-> h, applied |-> a, adopted |-> ad]

\* MUTANT of Disposed: the lifecycle manager keeps the server.
DisposedKeepingLifecycle(n, r) ==
  LET own == n.config = r /\ ~edited IN
  [n EXCEPT !.runtime = Null, !.handle[r] = IF own THEN "closing" ELSE "freeing",
            !.config = IF own THEN Null ELSE @]

\* dispose() of n's registration up to its first await; it leaves an entry alone that is not
\* its own.
Disposed(n, r) ==
  LET own == n.config = r /\ ~edited IN
  [n EXCEPT !.runtime = Null, !.handle[r] = IF own THEN "closing" ELSE "freeing",
            !.config = IF own THEN Null ELSE @, !.kept = IF own THEN Null ELSE @]

\* The first half of applyPiMcpServers(): what Pi changed or withdrew is given up.
Withdrawn(n, v) ==
  IF n.applied = Null \/ n.applied = v THEN n
  ELSE [(IF n.adopted = Null THEN n ELSE Disposed(n, n.adopted))
          EXCEPT !.applied = Null, !.adopted = Null]

\* MUTANT of Adopted: a configured server does not override one of Pi's.
AdoptedAnyway(n, v) ==
  IF v = Null \/ n.applied # Null THEN n
  ELSE LET r == CHOOSE q \in Registration : n.handle[q] = "free" IN
       [n EXCEPT !.applied = v, !.adopted = r, !.config = r, !.kept = r,
                 !.runtime = r, !.handle[r] = "held"]

\* The second half: a server that nothing overrides is registered.
Adopted(n, v) ==
  IF v = Null \/ n.applied # Null THEN n
  ELSE IF n.config # Null \/ n.runtime # Null THEN [n EXCEPT !.applied = v, !.adopted = Null]
  ELSE LET r == CHOOSE q \in Registration : n.handle[q] = "free" IN
       [n EXCEPT !.applied = v, !.adopted = r, !.config = r, !.kept = r,
                 !.runtime = r, !.handle[r] = "held"]

\* applyPiMcpServers(), and the name as it leaves it
PiApplied(n, v) ==
  LET m == Adopted(Withdrawn(n, v), v) IN
  /\ config' = m.config /\ kept' = m.kept /\ runtime' = m.runtime /\ handle' = m.handle
  /\ applied' = m.applied /\ adopted' = m.adopted
  /\ edited' = (edited /\ m.config = config)
  /\ byPi' = {r \in byPi \cup ({m.adopted} \ {Null}) : m.handle[r] # "free"}

Now == Name(config, kept, runtime, handle, applied, adopted)

\* Another extension registers, changes or withdraws a server with Pi.
PiOffers ==
  /\ \E v \in Versions \cup {Null} : v # offered /\ offered' = v
  /\ UNCHANGED <<file, early, active, sessionCtx, names, seen, installs, forgone>>

\* the mcp_servers_change handler, which has a context of its own
PiChange ==
  /\ FreeRegistration # {} /\ seen # offered /\ seen' = offered
  /\ IF active THEN PiApplied(Now, offered) ELSE UNCHANGED names
  /\ forgone' = FALSE
  /\ UNCHANGED <<file, early, active, sessionCtx, offered, installs>>

-----------------------------------------------------------------------------
(* Servers that extensions register with the adapter *)

\* registerAdapterServer(); it throws unless the name is free.
Register ==
  /\ ~(applied = Null /\ offered # Null)
  /\ runtime = Null /\ IF active THEN config = Null ELSE ~early
  /\ \E r \in FreeRegistration :
       /\ r = CHOOSE q \in FreeRegistration : TRUE
       /\ runtime' = r /\ handle' = [handle EXCEPT ![r] = "held"]
       /\ IF active THEN config' = r /\ kept' = r ELSE UNCHANGED <<config, kept>>
  /\ UNCHANGED <<file, early, active, sessionCtx, edited, byPi, offered, seen, applied, adopted,
                 installs, forgone>>

\* dispose() up to the close of its connection
Dispose(r) ==
  /\ handle[r] = "held" /\ r \notin byPi
  /\ LET m == Disposed(IF active THEN Now ELSE [Now EXCEPT !.config = Null], r) IN
     /\ runtime' = Null /\ handle' = m.handle
     /\ IF active THEN config' = m.config /\ kept' = m.kept ELSE UNCHANGED <<config, kept>>
  /\ UNCHANGED <<file, early, active, sessionCtx, edited, byPi, offered, seen, applied, adopted,
                 installs, forgone>>

\* MUTANT of DisposeEnds: a server of Pi's that the registration overrode stays overridden.
DisposeEndsAlone(r) ==
  /\ handle[r] \in {"closing", "freeing"} /\ handle' = [handle EXCEPT ![r] = "free"]
  /\ byPi' = byPi \ {r}
  /\ UNCHANGED <<config, kept, runtime, applied, adopted, edited>>
  /\ UNCHANGED <<file, early, active, sessionCtx, offered, seen, installs, forgone>>

\* Pi's server was overridden, and nothing has the name.
PiWaits == active /\ applied # Null /\ adopted = Null /\ config = Null

\* The connection is closed, or closing it failed, and a server of Pi's takes the freed name,
\* if a session has recorded its context.
DisposeEnds(r) ==
  /\ handle[r] \in {"closing", "freeing"}
  /\ LET freed == [handle EXCEPT ![r] = "free"]
         waits == r \notin byPi /\ PiWaits IN
     IF waits /\ sessionCtx = "recorded"
     THEN PiApplied([Now EXCEPT !.handle = freed, !.applied = Null], seen) /\ UNCHANGED forgone
     ELSE /\ handle' = freed /\ byPi' = byPi \ {r} /\ forgone' = (forgone \/ waits)
          /\ UNCHANGED <<config, kept, runtime, applied, adopted, edited>>
  /\ UNCHANGED <<file, early, active, sessionCtx, offered, seen, installs>>

\* applyDirectToolConfigChanges(): the entry is replaced by a copy of it.  The panel lists the
\* tools in the metadata cache, which has none of a provisional server.
PanelEdits ==
  /\ active /\ config # Null /\ ~provisional /\ edited' = TRUE
  /\ UNCHANGED <<file, early, active, sessionCtx, config, kept, runtime, handle, byPi, offered,
                 seen,
                 applied, adopted, installs, forgone>>

-----------------------------------------------------------------------------
(* executeInstall() *)

\* Another installation of the name goes on, or an extension registered it.
InstallRefused == provisional \/ runtime # Null

\* What an installation does once nothing is left to ask: an unknown server is added.
Added(i) ==
  /\ IF config = Null \/ install[i] = "asking"
     THEN /\ install' = [install EXCEPT ![i] = "connecting"] /\ provisional' = TRUE
          /\ config' = i /\ kept' = i /\ edited' = FALSE
          /\ overtaken' = (overtaken \/ config # Null \/ InstallRefused)
     ELSE /\ install' = [install EXCEPT ![i] = "found"]
          /\ UNCHANGED <<config, kept, edited, provisional, overtaken>>
  /\ UNCHANGED <<file, early, active, sessionCtx, runtime, handle, byPi, offered, seen, applied,
                 adopted, forgone>>

\* The checks, in one step with what follows unless the user is asked about a project server
\* that was unknown.  (Asking about a known one changes nothing.)
InstallStarts(i) ==
  /\ active /\ install[i] = "idle" /\ ~InstallRefused
  /\ \/ Added(i)
     \/ /\ config = Null /\ install' = [install EXCEPT ![i] = "asking"]
        /\ UNCHANGED <<file, early, active, sessionCtx, names, offered, seen, provisional,
                       overtaken, forgone>>

InstallAllowed(i) == install[i] = "asking" /\ Added(i)

InstallDenied(i) ==
  /\ install[i] = "asking" /\ install' = [install EXCEPT ![i] = "idle"]
  /\ UNCHANGED <<file, early, active, sessionCtx, names, offered, seen, provisional, overtaken,
                 forgone>>

\* Connected, or waiting for a sign-in: the entry is written to the file.
InstallSaves(i) ==
  /\ install[i] \in {"connecting", "found"}
  /\ install' = [install EXCEPT ![i] = "idle"]
  /\ file' = (file \/ install[i] = "connecting")
  /\ provisional' = (provisional /\ install[i] # "connecting")
  /\ UNCHANGED <<early, active, sessionCtx, names, offered, seen, overtaken, forgone>>

\* Connecting or writing fails: the rollback takes the entry out and closes the connection.
InstallFails(i) ==
  /\ install[i] \in {"connecting", "found"}
  /\ IF install[i] = "connecting" /\ config = i /\ ~edited
     THEN /\ install' = [install EXCEPT ![i] = "undoing"] /\ config' = Null /\ kept' = Null
          /\ forgone' = (forgone \/ applied # Null)
     ELSE install' = [install EXCEPT ![i] = "idle"] /\ UNCHANGED <<config, kept, forgone>>
  /\ UNCHANGED <<file, early, active, sessionCtx, edited, runtime, handle, byPi, offered, seen,
                 applied,
                 adopted, provisional, overtaken>>

InstallUndone(i) ==
  /\ install[i] = "undoing" /\ install' = [install EXCEPT ![i] = "idle"] /\ provisional' = FALSE
  /\ UNCHANGED <<file, early, active, sessionCtx, names, offered, seen, overtaken, forgone>>

-----------------------------------------------------------------------------
(* Sessions *)

\* state = null.  What still runs in it finds its guard stale or ends in the old state.
TakenDown ==
  /\ active' = FALSE
  /\ config' = Null /\ kept' = Null /\ edited' = FALSE /\ provisional' = FALSE
  /\ install' = [i \in Install |-> "idle"] /\ overtaken' = FALSE /\ forgone' = FALSE
  /\ handle' = [r \in Registration |-> IF handle[r] = "closing" THEN "freeing" ELSE handle[r]]
  /\ UNCHANGED <<file, early, runtime, byPi, offered, applied, adopted>>

\* session_start up to its first await, in place of what the load or another session left
SessionBegins == TakenDown /\ sessionCtx' = "starting" /\ seen' = offered

\* It goes on: a state may be published meanwhile.  (A start that is replaced, or whose runtime
\* was stopped, records nothing.)
ContextRecorded ==
  /\ sessionCtx = "starting" /\ sessionCtx' = "recorded"
  /\ UNCHANGED <<file, early, active, names, offered, seen, installs, forgone>>

\* session_shutdown, or the finalization that published the state failed
SessionEnds ==
  /\ TakenDown /\ UNCHANGED seen
  /\ \/ sessionCtx # "none" /\ sessionCtx' = "none"
     \/ active /\ UNCHANGED sessionCtx

\* Without a state the user may edit the files.
FileEdited ==
  /\ ~active /\ file' = ~file
  /\ UNCHANGED <<early, active, sessionCtx, names, offered, seen, installs, forgone>>

\* Servers that extensions registered join the configuration that was loaded.
Merged(n) ==
  LET c == IF file THEN File ELSE n.runtime IN [n EXCEPT !.config = c, !.kept = c]

\* initializeMcp() loads the configuration and the finalization compares the registrations with
\* it, for a session, for a first operation while session_start awaits, or when the extension is
\* loaded.
SessionReady ==
  /\ ~active /\ active' = TRUE
  /\ FreeRegistration # {}
  /\ PiApplied(Merged([Withdrawn(Now, Null) EXCEPT !.applied = Null, !.adopted = Null]), seen)
  /\ UNCHANGED <<file, early, sessionCtx, offered, seen, installs, forgone>>

RegistryNext ==
  \/ PiOffers \/ PiChange \/ Register \/ PanelEdits \/ FileEdited
  \/ SessionBegins \/ ContextRecorded \/ SessionReady \/ SessionEnds
  \/ \E r \in Registration : Dispose(r) \/ DisposeEnds(r)
  \/ \E i \in Install : \/ InstallStarts(i) \/ InstallAllowed(i) \/ InstallDenied(i)
                        \/ InstallSaves(i) \/ InstallFails(i) \/ InstallUndone(i)

RegistrySpec == RegistryInit /\ [][RegistryNext]_registryVars

-----------------------------------------------------------------------------
(* Properties *)

\* The lifecycle manager keeps exactly the server that the session has under the name.
LifecycleFollowsConfig == active => kept = config

\* A server of the files that a session loaded is never displaced in it.
FilesWin == [][active /\ active' /\ config = File => config' = File]_registryVars

\* A registration that is held holds its name, unless the files have it or an installation
\* asked the user about the name before it was registered.
RegistrationIsServed ==
  active /\ runtime # Null => config = runtime \/ config = File \/ overtaken

\* Only a registration that is held is served, until the panel has edited it.
DisposedIsGone ==
  active /\ config \in Registration /\ ~edited => runtime = config /\ handle[config] = "held"

\* No server of Pi's waits for a name that nobody holds, unless a failed installation had it or
\* its registration was disposed of while the adapter had a state and no context of a session.
PiTakesFreedName ==
  active /\ seen # Null /\ config = Null /\ runtime = Null =>
    forgone \/ \E r \in Registration : handle[r] \in {"closing", "freeing"}

\* The name is provisional only while an installation goes on that will save or undo it, and an
\* installed entry that is not provisional is in the files.
ProvisionalIsOwned ==
  active /\ ~overtaken =>
    /\ provisional => \E i \in Install : install[i] \in {"connecting", "undoing"}
    /\ config \in Install /\ ~provisional => file

\* The five of them: who holds a name is served under it, and nothing else is.
NamesAreHeld ==
  /\ RegistryTypeOK /\ LifecycleFollowsConfig /\ RegistrationIsServed
  /\ DisposedIsGone /\ PiTakesFreedName /\ ProvisionalIsOwned

-----------------------------------------------------------------------------
(* The inductive invariant: what makes the safety properties hold. *)

\* One registration is held, the one in runtimeServers; Pi's is, and a session has compared
\* what Pi offers with its configuration.
HeldOnce ==
  /\ \A r \in Registration : handle[r] = "held" <=> runtime = r
  /\ applied = Null => adopted = Null
  /\ adopted # Null => runtime = adopted /\ adopted \in byPi
  /\ active => applied = seen

\* Without a state nothing is configured and nothing is being installed.
NothingWithoutSession ==
  ~active => /\ config = Null /\ kept = Null /\ ~edited /\ ~provisional /\ ~overtaken
             /\ \A i \in Install : install[i] = "idle"

\* A name that Pi waits for is being freed by an extension, whose dispose() ends with Pi's server,
\* or `forgone` says why nothing is done about it.
PiIsNext ==
  active /\ seen # Null /\ config = Null /\ runtime = Null =>
    forgone \/ \E r \in Registration \ byPi : handle[r] \in {"closing", "freeing"}

\* An installation that nobody overtook has the name from the moment it adds the entry until
\* the entry is written, or taken out again.
InstallsHold ==
  /\ \A i \in Install : install[i] = "asking" => config # File
  /\ ~overtaken =>
       /\ \A i \in Install :
            /\ install[i] = "connecting" => provisional /\ config = i /\ ~edited
            /\ install[i] = "undoing" => provisional /\ config \notin Install
       /\ \A i, j \in Install : install[i] = "undoing" /\ install[j] = "undoing" => i = j

RegistryInv ==
  /\ RegistryTypeOK /\ LifecycleFollowsConfig /\ RegistrationIsServed /\ DisposedIsGone /\ ProvisionalIsOwned
  /\ HeldOnce /\ NothingWithoutSession /\ PiIsNext /\ InstallsHold
=============================================================================
