------------------------------ MODULE McpPanel ------------------------------
(***************************************************************************)
(* The panel of /mcp-adapter for one server (mcp-panel.ts, openMcpPanel()  *)
(* of commands.ts) and the files it saves to (config.ts).  The server is   *)
(* defined in a file of the adapter (`own`), imported by one, discovered   *)
(* in a host's configuration or brought by a plugin; the user's adapter    *)
(* file may hold a copy of it and the project's Pi file may override it.   *)
(* The session keeps what these said when it loaded them.                  *)
(***************************************************************************)
EXTENDS Naturals

CONSTANTS
  DirectTool,      \* tools of the server
  MaxReconnects    \* bound on the panel's reconnects in flight

VARIABLES
  files,      \* where the server is defined, and what each layer says of it
  session,    \* what the session's configuration says of it
  origin,     \* the layer getServerProvenance() named when the panel opened
  panel,      \* the panel, its tools and its switches
  reload,     \* the command was told to reload the session
  edited      \* the files were changed and the session has not loaded them

vars == <<files, session, origin, panel, reload, edited>>

-----------------------------------------------------------------------------
(* Selections of direct tools, and the layers *)

Unset == [kind |-> "unset", tools |-> {}]
All   == [kind |-> "all", tools |-> {}]
Lazy  == [kind |-> "search", tools |-> {}]
Off   == [kind |-> "none", tools |-> {}]
Listing(ts) == [kind |-> "list", tools |-> ts]
Selections  == {Unset, All, Lazy, Off} \cup {Listing(ts) : ts \in SUBSET DirectTool}

\* An entry in one layer, as far as the panel writes it; `more` says it has other fields.
Entry  == [off : {"unset", "yes", "no"}, direct : Selections, more : BOOLEAN]
Absent == [off |-> "unset", direct |-> Unset, more |-> FALSE]
Layers == [kind : {"own", "import", "host", "plugin"}, base : Entry, mine : Entry,
           over : Entry, default : Selections]

Or(a, b, none) == IF a # none THEN a ELSE b

\* What loading the files makes of the server: later layers win, field by field.
Effective(f) ==
  [off |-> Or(f.over.off, Or(f.mine.off, f.base.off, "unset"), "unset"),
   direct |-> Or(f.over.direct, Or(f.mine.direct, f.base.direct, Unset), Unset)]

\* getServerProvenance(): the last source that holds the server; plugins are no source.
Provenance(f) ==
  IF f.over # Absent THEN "over"
  ELSE IF f.mine # Absent THEN "mine"
  ELSE CASE f.kind = "own" -> "base" [] f.kind = "plugin" -> "none" [] OTHER -> "import"

\* configuredDirectSelector()
Configured(direct) ==
  LET selected == Or(direct, files.default, Unset) IN
  CASE selected.kind \in {"all", "search"} -> DirectTool
    [] selected.kind = "list" -> selected.tools
    [] OTHER -> {}

-----------------------------------------------------------------------------
(* The writers *)

\* Whether a source below the project's Pi file disables the server, as
\* writeProjectServerDisabledOverride() sees it: it does not look at host configurations
\* that were discovered, nor at plugins.
LowerOff(f) ==
  Or(f.mine.off, IF f.kind \in {"own", "import"} THEN f.base.off ELSE "unset", "unset")

\* MUTANT of Overridden: enabling only removes the project's own `disabled`.
OverriddenBriefly(f, off) == [f EXCEPT !.over.off = IF off THEN "yes" ELSE "unset"]

\* writeProjectServerDisabledOverride()
Overridden(f, off) ==
  [f EXCEPT !.over.off = IF off THEN "yes" ELSE IF LowerOff(f) = "yes" THEN "no" ELSE "unset"]

\* writeDirectToolsConfig(): an import is copied to the user's file with what the session
\* knows of it; in its own file only the selection of an entry that is there changes.
Written(f, selection) ==
  CASE origin = "import" ->
         [f EXCEPT !.mine = [off |-> session.off, direct |-> selection, more |-> TRUE]]
    [] origin = "base" -> [f EXCEPT !.base.direct = selection]
    [] origin = "mine" -> [f EXCEPT !.mine.direct = selection]
    [] origin = "over" /\ f.over # Absent -> [f EXCEPT !.over.direct = selection]
    [] OTHER -> f

-----------------------------------------------------------------------------
(* The panel *)

Closed == [at |-> "closed", listed |-> {}, direct |-> {}, was |-> {}, off |-> FALSE,
           wasOff |-> FALSE, dirty |-> FALSE, status |-> "ready", signing |-> FALSE,
           reconnects |-> 0, discard |-> FALSE]

TypeOK ==
  /\ files \in Layers
  /\ session \in [off : {"unset", "yes", "no"}, direct : Selections]
  /\ origin \in {"none", "base", "mine", "over", "import"}
  /\ panel \in [at : {"new", "closed", "open", "asking"}, listed : SUBSET DirectTool,
                direct : SUBSET DirectTool, was : SUBSET DirectTool, off : BOOLEAN, wasOff : BOOLEAN,
                dirty : BOOLEAN, status : {"ready", "connecting", "disabled", "blocked"},
                signing : BOOLEAN, reconnects : 0..MaxReconnects, discard : BOOLEAN]
  /\ reload \in BOOLEAN /\ edited \in BOOLEAN

Init ==
  /\ files = [kind |-> "own", base |-> Absent, mine |-> Absent, over |-> Absent,
              default |-> Unset]
  /\ session = Effective(files)
  /\ origin = "none" /\ panel = [Closed EXCEPT !.at = "new"]
  /\ reload = FALSE /\ edited = FALSE

\* A session loads what the files say.
Load ==
  /\ session' = Effective(files') /\ reload' = FALSE /\ edited' = FALSE
  /\ panel' = Closed /\ origin' = "none"

\* The files the session starts with: a server switched off here or there, or one with a
\* selection of direct tools, or one of which a save has copied an import to the user's file.
Setups ==
  [kind : {"own", "import", "host", "plugin"},
   base : {[Absent EXCEPT !.off = off] : off \in {"unset", "yes"}}, mine : {Absent},
   over : {[Absent EXCEPT !.off = off] : off \in {"unset", "yes", "no"}}, default : {Unset}]
  \cup
  [kind : {"own"}, base : {[Absent EXCEPT !.direct = d] : d \in {Unset, Lazy}},
   mine : {Absent}, over : {Absent, [Absent EXCEPT !.more = TRUE],
                            [Absent EXCEPT !.direct = Off]}, default : {Unset, All}]
  \cup
  [kind : {"import"}, base : {Absent}, over : {Absent}, default : {Unset},
   mine : [off : {"unset", "yes"}, direct : {Off} \cup {Listing({t}) : t \in DirectTool}, more : {TRUE}]]

Begin == \E setup \in Setups : panel.at = "new" /\ files' = setup /\ Load

Reload == panel.at = "closed" /\ (reload \/ edited) /\ UNCHANGED files /\ Load

\* Someone edits a file, or /mcp-adapter enable or disable writes the override; the
\* session goes on with what it loaded.
Edit(f) ==
  /\ panel.at # "new" /\ ~edited /\ ~reload /\ f # files
  /\ files \in Setups /\ files.kind = "own"      \* bound: before any save, in the adapter's files
  /\ files' = f /\ edited' = TRUE
  /\ UNCHANGED <<session, origin, panel, reload>>

Disables(off)  == Edit(Overridden(files, off))
DropsOverride  == Edit([files EXCEPT !.over = Absent])
SwitchesBase   == Edit([files EXCEPT !.base.off = IF @ = "yes" THEN "unset" ELSE "yes"])

\* The panel shows the tools the cache lists, unless the server is switched off.  Bound: the
\* files are as a session may find them at its start, no save of this one before.
Open(listed, blocked) ==
  LET off == session.off = "yes"
      tools == IF off THEN {} ELSE listed
      direct == tools \cap Configured(session.direct) IN
  /\ panel.at = "closed" /\ ~reload /\ files \in Setups
  /\ origin' = Provenance(files)
  /\ panel' = [Closed EXCEPT !.at = "open", !.listed = tools, !.direct = direct,
                 !.was = direct, !.off = off, !.wasOff = off,
                 !.status = IF blocked THEN "blocked" ELSE IF off THEN "disabled" ELSE "ready"]
  /\ UNCHANGED <<files, session, reload, edited>>

\* updateDirty()
Marked(p) == [p EXCEPT !.dirty = p.off # p.wasOff \/ p.direct # p.was]

\* A key or a callback that changes only the panel.
Shows(p) == panel' = p /\ UNCHANGED <<files, session, origin, reload, edited>>

ToggleTool(t) ==
  /\ panel.at = "open" /\ t \in panel.listed
  /\ Shows(Marked([panel EXCEPT !.direct = IF t \in @ THEN @ \ {t} ELSE @ \cup {t}]))

ToggleServer ==
  /\ panel.at = "open"
  /\ Shows(Marked([panel EXCEPT !.direct = IF panel.listed \subseteq @ THEN {}
                                           ELSE panel.listed]))

Disable ==
  /\ panel.at = "open" /\ panel.status # "blocked"
  /\ Shows(Marked([panel EXCEPT !.off = ~@]))

\* reconnectServer() of the panel
Reconnecting(p) ==
  IF p.status = "ready" THEN [p EXCEPT !.status = "connecting", !.reconnects = @ + 1] ELSE p

Reconnect ==
  /\ panel.at = "open" /\ panel.reconnects < MaxReconnects
  /\ Shows(Reconnecting(panel))

\* rebuildServerTools(): a tool the panel knows keeps its switch.
Rebuilt(p, listed) ==
  LET fresh == (listed \ p.listed) \cap Configured(session.direct) IN
  Marked([p EXCEPT !.listed = listed, !.direct = (p.direct \cap listed) \cup fresh,
                   !.was = (p.was \cap listed) \cup fresh])

\* A reconnect that connected shows the tools of the server, one that failed those it had.
Reconnected(listed) ==
  /\ panel.at \in {"open", "asking"} /\ panel.reconnects > 0
  /\ Shows(Rebuilt([panel EXCEPT !.status = "ready", !.reconnects = @ - 1], listed))

ReconnectFails ==
  /\ panel.at \in {"open", "asking"} /\ panel.reconnects > 0
  /\ Shows([panel EXCEPT !.status = "ready", !.reconnects = @ - 1])

\* authenticateServer(); a sign-in that succeeds reconnects the server.
Authenticate ==
  /\ panel.at = "open" /\ panel.status = "ready" /\ ~panel.signing
  /\ Shows([panel EXCEPT !.signing = TRUE])

SignedIn(ok) ==
  /\ panel.at \in {"open", "asking"} /\ panel.signing
  /\ ok => panel.reconnects < MaxReconnects
  /\ LET p == [panel EXCEPT !.signing = FALSE, !.status = "ready"] IN
     Shows(IF ok THEN Reconnecting(p) ELSE p)

-----------------------------------------------------------------------------
(* Leaving the panel *)

\* ctrl+c, the minute without a key, and the answers that discard
Cancel == panel.at \in {"open", "asking"} /\ Shows(Closed)

Escape ==
  /\ panel.at = "open"
  /\ Shows(IF panel.dirty THEN [panel EXCEPT !.at = "asking", !.discard = FALSE] ELSE Closed)

KeepEditing == panel.at = "asking" /\ Shows([panel EXCEPT !.at = "open"])
Arrow       == panel.at = "asking" /\ Shows([panel EXCEPT !.discard = ~@])

\* buildResult()
Chosen ==
  IF panel.direct = panel.listed THEN All
  ELSE IF panel.direct = {} THEN Off
  ELSE Listing(panel.direct)

\* The save of openMcpPanel().  Writing the override may fail, which only says so; then
\* the selection is not written, or it is and keepProjectServerApprovals() fails, or the
\* session takes it and its tools cannot be synchronised.
Save(overrideFails, end) ==
  LET switched == panel.off # panel.wasOff /\ ~overrideFails
      selected == panel.direct # panel.was
      f == IF switched THEN Overridden(files, panel.off) ELSE files IN
  /\ panel.at = "open" \/ (panel.at = "asking" /\ ~panel.discard)
  /\ overrideFails => panel.off # panel.wasOff
  /\ end # "ok" => selected
  /\ files' = IF selected /\ end # "unwritten" THEN Written(f, Chosen) ELSE f
  /\ session' = IF selected /\ end \in {"ok", "unsynced"}
                THEN [session EXCEPT !.direct = Chosen] ELSE session
  /\ reload' = (f # files \/ end \in {"unapproved", "unsynced"})
  /\ panel' = Closed
  /\ UNCHANGED <<origin, edited>>

Next ==
  \/ Begin \/ Reload
  \/ (\E off \in BOOLEAN : Disables(off)) \/ DropsOverride \/ SwitchesBase
  \/ (\E listed \in SUBSET DirectTool, blocked \in BOOLEAN : Open(listed, blocked))
  \/ (\E t \in DirectTool : ToggleTool(t)) \/ ToggleServer \/ Disable
  \/ Reconnect \/ (\E listed \in SUBSET DirectTool : Reconnected(listed)) \/ ReconnectFails
  \/ Authenticate \/ (\E ok \in BOOLEAN : SignedIn(ok))
  \/ Cancel \/ Escape \/ KeepEditing \/ Arrow
  \/ (\E overrideFails \in BOOLEAN, end \in {"ok", "unwritten", "unapproved", "unsynced"} :
        Save(overrideFails, end))

-----------------------------------------------------------------------------
(* Properties *)

\* What a save without failures wrote is what a session that loads it will show: the
\* switch, and every tool the panel listed.  Not for files that changed under the
\* session; not for a plugin, whose selection lasts as long as the session; and a server
\* that only a discovered host or a plugin disables stays so (config.ts:2013 says an
\* enable writes an explicit false where a lower source disables it).
SavedIsShown ==
  [][Save(FALSE, "ok") /\ ~edited =>
     LET now == Effective(files') IN
     /\ \/ panel.off = (now.off = "yes")
        \/ ~panel.off /\ files.kind \in {"host", "plugin"} /\ files.base.off = "yes"
     /\ \/ panel.direct = panel.listed \cap Configured(now.direct)
        \/ origin = "none"]_vars

\* The session runs with what the files say or is about to be reloaded, whichever of the
\* steps of a save failed.
SessionIsCurrent ==
  panel.at # "new" /\ ~edited /\ ~reload =>
    \/ session = Effective(files)
    \/ /\ files.kind = "plugin" /\ session.off = Effective(files).off

\* A save writes what the user changed: the switch only if it was turned, the selection
\* only if a tool was (a selection "search" shows as all tools, and stays one).
OnlyChangesAreSaved ==
  [][\A overrideFails \in BOOLEAN, end \in {"ok", "unwritten", "unapproved", "unsynced"} :
       Save(overrideFails, end) =>
         /\ panel.off = panel.wasOff => files'.over.off = files.over.off
         /\ panel.direct = panel.was => Effective(files').direct = Effective(files).direct]_vars

\* Leaving with escape loses nothing: without a question only when there is nothing to
\* save, whatever reconnects changed in the list since the last key.
EscapeLosesNothing ==
  [][Escape /\ panel'.at = "closed" => panel.off = panel.wasOff /\ panel.direct = panel.was]_vars

\* A list that arrives while the user works turns no switch, and a server is never left
\* "connecting", where neither ctrl+r nor ctrl+a does anything.
ListsTurnNoSwitch ==
  [][panel.at # "closed" /\ panel'.listed # panel.listed /\ panel'.at # "closed" =>
     panel'.direct \cap panel.listed = panel.direct \cap panel'.listed]_vars

ConnectingEnds == panel.status = "connecting" => panel.reconnects > 0

-----------------------------------------------------------------------------
(* The inductive invariant. *)

Shown == panel.at \in {"open", "asking"}

\* What the panel shows agrees with what it had when it opened and with what was turned since.
PanelIsConsistent ==
  Shown =>
    /\ panel.direct \subseteq panel.listed
    /\ panel.was = panel.listed \cap Configured(session.direct)
    /\ panel.wasOff = (session.off = "yes")
    /\ panel.dirty = (panel.off # panel.wasOff \/ panel.direct # panel.was)

\* A server that was switched off lists nothing, whatever its switch says now.
OffListsNothing ==
  Shown /\ panel.wasOff =>
    panel.listed = {} /\ panel.status \in {"disabled", "blocked"} /\ panel.reconnects = 0 /\ ~panel.signing

\* The layers are those of the session; only a plugin's selection may be the session's alone.
LayersAreCurrent ==
  /\ Shown => ~reload /\ (~edited => origin = Provenance(files))
  /\ panel.at # "new" /\ ~edited /\ ~reload =>
       \/ session = Effective(files)
       \/ /\ files.kind = "plugin" /\ {files.over, files.mine} = {Absent}
          /\ session.off = Effective(files).off

PanelInv == TypeOK /\ PanelIsConsistent /\ OffListsNothing /\ LayersAreCurrent /\ ConnectingEnds
=============================================================================
