----------------------------- MODULE SetupPanel -----------------------------
(***************************************************************************)
(* The setup panel (mcp-setup-panel.ts, openMcpSetup() of commands.ts) and *)
(* what it writes (config.ts): a known server in a shared file, a starter  *)
(* file, the adoption of imports.  What it offers comes from a discovery   *)
(* made when it opened; the files may change under it.  Four layers define *)
(* the known server: the global shared file, the user's adapter file, the  *)
(* project's shared file and the project's Pi file; later ones win, field  *)
(* by field.                                                               *)
(***************************************************************************)
EXTENDS Naturals

VARIABLES
  disk,      \* the configuration files
  seen,      \* the discovery the panel shows
  loaded,    \* what the session made of the files
  setup,     \* the panel
  changed,   \* openMcpSetup()'s configChanged
  foreign    \* the files were changed by others since the session loaded them

vars == <<disk, seen, loaded, setup, changed, foreign>>

-----------------------------------------------------------------------------
(* The files *)

Targets == {"global", "project"}
Layers  == <<"global", "user", "project", "over">>

\* A file, and the entry of the known server in it: with the preset's fields ("ours") or
\* others, and perhaps switched off.
Files  == [file : {"absent", "bad", "there"}, fields : {"none", "ours", "other"},
           off : {"unset", "yes"}]
NoFile == [file |-> "absent", fields |-> "none", off |-> "unset"]
Empty  == [NoFile EXCEPT !.file = "there"]
Bad    == [NoFile EXCEPT !.file = "bad"]
Ours   == [Empty EXCEPT !.fields = "ours"]
Other  == [Empty EXCEPT !.fields = "other"]
Switch == [Empty EXCEPT !.off = "yes"]

Read(d) == IF d.exclusive THEN {"user"} ELSE {"global", "user", "project", "over"}
Rank(layer) == CHOOSE n \in DOMAIN Layers : Layers[n] = layer

\* loadMcpConfig(): the fields of the last layer that has them; any switch is the last one's.
Effective(d) ==
  LET Last(has(_)) == CHOOSE l \in Read(d) :
        /\ has(d[l])
        /\ \A m \in Read(d) : has(d[m]) => Rank(m) <= Rank(l)
      Defined(f) == f.fields # "none"
      Set(f) == f.off # "unset"
      Some(has(_)) == \E l \in Read(d) : has(d[l]) IN
  [fields  |-> IF Some(Defined) THEN d[Last(Defined)].fields ELSE "none",
   off     |-> IF Some(Set) THEN d[Last(Set)].off ELSE "unset",
   imports |-> d.imports]

\* Whether a session that loads the files runs the preset as it is
InEffect(d) == Effective(d).fields = "ours" /\ Effective(d).off = "unset"

\* getMcpDiscoverySummary()
Discovery(d) ==
  [exists |-> [t \in Targets |-> d[t].file # "absent"],
   any    |-> d.hosts \/ \E l \in Read(d) : d[l].file # "absent"]

-----------------------------------------------------------------------------
(* The panel *)

Closed == [at |-> "closed", screen |-> "setup", imports |-> FALSE, target |-> "project",
           busy |-> "no", notice |-> "none", adopt |-> TRUE]

TypeOK ==
  /\ disk \in [global : Files, user : Files, project : Files, over : Files,
               exclusive : BOOLEAN, imports : BOOLEAN, hosts : BOOLEAN]
  /\ seen \in [exists : [Targets -> BOOLEAN], any : BOOLEAN]
  /\ loaded \in [fields : {"none", "ours", "other"}, off : {"unset", "yes"}, imports : BOOLEAN]
  /\ setup \in [at : {"new", "closed", "open"}, screen : {"empty", "setup", "imports", "paths"},
                imports : BOOLEAN, target : Targets, busy : {"no", "added", "ignored", "opening"},
                notice : {"none", "added", "ignored", "failed", "other"}, adopt : BOOLEAN]
  /\ changed \in BOOLEAN /\ foreign \in BOOLEAN

Init ==
  /\ disk = [global |-> NoFile, user |-> NoFile, project |-> NoFile, over |-> NoFile,
             exclusive |-> FALSE, imports |-> FALSE, hosts |-> FALSE]
  /\ seen = Discovery(disk) /\ loaded = Effective(disk)
  /\ setup = [Closed EXCEPT !.at = "new"] /\ changed = FALSE /\ foreign = FALSE

\* A session loads the files.
Load ==
  /\ loaded' = Effective(disk') /\ setup' = Closed
  /\ seen' = Discovery(disk') /\ changed' = FALSE /\ foreign' = FALSE

\* The files the session starts with.
Begin ==
  /\ setup.at = "new"
  /\ \E g \in {NoFile, Other}, u \in {NoFile, Other, Switch}, p \in {NoFile, Other, Bad},
        o \in {NoFile, Switch}, exclusive \in BOOLEAN, hosts \in BOOLEAN :
       /\ exclusive \/ hosts => {p, o} = {NoFile}
       /\ ~(exclusive /\ hosts)
       /\ disk' = [disk EXCEPT !.global = g, !.user = u, !.project = p, !.over = o,
                            !.exclusive = exclusive, !.hosts = hosts]
  /\ Load

\* The command reloads when the panel says the configuration changed, the user at will.
Reload == setup.at = "closed" /\ (changed \/ foreign) /\ UNCHANGED disk /\ Load

\* Someone else writes a shared file.
Write(t, f) ==
  /\ setup.at # "new" /\ ~foreign /\ ~changed /\ f # disk[t]
  /\ disk' = [disk EXCEPT ![t] = f] /\ foreign' = TRUE
  /\ UNCHANGED <<seen, loaded, setup, changed>>

\* `setup`, or the panel of the servers when the session has none: that one leaves the
\* hosts' configurations out.
Open(mode) ==
  /\ setup.at = "closed" /\ ~changed
  /\ mode = "empty" => loaded.fields = "none"
  /\ setup' = [Closed EXCEPT !.at = "open", !.screen = mode,
                             !.imports = mode = "setup" /\ disk.hosts]
  /\ seen' = Discovery(IF mode = "setup" THEN disk ELSE [disk EXCEPT !.hosts = FALSE])
  /\ UNCHANGED <<disk, loaded, changed, foreign>>

\* A key that only moves in the panel; it clears the notice.
Shows(s) == setup' = s /\ UNCHANGED <<disk, seen, loaded, changed, foreign>>

Quiet == [setup EXCEPT !.notice = "none"]
Idle(screens) == setup.at = "open" /\ setup.busy = "no" /\ setup.screen \in screens
Home == IF seen.any THEN "setup" ELSE "empty"

RunSetup     == Idle({"empty"}) /\ Shows([Quiet EXCEPT !.screen = "setup"])
SelectTarget(t) == Idle({"empty", "setup"}) /\ Shows([Quiet EXCEPT !.target = t, !.notice = "other"])
ShowImports  == Idle({"empty", "setup"}) /\ setup.imports /\ Shows([Quiet EXCEPT !.screen = "imports"])
ShowPaths    == Idle({"empty", "setup"}) /\ seen.any /\ Shows([Quiet EXCEPT !.screen = "paths"])
ToggleImport == Idle({"imports"}) /\ Shows([Quiet EXCEPT !.adopt = ~@])

\* Escape leads back from a screen, also while the panel is busy; elsewhere it closes.
Back ==
  /\ setup.at = "open" /\ setup.screen \in {"imports", "paths"}
  /\ Shows([Quiet EXCEPT !.screen = Home])

\* Escape, ctrl+c, or a minute without a key, also while the panel is busy.
Close == setup.at = "open" /\ Shows(Closed)

-----------------------------------------------------------------------------
(* What it does *)

\* runBusy(): an action that throws says why.  What was written stays written.
Fails(screens) ==
  /\ Idle(screens) /\ setup' = [setup EXCEPT !.notice = "failed"]
  /\ UNCHANGED <<disk, seen, loaded, changed, foreign>>

\* writeSharedServerEntry(): the entry replaces the file's; a file that is not a
\* configuration is not touched.
AddedTo(t) == [disk EXCEPT ![t] = Ours]

\* addKnownServer(): whether the server is in effect is decided before one of a desktop
\* application is looked for; the panel is busy meanwhile.  An error between the write and
\* the end is shown as a failure.
AddServer(desktop, throws) ==
  LET t == IF desktop THEN "global" ELSE setup.target
      ends == IF throws THEN "failed" ELSE IF InEffect(AddedTo(t)) THEN "added" ELSE "ignored"
      probes == desktop /\ ~throws IN
  /\ Idle({"empty", "setup"}) /\ disk[t].file # "bad"
  /\ disk' = AddedTo(t) /\ changed' = TRUE
  /\ setup' = [setup EXCEPT !.busy = IF probes THEN ends ELSE "no",
                            !.notice = IF probes THEN "none" ELSE ends]
  /\ UNCHANGED <<seen, loaded, foreign>>

\* isLocalServerReachable() answers, or times out.
Probed ==
  /\ setup.busy \in {"added", "ignored"}
  /\ setup' = [setup EXCEPT !.busy = "no", !.notice = setup.busy]
  /\ UNCHANGED <<disk, seen, loaded, changed, foreign>>

\* writeStarterSharedConfig(), offered while the discovery knows of no file
Scaffold ==
  /\ Idle({"empty", "setup"}) /\ ~seen.exists[setup.target]
  /\ disk[setup.target].file = "absent"
  /\ disk' = [disk EXCEPT ![setup.target] = Empty] /\ changed' = TRUE
  /\ setup' = [setup EXCEPT !.notice = "other"]
  /\ UNCHANGED <<seen, loaded, foreign>>

\* applySelectedImports() and ensureCompatibilityImports()
Adopt ==
  /\ Idle({"imports"})
  /\ IF setup.adopt
     THEN /\ disk' = [disk EXCEPT !.imports = TRUE,
                        !.user.file = IF disk.imports THEN @ ELSE "there"]
          /\ changed' = (changed \/ ~disk.imports)
          /\ setup' = [setup EXCEPT !.notice = "other", !.screen = Home]
     ELSE /\ setup' = [setup EXCEPT !.notice = "failed"]
          /\ UNCHANGED <<disk, changed>>
  /\ UNCHANGED <<seen, loaded, foreign>>

OpenPath ==
  /\ Idle({"paths"}) /\ setup' = [Quiet EXCEPT !.busy = "opening"]
  /\ UNCHANGED <<disk, seen, loaded, changed, foreign>>

Opened ==
  /\ setup.busy = "opening" /\ setup' = [setup EXCEPT !.busy = "no", !.notice = "other"]
  /\ UNCHANGED <<disk, seen, loaded, changed, foreign>>

Next ==
  \/ Begin \/ Reload
  \/ (\E t \in Targets, f \in {Other, Bad} : Write(t, f))
  \/ (\E mode \in {"empty", "setup"} : Open(mode))
  \/ RunSetup \/ (\E t \in Targets : SelectTarget(t)) \/ ShowImports \/ ShowPaths
  \/ ToggleImport \/ Back \/ Close \/ Fails({"empty", "setup", "imports"})
  \/ (\E desktop, throws \in BOOLEAN : AddServer(desktop, throws)) \/ Probed
  \/ Scaffold \/ Adopt \/ OpenPath \/ Opened

-----------------------------------------------------------------------------
(* Properties *)

\* The session runs with what the files say or a reload follows, also when the panel was
\* closed in the middle of an action, or the action failed after its write.
PanelReloads == setup.at = "closed" /\ ~changed /\ ~foreign => loaded = Effective(disk)

\* The notice tells the truth: "added" only if the session will run the server as the
\* preset defines it, "won't use it" only if not, whatever other files say of the server.
NoticeIsTrue ==
  ~foreign => /\ setup.notice = "added" => InEffect(disk)
              /\ setup.notice = "ignored" => ~InEffect(disk)

\* The panel loses nobody's servers, however old its discovery: no file that defines one
\* is replaced by a starter, and no file it cannot read is written.
NothingIsLost ==
  [][~foreign' \/ foreign =>
       \A t \in Targets :
         /\ disk[t].fields # "none" => disk'[t].fields # "none" \/ setup.at = "new"
         /\ disk[t].file = "bad" => disk'[t] = disk[t] \/ setup.at = "new"]_vars

-----------------------------------------------------------------------------
(* The inductive invariant. *)

\* Only a file that is there defines the server.
FilesAreRead == \A t \in Targets : disk[t].file # "there" => disk[t].fields = "none"

\* What the panel is about to say is true, as what it says.
EndsAreTrue ==
  ~foreign => /\ setup.busy = "added" => InEffect(disk)
              /\ setup.busy = "ignored" => ~InEffect(disk)

LoadedIsCurrent == setup.at # "new" /\ ~changed /\ ~foreign => loaded = Effective(disk)

SetupInv == TypeOK /\ FilesAreRead /\ EndsAreTrue /\ LoadedIsCurrent /\ NoticeIsTrue
=============================================================================
