------------------------------ MODULE ConfigWatch ------------------------------
(***************************************************************************)
(* The stdio server process and the configuration files it was started     *)
(* with (bin/mcp-server.ts, config-watch.ts): it loads them, fingerprints  *)
(* them, polls, and exits when they changed, for its client to start it    *)
(* again.                                                                  *)
(***************************************************************************)
EXTENDS Naturals

CONSTANTS
  Content,    \* what the files can hold, together
  Absent,     \* no files
  MaxEdits    \* bound: how often somebody writes the files

VARIABLES
  disk,         \* the files
  edits,
  process,      \* "down", "loaded" (before the fingerprint), "running", or "exiting": a restart is pending
  loadedConfig, \* what the process serves
  baseline,     \* the fingerprint
  autoRestart,  \* MCP_CONFIG_WATCH is not off
  warnedDrift,
  asked,        \* the user asked for this restart
  missed        \* history: written between load and fingerprint

vars == <<disk, edits, process, loadedConfig, baseline, autoRestart, warnedDrift, asked, missed>>

TypeOK ==
  /\ disk \in Content \cup {Absent} /\ loadedConfig \in Content \cup {Absent}
  /\ baseline \in Content \cup {Absent} /\ edits \in 0..MaxEdits
  /\ process \in {"down", "loaded", "running", "exiting"}
  /\ autoRestart \in BOOLEAN /\ warnedDrift \in BOOLEAN /\ asked \in BOOLEAN /\ missed \in BOOLEAN

Starts(c, restarts) ==
  /\ disk = c /\ edits = 0 /\ process = "down" /\ loadedConfig = Absent /\ baseline = Absent
  /\ autoRestart = restarts /\ warnedDrift = FALSE /\ asked = FALSE /\ missed = FALSE

\* A process that runs on what it loaded, with nothing to do.
Rests(c) ==
  /\ disk = c /\ edits = 0 /\ process = "running" /\ loadedConfig = c /\ baseline = c
  /\ autoRestart = FALSE /\ warnedDrift = FALSE /\ asked = FALSE /\ missed = FALSE

Init == \E c \in Content \cup {Absent}, restarts \in BOOLEAN : Starts(c, restarts)

\* The client starts the process, which loads the files.
Start ==
  /\ process = "down" /\ process' = "loaded" /\ loadedConfig' = disk /\ missed' = FALSE
  /\ warnedDrift' = FALSE /\ asked' = FALSE
  /\ UNCHANGED <<disk, edits, baseline, autoRestart>>

\* startConfigWatch()
StartConfigWatch ==
  /\ process = "loaded" /\ process' = "running" /\ baseline' = disk
  /\ UNCHANGED <<disk, edits, loadedConfig, autoRestart, warnedDrift, asked, missed>>

\* MUTANT of HasDrift: whatever was written is another content.
HasDriftByWrite == edits # 0

HasDrift == disk # baseline

\* A tick of the poll
CheckNow ==
  /\ process = "running"
  /\ warnedDrift' = (HasDrift /\ (warnedDrift \/ ~autoRestart))
  /\ process' = IF HasDrift /\ autoRestart THEN "exiting" ELSE process
  /\ UNCHANGED <<disk, edits, loadedConfig, baseline, autoRestart, asked, missed>>

\* mcp({ action: "reload" }): restartWithFreshConfig()
Reload ==
  /\ process = "running" /\ process' = "exiting" /\ asked' = TRUE
  /\ UNCHANGED <<disk, edits, loadedConfig, baseline, autoRestart, warnedDrift, missed>>

\* onRestart(), after a delay
Exit ==
  /\ process = "exiting" /\ process' = "down"
  /\ UNCHANGED <<disk, edits, loadedConfig, baseline, autoRestart, warnedDrift, asked, missed>>

\* Somebody writes the files, possibly what they hold already.
Edit ==
  /\ edits < MaxEdits /\ edits' = edits + 1 /\ disk' \in Content \cup {Absent}
  /\ missed' = (missed \/ (process = "loaded" /\ disk' # disk))
  /\ UNCHANGED <<process, loadedConfig, baseline, autoRestart, warnedDrift, asked>>

Next == Start \/ StartConfigWatch \/ CheckNow \/ Reload \/ Exit \/ Edit

\* The process runs, its timers fire, and the client starts it again.
Fairness == WF_vars(Start \/ StartConfigWatch \/ CheckNow \/ Exit)

FairSpec == Init /\ [][Next]_vars /\ Fairness

-----------------------------------------------------------------------------
(* Properties *)

\* The fingerprint is of what the process loaded, and before it is taken the files are what it
\* loaded, unless they were written in between.
BaselineIsLoaded ==
  /\ process = "loaded" => disk = loadedConfig \/ missed
  /\ process = "running" => baseline = loadedConfig \/ missed

\* Inductive: NoNeedlessRestart follows.
WatchInv == TypeOK /\ BaselineIsLoaded

\* When nobody writes the files any more, the process ends up serving them, unless they were
\* written before it could take their fingerprint.
ConfigIsServed ==
  <>[](~autoRestart \/ missed \/ (process \in {"loaded", "running"} => loadedConfig = disk))

\* The process only exits because the user asked for it, or because the files were not what it
\* loaded and it may: writing the same bytes again restarts nothing.
NoNeedlessRestart ==
  [][process = "running" /\ process' = "exiting" =>
       asked' \/ (autoRestart /\ (disk # loadedConfig \/ missed))]_vars
=============================================================================
