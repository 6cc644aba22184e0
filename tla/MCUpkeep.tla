------------------------------ MODULE MCUpkeep ------------------------------
(***************************************************************************)
(* Instances for TLC of what goes on beside the tool calls and must keep   *)
(* going: keep-alive and the catalog, which meet in refreshTools and model *)
(* it each at its own end, the background tasks, and the configuration     *)
(* watch of the standalone server.  A behaviour follows one of them        *)
(* (`focus`), while the others rest.                                       *)
(***************************************************************************)
EXTENDS KeepAlive, BackgroundTasks

CONSTANTS MaxVersion, Content, Absent, MaxEdits

ASSUME LastConnIsNat == LastConn \in Nat
ASSUME NullIsNoConn == Null \notin Conn

VARIABLES focus,
  current, server, listen, sub, halted, stale, waiting, wanted, filter, job,
  tools, shown, owed, unqueued, refresh, note,
  disk, edits, process, loadedConfig, baseline, autoRestart, warnedDrift, asked, missed

keeping == <<registered, route, retry, pending, pass, signingIn, phase>>
catalog == <<current, server, listen, sub, halted, stale, waiting, wanted, filter, job,
             tools, shown, owed, unqueued, refresh, note>>
watch   == <<disk, edits, process, loadedConfig, baseline, autoRestart, warnedDrift, asked, missed>>

Cat   == INSTANCE Catalog
Watch == INSTANCE ConfigWatch

MCInit ==
  /\ TaskInit
  /\ \/ focus = "keep-alive" /\ Init /\ Cat!Starts(FALSE)
     \/ focus = "catalog" /\ Cat!Init /\ Starts("stopped")
     \/ focus \in {"tasks", "watch"} /\ Starts("stopped") /\ Cat!Starts(FALSE)
  /\ IF focus = "watch" THEN Watch!Init ELSE Watch!Rests(Absent)

MCNext ==
  \/ focus = "keep-alive" /\ Next /\ UNCHANGED <<focus, catalog, taskVars, watch>>
  \/ focus = "catalog" /\ Cat!Next /\ UNCHANGED <<focus, keeping, taskVars, watch>>
  \/ focus = "tasks" /\ TaskNext /\ UNCHANGED <<focus, up, keeping, catalog, watch>>
  \/ focus = "watch" /\ Watch!Next /\ UNCHANGED <<focus, up, keeping, catalog, taskVars>>

MCSpec == /\ MCInit /\ [][MCNext]_<<focus, up, keeping, catalog, taskVars, watch>>
          /\ Fairness /\ Cat!Fairness /\ TaskFairness /\ Watch!Fairness

-----------------------------------------------------------------------------
(* The properties of the instances, under the names they have there. *)

\* The maps, the pass, the lists, the tasks and the processes stay well typed, and the
\* inductive invariants of the four parts hold.
UpkeepTypeOK ==
  (IF focus = "keep-alive" THEN IInv ELSE TypeOK) /\ Cat!CatalogInv /\ TaskInv /\ Watch!WatchInv

\* A reachable keep-alive server is connected again, a shutdown ends although a pass is in
\* flight, a stale catalog is confirmed once the server answers, and the process ends up with
\* the files as they are.
UpkeepGoesOn == Recovers /\ ShutdownEnds /\ Cat!StaleIsConfirmed /\ Watch!ConfigIsServed

\* The catalog: a refresh brings back no older list, and what is shown is what the connection
\* listed or will be.
CatalogIsCurrent == Cat!RefreshKeepsNewer /\ []Cat!ShownOrOwed
\* A listen that reads active has a subscription the server has not closed.
ActiveListenIsOpen == Cat!ActiveListenIsOpen

\* Only a change of the files, or the user, restarts the process (config-watch.ts).
RestartsFollowEdits == Watch!NoNeedlessRestart
=============================================================================
