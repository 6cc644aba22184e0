--------------------------- MODULE BackgroundTasks ---------------------------
(***************************************************************************)
(* BackgroundTaskRegistry (task-jobs.ts) for the tasks of one server: tool *)
(* calls the server answered with a task, followed until their outcome     *)
(* reaches the model, moved when the server's connection is replaced,      *)
(* recorded when the session stops and restored when it starts again.      *)
(*                                                                         *)
(* Connections are numbered in the order they become the route.  A task    *)
(* has at most one execution per connection: the one the call returned, or *)
(* the one resumeTask() returned there; and the continuation that works    *)
(* for task t on connection c is pc[t][c]: a start(), restore() or         *)
(* handOver() that ends in a follow() chain.                               *)
(*                                                                         *)
(* Executions belong to ext-tasks and are modelled from their use: handoff *)
(* and detach settle an execution locally as closed, its first outcome     *)
(* wins, cancel sends one tasks/cancel frame, and closing the task session *)
(* cancels every execution that has not settled.                           *)
(***************************************************************************)
EXTENDS Naturals, FiniteSets

CONSTANTS
  Task,      \* the tasks of a behaviour
  Null,
  LastConn   \* bound: the server's connections are 0 .. LastConn

Conn == 0 .. LastConn

VARIABLES
  conn,         \* the connection that is the route, or was the last one
  connState,    \* "open", "replaced" (status closed, not yet disposed) or "gone"
  remote,       \* the task on the server
  life,         \* the execution of a task on a connection
  cancelled,    \* the executions a tasks/cancel frame was sent for
  entry,        \* TaskEntry, with its membership of `running` and `resuming`
  pc,           \* the continuation of a task on a connection
  via,          \* what began that continuation
  mine,         \* the generation it captured
  old,          \* the connection it moves the task from
  saving,       \* persistOnStop() of the task
  awaited,      \* tasks that handOffForShutdown() has still to await
  stopping,
  ownerAborted, \* the registry's ownerSignal
  told,         \* follow-up messages delivered for the task
  record,       \* the session record says the task is pending
  dropped,      \* rendering the outcome or recording the task failed
  superseded    \* a connection was replaced while the last hand-over was under way

conns  == <<conn, connState>>
execs  == <<remote, life, cancelled>>
runs   == <<pc, via, mine, old>>
stop   == <<saving, awaited, stopping, ownerAborted>>
facts  == <<told, record, dropped>>
taskVars   == <<conns, execs, entry, runs, stop, facts, superseded>>

\* How an execution settles: closed locally, or with the outcome the server gave
\* (completed, failed or cancelled, which only the wording of the message tells apart).
Settled == {"closed", "ended"}
Entry == [gen : Nat, running : BOOLEAN, exec : Conn \cup {Null},
          resuming : Conn \cup {Null}, listener : Conn \cup {Null}, released : {0, 1}]

\* The values of the registry, of every continuation and of every execution.
TaskTypeOK ==
  /\ conn \in Conn
  /\ connState \in [Conn -> {"none", "open", "replaced", "gone"}]
  /\ remote \in [Task -> {"working", "ended"}]
  /\ life \in [Task -> [Conn -> {"none", "pending", "refused", "live"} \cup Settled]]
  /\ cancelled \subseteq Task \X Conn
  /\ entry \in [Task -> Entry]
  /\ pc \in [Task -> [Conn -> {"idle", "move", "resume", "explain", "settle", "deliver", "done"}]]
  /\ via \in [Task -> [Conn -> {"none", "start", "late", "restore", "move", "moveRestore"}]]
  /\ mine \in [Task -> [Conn -> Nat]]
  /\ old \in [Task -> [Conn -> Conn \cup {Null}]]
  /\ saving \in [Task -> {"none", "handoff", "done"}]
  /\ awaited \subseteq Task
  /\ stopping \in BOOLEAN /\ ownerAborted \in BOOLEAN
  /\ told \in [Task -> Nat] /\ record \in [Task -> BOOLEAN] /\ dropped \in [Task -> BOOLEAN]
  /\ superseded \in BOOLEAN

TaskInit ==
  /\ conn = 0
  /\ connState = [c \in Conn |-> IF c = 0 THEN "open" ELSE "none"]
  /\ remote = [t \in Task |-> "working"]
  /\ life = [t \in Task |-> [c \in Conn |-> "none"]]
  /\ cancelled = {}
  /\ entry = [t \in Task |-> [gen |-> 0, running |-> FALSE, exec |-> Null,
                              resuming |-> Null, listener |-> Null, released |-> 0]]
  /\ pc = [t \in Task |-> [c \in Conn |-> "idle"]]
  /\ via = [t \in Task |-> [c \in Conn |-> "none"]]
  /\ mine = [t \in Task |-> [c \in Conn |-> 0]]
  /\ old = [t \in Task |-> [c \in Conn |-> Null]]
  /\ saving = [t \in Task |-> "none"]
  /\ awaited = {}
  /\ stopping = FALSE /\ ownerAborted = FALSE
  /\ told = [t \in Task |-> 0]
  /\ record \in [Task -> BOOLEAN]   \* the tasks the last session left pending
  /\ dropped = [t \in Task |-> FALSE] /\ superseded = FALSE

-----------------------------------------------------------------------------
(* The entry of a task. *)

Begun(t) == \E c \in Conn : life[t][c] # "none"

Owns(t, g) == entry[t].gen = g /\ ~stopping

TakenOver(e) == [e EXCEPT !.gen = @ + 1, !.listener = Null]
Released(e)  == [e EXCEPT !.running = FALSE, !.listener = Null, !.released = @ + 1]

\* relinquish(): who lost the entry releases the count only if nobody took it over.
Relinquished(e, g) == IF e.gen = g THEN Released(TakenOver(e)) ELSE e

\* resumeOn() goes on: the task is no longer resuming on c.
Resumed(e, c) == [e EXCEPT !.resuming = IF @ = c THEN Null ELSE @]

\* handoff() and detach() settle an execution locally, without a cancel.
Detached(l) == IF l = "live" THEN "closed" ELSE l

\* The frames that cancelling the execution of t on c sends.
CancelOf(t, c) ==
  IF <<t, c>> \in cancelled \/ life[t][c] = "ended"
  THEN {} ELSE {<<t, c>>}

At(f, t, c, v) == [f EXCEPT ![t][c] = v]

\* follow(): the execution on c is the task's, cancelled when the owner aborts.
Followed(e, c) ==
  [e EXCEPT !.running = TRUE, !.exec = c, !.listener = IF ownerAborted THEN Null ELSE c]
Follow(t, c, e, frames) ==
  /\ entry' = [entry EXCEPT ![t] = Followed(e, c)]
  /\ cancelled' = cancelled \cup (IF ownerAborted THEN frames ELSE {})
  /\ pc' = At(pc, t, c, "settle")

-----------------------------------------------------------------------------
(* start() and restore() *)

\* The server answered a call made on c with a task: also on a connection that was
\* replaced while the call was in flight.
Start(t, c) ==
  /\ ~record[t] /\ ~Begun(t)
  /\ connState[c] \in {"open", "replaced"}
  /\ life' = At(life, t, c, "live")
  /\ via' = At(via, t, c, IF connState[c] = "open" THEN "start" ELSE "late")
  /\ IF stopping
     THEN /\ entry' = [entry EXCEPT ![t].exec = c]
          /\ saving' = [saving EXCEPT ![t] = "handoff"]
          /\ UNCHANGED <<pc, cancelled>>
     ELSE Follow(t, c, entry[t], {<<t, c>>}) /\ UNCHANGED saving
  /\ UNCHANGED <<conns, remote, mine, old, awaited, stopping, ownerAborted, facts>>

\* restore(): a task of the session's record is resumed on the current connection.
Restore(t) ==
  /\ record[t] /\ ~Begun(t)
  /\ connState[conn] = "open"
  /\ life' = At(life, t, conn, "pending")
  /\ via' = At(via, t, conn, "restore")
  /\ pc' = At(pc, t, conn, "resume")
  /\ entry' = [entry EXCEPT ![t].resuming = conn]
  /\ UNCHANGED <<conns, remote, cancelled, mine, old, stop, facts>>

-----------------------------------------------------------------------------
(* handOver() and resumeOn() *)

\* handOver() of the tasks moved to connection c has returned.
HandOverReturned(c) ==
  \A t \in Task : via[t][c] \in {"move", "moveRestore"} => pc[t][c] \notin {"move", "resume", "explain"}

\* reconnect() and connect() share an attempt that is still handing over, unless the
\* credentials it captured are no longer the server's: that one is superseded.
MayBegin == conn < LastConn

Movable(t) == entry[t].running \/ entry[t].resuming # Null

\* MUTANT of Replace: restores still resuming are not handed over.
ReplaceRunningOnly ==
  /\ connState[conn] = "open" /\ MayBegin
  /\ conn' = conn + 1
  /\ connState' = [connState EXCEPT ![conn] = "replaced", ![conn + 1] = "open"]
  /\ LET moved == {t \in Task : entry[t].running}
     IN /\ entry' = [t \in Task |-> IF t \in moved THEN TakenOver(entry[t]) ELSE entry[t]]
        /\ pc'   = [t \in Task |-> IF t \in moved THEN [pc[t] EXCEPT ![conn + 1] = "move"] ELSE pc[t]]
        /\ mine' = [t \in Task |-> IF t \in moved
                      THEN [mine[t] EXCEPT ![conn + 1] = entry[t].gen + 1] ELSE mine[t]]
        /\ via'  = [t \in Task |-> IF t \in moved THEN [via[t] EXCEPT ![conn + 1] = "move"] ELSE via[t]]
        /\ old'  = [t \in Task |-> IF t \in moved
                      THEN [old[t] EXCEPT ![conn + 1] = entry[t].exec] ELSE old[t]]
  /\ UNCHANGED <<execs, stop, facts>>

\* doReconnect() published a new connection: handOver() takes every task over.
Replace ==
  /\ connState[conn] = "open" /\ MayBegin
  /\ conn' = conn + 1
  /\ connState' = [connState EXCEPT ![conn] = "replaced", ![conn + 1] = "open"]
  /\ LET moved == {t \in Task : Movable(t)}
     IN /\ entry' = [t \in Task |-> IF t \in moved THEN TakenOver(entry[t]) ELSE entry[t]]
        /\ pc'   = [t \in Task |-> IF t \in moved THEN [pc[t] EXCEPT ![conn + 1] = "move"] ELSE pc[t]]
        /\ mine' = [t \in Task |-> IF t \in moved
                      THEN [mine[t] EXCEPT ![conn + 1] = entry[t].gen + 1] ELSE mine[t]]
        /\ via'  = [t \in Task |-> IF t \in moved
                      THEN [via[t] EXCEPT ![conn + 1] = IF entry[t].running THEN "move" ELSE "moveRestore"]
                      ELSE via[t]]
        /\ old'  = [t \in Task |-> IF t \in moved
                      THEN [old[t] EXCEPT ![conn + 1] = IF entry[t].running THEN entry[t].exec
                                                        ELSE entry[t].resuming]
                      ELSE old[t]]
  /\ UNCHANGED <<execs, stop, facts>>

\* The old execution has settled: resume the task on the new connection, if still ours.
AskResume(t, c) ==
  IF Owns(t, mine[t][c])
  THEN /\ pc' = At(pc, t, c, "resume")
       /\ life' = At(At(life, t, old[t][c], Detached(life[t][old[t][c]])), t, c, "pending")
       /\ entry' = [entry EXCEPT ![t].resuming = IF via[t][c] = "moveRestore" THEN c ELSE @]
  ELSE /\ pc' = At(pc, t, c, "done")
       /\ life' = At(life, t, old[t][c], Detached(life[t][old[t][c]]))
       /\ entry' = [entry EXCEPT ![t] = Relinquished(@, mine[t][c])]

\* old.handoff() and old.result() of a followed task.
HandedOff(t, c) ==
  /\ pc[t][c] = "move" /\ via[t][c] = "move"
  /\ AskResume(t, c)
  /\ UNCHANGED <<conns, remote, cancelled, via, mine, old, stop, facts>>

\* A restore was still resuming: its resume answered, which the continuation that asked
\* takes first, and what it answered has settled.
RestoreAbandoned(t, c) ==
  /\ pc[t][c] = "move" /\ via[t][c] = "moveRestore"
  /\ pc[t][old[t][c]] = "done"
  /\ life[t][old[t][c]] \in Settled \cup {"refused"}
  /\ AskResume(t, c)
  /\ UNCHANGED <<conns, remote, cancelled, via, mine, old, stop, facts>>

\* resumeTask() settles: with an execution that follows the task, or with an error.
Answered(t, c) ==
  /\ life[t][c] = "pending"
  /\ \/ life' = At(life, t, c, "refused")
     \/ connState[c] # "gone" /\ life' = At(life, t, c, "live")
  /\ UNCHANGED <<conns, remote, cancelled, entry, runs, stop, facts>>

FromRestore(t, c) == via[t][c] \in {"restore", "moveRestore"}
ConnClosed(c)     == connState[c] # "open"

\* resumeOn() goes on after resumeTask() failed: a restore cut short says nothing, a
\* hand-over cut short cancels, and otherwise the model is told the outcome is unknown.
ResumeRefused(t, c) ==
  /\ pc[t][c] = "resume" /\ life[t][c] = "refused"
  /\ LET e == Resumed(entry[t], c)
         cut == ownerAborted \/ ConnClosed(c)
     IN \/ /\ ~Owns(t, mine[t][c])
           /\ entry' = [entry EXCEPT ![t] = Relinquished(e, mine[t][c])]
           /\ pc' = At(pc, t, c, "done")
           /\ UNCHANGED cancelled
        \/ /\ Owns(t, mine[t][c]) /\ cut /\ FromRestore(t, c)
           /\ entry' = [entry EXCEPT ![t] = Released(e)]
           /\ pc' = At(pc, t, c, "done")
           /\ UNCHANGED cancelled
        \/ /\ Owns(t, mine[t][c]) /\ ~(cut /\ FromRestore(t, c))
           /\ entry' = [entry EXCEPT ![t] = [e EXCEPT !.running = FALSE]]
           /\ pc' = At(pc, t, c, "explain")
           /\ cancelled' = cancelled \cup (IF cut THEN CancelOf(t, old[t][c]) ELSE {})
  /\ UNCHANGED <<conns, remote, life, via, mine, old, stop, facts>>

\* MUTANT of ResumeAnswered: follows the execution without asking who owns the task.
ResumeFollows(t, c) ==
  /\ pc[t][c] = "resume" /\ life[t][c] \in Settled \cup {"live"}
  /\ Follow(t, c, Resumed(entry[t], c), CancelOf(t, c))
  /\ UNCHANGED <<conns, remote, life, via, mine, old, stop, facts>>

\* resumeOn() goes on with the resumed execution: follow it, or detach it when the
\* task is no longer ours or the owner stopped under a restore.
ResumeAnswered(t, c) ==
  /\ pc[t][c] = "resume" /\ life[t][c] \in Settled \cup {"live"}
  /\ LET e == Resumed(entry[t], c)
     IN IF Owns(t, mine[t][c]) /\ ~(FromRestore(t, c) /\ ownerAborted)
        THEN Follow(t, c, e, CancelOf(t, c)) /\ UNCHANGED life
        ELSE /\ entry' = [entry EXCEPT ![t] = Relinquished(e, mine[t][c])]
             /\ life' = At(life, t, c, Detached(life[t][c]))
             /\ pc' = At(pc, t, c, "done")
             /\ UNCHANGED cancelled
  /\ UNCHANGED <<conns, remote, via, mine, old, stop, facts>>

\* The message about a task that cannot be followed, then the count is released.
Explained(t, c) ==
  /\ pc[t][c] = "explain"
  /\ \/ told' = [told EXCEPT ![t] = @ + 1] /\ record' = [record EXCEPT ![t] = FALSE] /\ UNCHANGED dropped
     \/ dropped' = [dropped EXCEPT ![t] = TRUE] /\ UNCHANGED <<told, record>>
  /\ entry' = [entry EXCEPT ![t] = Released(@)]
  /\ pc' = At(pc, t, c, "done")
  /\ UNCHANGED <<conns, execs, via, mine, old, stop>>

-----------------------------------------------------------------------------
(* The follow() chain *)

\* execution.settle() settled: the owner takes the task out of `running` and renders
\* the outcome; who lost it only releases what nobody else will.
FollowSettled(t, c) ==
  /\ pc[t][c] = "settle" /\ life[t][c] \in Settled
  /\ IF Owns(t, mine[t][c])
     THEN /\ entry' = [entry EXCEPT ![t].running = FALSE]
          /\ pc' = At(pc, t, c, "deliver")
     ELSE /\ entry' = [entry EXCEPT ![t] = IF @.gen = mine[t][c] THEN Released(@) ELSE @]
          /\ pc' = At(pc, t, c, "done")
  /\ UNCHANGED <<conns, execs, via, mine, old, stop, facts>>

\* The outcome is rendered and sent, then the count is released.
Delivered(t, c) ==
  /\ pc[t][c] = "deliver"
  /\ \/ told' = [told EXCEPT ![t] = @ + 1] /\ record' = [record EXCEPT ![t] = FALSE] /\ UNCHANGED dropped
     \/ dropped' = [dropped EXCEPT ![t] = TRUE] /\ UNCHANGED <<told, record>>
  /\ entry' = [entry EXCEPT ![t] = IF @.gen = mine[t][c] THEN Released(@) ELSE @]
  /\ pc' = At(pc, t, c, "done")
  /\ UNCHANGED <<conns, execs, via, mine, old, stop>>

\* stop(): the user or the agent cancels the execution that follows the task.
Stop(t) ==
  /\ entry[t].running
  /\ CancelOf(t, entry[t].exec) # {}
  /\ cancelled' = cancelled \cup CancelOf(t, entry[t].exec)
  /\ UNCHANGED <<conns, remote, life, entry, runs, stop, facts>>

-----------------------------------------------------------------------------
(* The session stops. *)

\* handOffForShutdown(): every followed task is taken over for good and recorded.  A
\* session that cannot record its tasks, or restarts, aborts the owner without it.
HandOffForShutdown ==
  /\ ~stopping
  /\ stopping' = TRUE
  /\ awaited' = {t \in Task : entry[t].running}
  /\ entry' = [t \in Task |-> IF entry[t].running
                 THEN [TakenOver(entry[t]) EXCEPT !.running = FALSE] ELSE entry[t]]
  /\ saving' = [t \in Task |-> IF entry[t].running THEN "handoff" ELSE saving[t]]
  /\ UNCHANGED <<conns, execs, runs, ownerAborted, facts>>

\* MUTANT of Persisted: the count is given back only when the record was written.
PersistedOrHeld(t) ==
  /\ saving[t] = "handoff"
  /\ saving' = [saving EXCEPT ![t] = "done"] /\ awaited' = awaited \ {t}
  /\ \/ /\ record' = [record EXCEPT ![t] = TRUE]
        /\ entry' = [entry EXCEPT ![t] = Released(@)]
        /\ life' = At(life, t, entry[t].exec, Detached(life[t][entry[t].exec]))
        /\ UNCHANGED dropped
     \/ dropped' = [dropped EXCEPT ![t] = TRUE] /\ UNCHANGED <<record, life, entry>>
  /\ UNCHANGED <<conns, remote, cancelled, runs, stopping, ownerAborted, told>>

\* persistOnStop(): the task is recorded and its execution settled, or the record failed.
Persisted(t) ==
  /\ saving[t] = "handoff"
  /\ saving' = [saving EXCEPT ![t] = "done"]
  /\ awaited' = awaited \ {t}
  /\ entry' = [entry EXCEPT ![t] = Released(@)]
  /\ \/ /\ record' = [record EXCEPT ![t] = TRUE]
        /\ life' = At(life, t, entry[t].exec, Detached(life[t][entry[t].exec]))
        /\ UNCHANGED dropped
     \/ dropped' = [dropped EXCEPT ![t] = TRUE] /\ UNCHANGED <<record, life>>
  /\ UNCHANGED <<conns, remote, cancelled, runs, stopping, ownerAborted, told>>

\* The runtime owner stops, at a session stop only after handOffForShutdown() returned.
OwnerAborts ==
  /\ ~ownerAborted /\ awaited = {}
  /\ ownerAborted' = TRUE
  /\ cancelled' = cancelled \cup UNION {CancelOf(t, entry[t].listener) :
                                         t \in {u \in Task : entry[u].listener # Null}}
  /\ entry' = [t \in Task |-> [entry[t] EXCEPT !.listener = Null]]
  /\ UNCHANGED <<conns, remote, life, runs, saving, awaited, stopping, facts>>

-----------------------------------------------------------------------------
(* The connection and the server. *)

\* No continuation is about to take an answer of resumeTask() on c: it would run
\* before anything that tears the connection down.
Quiet(c) == \A t \in Task : pc[t][c] = "resume" => life[t][c] \in {"pending", "refused"}

\* disposeConnection(): the task session closes and cancels what has not settled.
TearDown(c) ==
  /\ Quiet(c)
  /\ connState' = [connState EXCEPT ![c] = "gone"]
  /\ cancelled' = cancelled \cup {<<t, c>> : t \in {u \in Task : life[u][c] = "live"}}
  /\ life' = [t \in Task |-> [life[t] EXCEPT ![c] = Detached(@)]]

\* doReconnect() disposes the replaced connection once handOver() returned.
Dispose(c) ==
  /\ connState[c] = "replaced" /\ HandOverReturned(c + 1)
  /\ TearDown(c)
  /\ UNCHANGED <<conn, remote, entry, runs, stop, facts>>

\* close(): a disconnect, an idle shutdown or the end of the session.
CloseConn ==
  /\ connState[conn] = "open"
  /\ TearDown(conn)
  /\ UNCHANGED <<conn, remote, entry, runs, stop, facts>>

\* connect() after a close(): no task is handed over.
Reopen ==
  /\ connState[conn] = "gone" /\ MayBegin /\ ~ownerAborted
  /\ conn' = conn + 1
  /\ connState' = [connState EXCEPT ![conn + 1] = "open"]
  /\ UNCHANGED <<execs, entry, runs, stop, facts>>

\* The server ends the task, by itself or on a tasks/cancel that it may ignore.
RemoteEnds(t) ==
  /\ Begun(t) /\ remote[t] = "working"
  /\ remote' = [remote EXCEPT ![t] = "ended"]
  /\ UNCHANGED <<conns, life, cancelled, entry, runs, stop, facts>>

ExecutionSettles(t, c) ==
  /\ life[t][c] = "live" /\ remote[t] # "working" /\ connState[c] # "gone"
  /\ life' = At(life, t, c, "ended")
  /\ UNCHANGED <<conns, remote, cancelled, entry, runs, stop, facts>>

Continues(t, c) ==
  \/ HandedOff(t, c) \/ RestoreAbandoned(t, c) \/ Answered(t, c)
  \/ ResumeRefused(t, c) \/ ResumeAnswered(t, c) \/ Explained(t, c)
  \/ FollowSettled(t, c) \/ Delivered(t, c)

Supersedes == superseded' = (superseded \/ ~HandOverReturned(conn))

TaskNext ==
  \/ (Replace \/ Reopen) /\ Supersedes
  \/ /\ UNCHANGED superseded
     /\ \/ \E t \in Task, c \in Conn : Start(t, c) \/ Continues(t, c) \/ ExecutionSettles(t, c)
        \/ \E t \in Task : Restore(t) \/ Stop(t) \/ Persisted(t) \/ RemoteEnds(t)
        \/ \E c \in Conn : Dispose(c)
        \/ HandOffForShutdown \/ OwnerAborts \/ CloseConn

TaskSpec == TaskInit /\ [][TaskNext]_taskVars

\* Continuations run, resumeTask() answers (it is bounded by the request timeout or
\* rejected by the teardown) and an execution notices that the server ended its task.
\* The server need not end it, and nothing has to stop.
TaskFairness ==
  /\ \A t \in Task, c \in Conn : WF_taskVars((Continues(t, c) \/ ExecutionSettles(t, c)) /\ UNCHANGED superseded)
  /\ \A t \in Task : WF_taskVars(Persisted(t) /\ UNCHANGED superseded)

TaskFairSpec == TaskSpec /\ TaskFairness

-----------------------------------------------------------------------------
(* Safety *)

\* The in-flight count a task holds is released exactly once (TaskTypeOK bounds it) and last:
\* by then nobody follows, moves, restores or records the task.
Owning(t, c) == pc[t][c] \in {"move", "resume", "explain", "settle", "deliver"} /\ mine[t][c] = entry[t].gen
ReleasedLast(t) ==
  entry[t].released = 1 =>
    ~entry[t].running /\ saving[t] # "handoff" /\ \A c \in Conn : ~Owning(t, c)
ReleasedOnce == \A t \in Task : ReleasedLast(t)

\* "At most one continuation owns an entry at a time": two of them never hold the
\* entry's generation, and none does while persistOnStop() holds the task.
OwnedOnce(t) ==
  /\ \A c, d \in Conn : Owning(t, c) /\ Owning(t, d) => c = d
  /\ saving[t] = "handoff" => \A c \in Conn : ~Owning(t, c)
OneOwner == \A t \in Task : OwnedOnce(t)

\* Each outcome reaches the model as one message, and a task whose outcome the
\* model has is not left pending in the session's record.
ToldOnce == \A t \in Task : told[t] <= 1 /\ (told[t] = 1 => ~record[t])

\* A task is not dropped silently: once its count is released the model was told,
\* or the record keeps it for the next session, or rendering or recording failed.
NothingVanishes ==
  \A t \in Task : entry[t].released > 0 => told[t] = 1 \/ record[t] \/ dropped[t]

\* The four of them: a task has one owner, gives its count back once and is not lost.
TasksAreOwned == ReleasedOnce /\ OneOwner /\ ToldOnce /\ NothingVanishes

\* "A stopping session persists its tasks and never cancels them": from the moment the
\* session stops no frame is sent for a task its record keeps, except by a connection
\* torn down before persistOnStop() of the task has returned.
StoppingNeverCancels ==
  [][stopping => \A t \in Task, c \in Conn :
       <<t, c>> \in cancelled' \ cancelled
         => dropped[t] \/ ~record[t] \/ saving[t] = "handoff"]_taskVars

\* A replaced connection is closed only after the executions that were followed on it
\* have settled, so its teardown cancels no task that handOver() moved: at most one that
\* started on it too late, or that a stopping session is recording or failed to.  It takes
\* hand-overs that wait for the last one: other credentials supersede it.
HandOverSendsNoCancel ==
  [][\A t \in Task, c \in Conn :
       connState[c] = "replaced" /\ <<t, c>> \in cancelled' \ cancelled /\ connState'[c] = "gone"
         => via[t][c] = "late" \/ superseded \/ saving[t] = "handoff" \/ dropped[t]]_taskVars

\* Both of them: a frame is sent only for a task somebody meant to cancel, or that its
\* connection took along.
CancelsAreMeant == StoppingNeverCancels /\ HandOverSendsNoCancel

-----------------------------------------------------------------------------
(* Liveness *)

\* The count that keeps the server from an idle shutdown always comes back once the
\* server has ended the task, or the owner has stopped and every connection is gone: each
\* of these facts stays true, as does the count's return.
Over == ownerAborted /\ \A c \in Conn : connState[c] \in {"none", "gone"}
CountsReturn ==
  \A t \in Task : <>[](Begun(t) /\ (remote[t] = "ended" \/ Over) => entry[t].released = 1)

\* "Closing the connection cancels the remote task; replacing the connection hands
\* it over instead": disposing a replaced connection cancels no task.
ReplacingNeverCancels ==
  [][\A t \in Task, c \in Conn :
       connState[c] = "replaced" /\ connState'[c] = "gone" => <<t, c>> \notin cancelled' \ cancelled]_taskVars

-----------------------------------------------------------------------------
(* The inductive invariant: what makes the safety properties hold. *)

\* Nothing is known of a task that no call and no restore has begun.
Untouched(t) ==
  Begun(t) \/ /\ entry[t] = [gen |-> 0, running |-> FALSE, exec |-> Null,
                             resuming |-> Null, listener |-> Null, released |-> 0]
              /\ saving[t] = "none" /\ told[t] = 0
              /\ \A c \in Conn : pc[t][c] = "idle" /\ mine[t][c] = 0 /\ via[t][c] = "none"

\* Connections to come have no state, and what was replaced lies behind the route.
RouteIsLast ==
  \A c \in Conn :
    /\ c > conn => /\ connState[c] = "none"
                   /\ \A t \in Task : pc[t][c] = "idle" /\ life[t][c] = "none" /\ via[t][c] = "none"
    /\ connState[c] = "replaced" => c < conn

\* A continuation captured a generation that has been, a hand-over one that was new
\* then, and what it hands over was followed on an earlier connection.
Generations(t) ==
  \A c \in Conn :
    /\ mine[t][c] <= entry[t].gen
    /\ via[t][c] \in {"move", "moveRestore"} =>
         /\ old[t][c] \in Conn /\ old[t][c] < c
         /\ \A d \in Conn : d < c => mine[t][d] < mine[t][c]
    /\ via[t][c] = "move" => pc[t][old[t][c]] \in {"settle", "deliver", "done"}

\* What the entry says of a task while the continuation on c owns it.
OwnerKnows(t) ==
  \A c \in Conn : Owning(t, c) =>
    /\ pc[t][c] = "move" => via[t][c] \in {"move", "moveRestore"}
    /\ pc[t][c] \in {"move", "resume"} =>
         IF via[t][c] = "move" THEN entry[t].running /\ entry[t].exec = old[t][c]
         ELSE ~entry[t].running /\ entry[t].exec = Null /\ FromRestore(t, c)
    /\ pc[t][c] = "resume" =>
         IF via[t][c] = "move" THEN life[t][old[t][c]] # "live" ELSE entry[t].resuming = c
    /\ pc[t][c] = "settle" => entry[t].running /\ entry[t].exec = c
    /\ pc[t][c] \in {"move", "resume"} /\ connState[c] = "replaced" => superseded

\* Nobody can take a task from the continuation that tells its outcome.
LastSteps(t) ==
  \A c \in Conn : pc[t][c] \in {"explain", "deliver"} =>
    mine[t][c] = entry[t].gen /\ ~entry[t].running /\ entry[t].resuming = Null

\* A resume in flight belongs to the owner, or to the restore that the owner waits for.
ResumeIsOwned(t) ==
  LET r == entry[t].resuming IN
  r \in Conn =>
    /\ ~entry[t].running /\ saving[t] # "handoff" /\ pc[t][r] = "resume"
    /\ \E c \in Conn : Owning(t, c) /\
         (c = r \/ (pc[t][c] = "move" /\ via[t][c] = "moveRestore" /\ old[t][c] = r))

\* A followed task has an execution whose own resume is over; stopping ends following.
FollowedHasExec(t) ==
  /\ entry[t].running => ~stopping /\ entry[t].exec # Null
  /\ entry[t].exec # Null => /\ entry[t].exec <= conn /\ pc[t][entry[t].exec] # "resume"
                             /\ saving[t] = "none" =>
                                  pc[t][entry[t].exec] \in {"settle", "deliver", "done"}
  /\ saving[t] # "none" => stopping
  /\ saving[t] = "handoff" => entry[t].exec # Null

\* Telling releases the count, and a restored task is recorded until then.
RecordedUntilTold(t) ==
  /\ told[t] <= entry[t].released /\ (told[t] = 1 => ~record[t])
  /\ \A c \in Conn : FromRestore(t, c) => record[t] \/ entry[t].released = 1
  /\ entry[t].released > 0 => told[t] = 1 \/ record[t] \/ dropped[t]

\* A live execution is about to be taken up, or is the entry's, followed or being recorded.
LiveIsHeld(t) ==
  \A c \in Conn :
    /\ life[t][c] = "live" =>
         /\ connState[c] # "gone"
         /\ \/ pc[t][c] = "resume"
            \/ entry[t].exec = c /\ (entry[t].running \/ saving[t] = "handoff" \/ dropped[t])
    /\ pc[t][c] = "resume" => life[t][c] \in {"pending", "refused", "live", "ended"}
    /\ life[t][c] = "pending" => pc[t][c] = "resume"

\* The owner's abort would cancel only what its continuation still follows.
ListenerFollows(t) ==
  LET c == entry[t].listener IN
  c \in Conn => /\ Owning(t, c) /\ pc[t][c] \in {"settle", "deliver"}
                /\ pc[t][c] = "deliver" => life[t][c] \in Settled
                /\ life[t][c] = "closed" => <<t, c>> \in cancelled

\* An execution left on a replaced connection is about to be handed over.
LeftIsHandedOver(t) ==
  \A c \in Conn :
    connState[c] = "replaced" /\ entry[t].running /\ entry[t].exec = c /\ life[t][c] = "live" =>
      \/ via[t][c] = "late" \/ superseded
      \/ pc[t][c + 1] = "move" /\ via[t][c + 1] = "move" /\ old[t][c + 1] = c

Owned(t) ==
  /\ ReleasedLast(t) /\ OwnedOnce(t) /\ Untouched(t) /\ Generations(t) /\ OwnerKnows(t)
  /\ LastSteps(t) /\ ResumeIsOwned(t) /\ FollowedHasExec(t) /\ RecordedUntilTold(t)
Executed(t) == LiveIsHeld(t) /\ ListenerFollows(t) /\ LeftIsHandedOver(t)

TaskInv == TaskTypeOK /\ RouteIsLast /\ \A t \in Task : Owned(t) /\ Executed(t)
=============================================================================
