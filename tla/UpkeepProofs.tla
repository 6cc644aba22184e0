---------------------------- MODULE UpkeepProofs ----------------------------
(***************************************************************************)
(* Theorems about the parts of MCUpkeep: the background tasks, for any     *)
(* number of calls, connections and tasks, the keep-alive passes, for any  *)
(* servers, connections and definitions, the catalog of a server and the   *)
(* configuration watch.  At the end, UpkeepTypeOK of a behaviour of any.   *)
(***************************************************************************)
EXTENDS MCUpkeep, Integers, TLAPS

-----------------------------------------------------------------------------
(***************************************************************************)
(* Theorems about BackgroundTasks, for any tasks and any number of         *)
(* connections: its inductive invariant TaskInv holds of every behaviour, and *)
(* from it follow the types, that a task has one owner and is not lost,    *)
(* and that neither a stopping session nor a hand-over cancels a task.     *)
(*                                                                         *)
(* TaskInv speaks of one task at a time.  A step of one task leaves the rows  *)
(* of the others alone (Stays, Elsewhere), so each action is proved for    *)
(* the row it changes; Replace, HandOffForShutdown, OwnerAborts and        *)
(* TearDown change every row at once.                                      *)
(***************************************************************************)

\* MCUpkeep's assumptions on the constants.
Bounded == LastConn \in Nat /\ Null \notin Conn

-----------------------------------------------------------------------------
(* The operators on entries and rows *)

\* A row of a table, after At().
LEMMA AtPoint ==
  ASSUME NEW S, NEW f \in [Task -> [Conn -> S]], NEW t \in Task, NEW c \in Conn, NEW v \in S
  PROVE  /\ At(f, t, c, v) \in [Task -> [Conn -> S]]
         /\ \A d \in Conn : At(f, t, c, v)[t][d] = IF d = c THEN v ELSE f[t][d]
         /\ \A u \in Task : u # t => At(f, t, c, v)[u] = f[u]
BY DEF At

\* A continuation that takes a task over changes the generation and drops the listener.
LEMMA TakeOver ==
  ASSUME NEW e \in Entry
  PROVE  LET f == TakenOver(e) IN
         /\ f \in Entry
         /\ f.gen = e.gen + 1 /\ f.running = e.running /\ f.exec = e.exec
         /\ f.resuming = e.resuming /\ f.listener = Null /\ f.released = e.released
<1> DEFINE g == [e EXCEPT !.gen = e.gen + 1]
<1>1. g \in Entry /\ g.gen = e.gen + 1
  BY DEF Entry
<1>2. TakenOver(e) = [g EXCEPT !.listener = Null]
  BY DEF TakenOver
<1>3. g.running = e.running /\ g.exec = e.exec /\ g.resuming = e.resuming /\ g.released = e.released
  BY DEF Entry
<1> HIDE DEF g
<1>4. QED
  BY <1>1, <1>2, <1>3 DEF Entry

\* The release of a count not released before.
LEMMA Release ==
  ASSUME NEW e \in Entry
  PROVE  LET f == Released(e) IN
         /\ e.released = 0 => f \in Entry
         /\ f.gen = e.gen /\ f.running = FALSE /\ f.exec = e.exec
         /\ f.resuming = e.resuming /\ f.listener = Null /\ f.released = e.released + 1
<1> DEFINE g == [e EXCEPT !.running = FALSE]
           h == [g EXCEPT !.listener = Null]
<1>1. g \in Entry /\ g.running = FALSE
  BY DEF Entry
<1>2. g.gen = e.gen /\ g.exec = e.exec /\ g.resuming = e.resuming /\ g.released = e.released
  BY DEF Entry
<1>3. Released(e) = [h EXCEPT !.released = h.released + 1]
  BY DEF Released, Entry
<1> HIDE DEF g
<1>4. h \in Entry /\ h.listener = Null /\ h.running = FALSE
  BY <1>1 DEF Entry
<1>5. h.gen = e.gen /\ h.exec = e.exec /\ h.resuming = e.resuming /\ h.released = e.released
  BY <1>1, <1>2 DEF Entry
<1> HIDE DEF h
<1>6. e.released = 0 => Released(e) \in Entry
  BY <1>3, <1>4, <1>5 DEF Entry
<1>7. QED
  BY <1>3, <1>4, <1>5, <1>6 DEF Entry

\* relinquish() releases what nobody took over.
LEMMA Relinquish ==
  ASSUME NEW e \in Entry, NEW g \in Nat
  PROVE  LET f == Relinquished(e, g) IN
         /\ (e.gen = g => e.released = 0) => f \in Entry
         /\ f.exec = e.exec /\ f.resuming = e.resuming
         /\ e.gen = g => /\ f.gen = e.gen + 1 /\ f.running = FALSE /\ f.listener = Null
                         /\ f.released = e.released + 1
         /\ e.gen # g => f = e
<1> DEFINE h == TakenOver(e)
<1>1. h \in Entry /\ h.gen = e.gen + 1 /\ h.exec = e.exec /\ h.resuming = e.resuming /\ h.released = e.released
  BY TakeOver
<1>2. CASE e.gen = g
  <2>1. Relinquished(e, g) = Released(h)
    BY <1>2 DEF Relinquished
  <2> HIDE DEF h
  <2>2. QED
    BY <1>1, <1>2, <2>1, Release
<1>3. CASE e.gen # g
  BY <1>3 DEF Relinquished
<1>4. QED
  BY <1>2, <1>3

\* resumeOn() clears its own resume only.
LEMMA Resume ==
  ASSUME NEW e \in Entry, NEW c \in Conn
  PROVE  LET f == Resumed(e, c) IN
         /\ f \in Entry
         /\ f.gen = e.gen /\ f.running = e.running /\ f.exec = e.exec
         /\ f.resuming = (IF e.resuming = c THEN Null ELSE e.resuming)
         /\ f.listener = e.listener /\ f.released = e.released
<1> DEFINE k == IF e.resuming = c THEN Null ELSE e.resuming
<1>1. k \in Conn \cup {Null}
  BY DEF Entry
<1>2. Resumed(e, c) = [e EXCEPT !.resuming = k]
  BY DEF Resumed
<1> HIDE DEF k
<1>3. [e EXCEPT !.resuming = k] \in Entry
  BY <1>1 DEF Entry
<1>4. QED
  BY <1>2, <1>3 DEF Entry, k

\* follow() makes the execution on c the task's.
LEMMA Following ==
  ASSUME NEW e \in Entry, NEW c \in Conn
  PROVE  LET f == Followed(e, c) IN
         /\ f \in Entry
         /\ f.gen = e.gen /\ f.running = TRUE /\ f.exec = c
         /\ f.resuming = e.resuming /\ f.released = e.released
         /\ f.listener = IF ownerAborted THEN Null ELSE c
<1> DEFINE g == [e EXCEPT !.running = TRUE]
           h == [g EXCEPT !.exec = c]
           k == IF ownerAborted THEN Null ELSE c
<1>1. k \in Conn \cup {Null}
  OBVIOUS
<1>2. g \in Entry /\ g.running = TRUE
  BY DEF Entry
<1>3. g.gen = e.gen /\ g.resuming = e.resuming /\ g.released = e.released
  BY DEF Entry
<1>4. Followed(e, c) = [h EXCEPT !.listener = k]
  BY DEF Followed
<1> HIDE DEF g
<1>5. h \in Entry /\ h.exec = c /\ h.running = TRUE
  BY <1>2 DEF Entry
<1>6. h.gen = e.gen /\ h.resuming = e.resuming /\ h.released = e.released
  BY <1>2, <1>3 DEF Entry
<1> HIDE DEF h
<1> HIDE DEF k
<1>7. Followed(e, c) \in Entry /\ Followed(e, c).listener = k
  BY <1>1, <1>4, <1>5 DEF Entry
<1>8. QED
  BY <1>4, <1>5, <1>6, <1>7 DEF Entry, k

\* A step that leaves the row of u alone.
Stays(u) ==
  /\ entry'[u] = entry[u] /\ pc'[u] = pc[u] /\ via'[u] = via[u] /\ mine'[u] = mine[u]
  /\ old'[u] = old[u] /\ life'[u] = life[u] /\ saving'[u] = saving[u]
  /\ told'[u] = told[u] /\ record'[u] = record[u] /\ dropped'[u] = dropped[u]

\* A step that leaves a task's row alone, whatever it cancels, keeps what is known of it.
LEMMA Elsewhere ==
  ASSUME NEW u \in Task, Owned(u), Executed(u), Stays(u), UNCHANGED <<conns, stopping, superseded>>,
         cancelled \subseteq cancelled'
  PROVE  Owned(u)' /\ Executed(u)'
<1> USE DEF Stays, Owning, conns
<1>1. ReleasedLast(u)' /\ OwnedOnce(u)'
  BY DEF Owned, ReleasedLast, OwnedOnce
<1>2. Untouched(u)' /\ Generations(u)'
  BY DEF Owned, Untouched, Begun, Generations
<1>3. OwnerKnows(u)'
  BY DEF Owned, OwnerKnows, FromRestore
<1>4. LastSteps(u)' /\ ResumeIsOwned(u)'
  BY DEF Owned, LastSteps, ResumeIsOwned
<1>5. FollowedHasExec(u)' /\ RecordedUntilTold(u)'
  BY DEF Owned, FollowedHasExec, RecordedUntilTold, FromRestore
<1>6. LiveIsHeld(u)' /\ ListenerFollows(u)' /\ LeftIsHandedOver(u)'
  BY DEF Executed, LiveIsHeld, ListenerFollows, LeftIsHandedOver
<1>7. QED
  BY <1>1, <1>2, <1>3, <1>4, <1>5, <1>6 DEF Owned, Executed

\* resumeOn() follows the execution it was answered with: its owner goes on to settle.
LEMMA ResumeAnsweredFollows ==
  ASSUME TaskInv, Bounded, NEW t \in Task, NEW c \in Conn, ResumeAnswered(t, c), UNCHANGED superseded,
         Owns(t, mine[t][c]) /\ ~(FromRestore(t, c) /\ ownerAborted)
  PROVE  Owned(t)' /\ Executed(t)'
<1> DEFINE e == Resumed(entry[t], c)
           f == Followed(e, c)
<1>1. Owned(t) /\ Executed(t) /\ TaskTypeOK
  BY DEF TaskInv
<1>2. UNCHANGED <<conn, connState>>
  BY DEF ResumeAnswered, conns
<1>3. e \in Entry /\ entry[t] \in Entry
  BY <1>1, Resume DEF TaskTypeOK
<1>4. entry'[t] = f /\ pc' = At(pc, t, c, "settle") /\ cancelled \subseteq cancelled'
  BY <1>1 DEF ResumeAnswered, Follow, TaskTypeOK
<1>5. UNCHANGED <<life, via, mine, old, saving, stopping, conns, told, record, dropped, superseded>>
  BY DEF ResumeAnswered, stop, facts
<1>6. \A d \in Conn : pc'[t][d] = IF d = c THEN "settle" ELSE pc[t][d]
  BY <1>1, <1>4 DEF At, TaskTypeOK
<1>7. /\ f.gen = entry[t].gen /\ f.running = TRUE /\ f.exec = c /\ f.released = entry[t].released
      /\ f.resuming = (IF entry[t].resuming = c THEN Null ELSE entry[t].resuming)
      /\ f.listener \in {c, Null}
  <2>1. /\ e.gen = entry[t].gen /\ e.resuming = (IF entry[t].resuming = c THEN Null ELSE entry[t].resuming)
        /\ e.released = entry[t].released
    BY <1>3, Resume
  <2> HIDE DEF e
  <2>2. QED
    BY <1>3, <2>1, Following
<1>8. pc[t][c] = "resume" /\ mine[t][c] = entry[t].gen /\ ~stopping /\ Owning(t, c) /\ life[t][c] \in {"closed", "ended", "live"}
  BY DEF ResumeAnswered, Owns, Owning, Settled
<1> HIDE DEF e, f
<1>9. entry[t].released = 0 /\ saving[t] = "none" /\ \A d \in Conn : Owning(t, d) => d = c
  BY <1>1, <1>3, <1>8 DEF Owned, ReleasedLast, OwnedOnce, FollowedHasExec, Entry, TaskTypeOK
<1>10. f.resuming = Null
  BY <1>1, <1>3, <1>7, <1>8, <1>9 DEF Owned, ResumeIsOwned, Entry
<1>11. \A d \in Conn : Owning(t, d)' <=> Owning(t, d)
  BY <1>4, <1>5, <1>6, <1>7, <1>8 DEF Owning
<1>12. c <= conn
  BY <1>1, <1>8 DEF TaskInv, RouteIsLast, TaskTypeOK, Conn, Bounded
<1>13. ReleasedLast(t)' /\ OwnedOnce(t)'
  BY <1>1, <1>4, <1>5, <1>7, <1>9, <1>11 DEF Owned, ReleasedLast, OwnedOnce
<1>14. Untouched(t)'
  BY <1>1, <1>5, <1>8 DEF Owned, Untouched, Begun
<1>15. Generations(t)'
  BY <1>1, <1>4, <1>5, <1>6, <1>7 DEF Owned, Generations
<1>16. OwnerKnows(t)'
  BY <1>4, <1>5, <1>6, <1>7, <1>9, <1>11 DEF OwnerKnows
<1>17. LastSteps(t)'
  BY <1>1, <1>4, <1>5, <1>6, <1>7, <1>9, <1>11 DEF Owned, LastSteps, Owning
<1>18. ResumeIsOwned(t)'
  BY <1>4, <1>10, Bounded DEF ResumeIsOwned, Bounded
<1>19. FollowedHasExec(t)'
  BY <1>1, <1>4, <1>5, <1>6, <1>7, <1>8, <1>9, <1>12, <1>2
     DEF Owned, FollowedHasExec, TaskTypeOK, Conn, Bounded
<1>20. RecordedUntilTold(t)'
  BY <1>1, <1>4, <1>5, <1>7 DEF Owned, RecordedUntilTold, FromRestore
<1>21. LiveIsHeld(t)'
  BY <1>1, <1>4, <1>5, <1>6, <1>7, <1>8, <1>9, Bounded
     DEF Bounded, Owned, Executed, LiveIsHeld, OwnerKnows, conns, FromRestore, Owning
<1>22. ListenerFollows(t)'
  BY <1>1, <1>4, <1>5, <1>6, <1>7, <1>8, <1>11 DEF Executed, LiveIsHeld, ListenerFollows, Bounded
<1>23. LeftIsHandedOver(t)'
  BY <1>1, <1>4, <1>5, <1>6, <1>7, <1>8 DEF Owned, OwnerKnows, LeftIsHandedOver, conns
<1>24. QED
  BY <1>13, <1>14, <1>15, <1>16, <1>17, <1>18, <1>19, <1>20, <1>21, <1>22, <1>23 DEF Owned, Executed

\* The invariant after a step in the row of t alone.
LEMMA InRow ==
  ASSUME TaskInv, NEW t \in Task, TaskTypeOK', Owned(t)', Executed(t)',
         NEW c \in Conn, c <= conn, \A u \in Task : u # t => Stays(u),
         \A d \in Conn : d # c => /\ pc'[t][d] = pc[t][d] /\ via'[t][d] = via[t][d]
                                  /\ life'[t][d] \in {life[t][d], Detached(life[t][d])},
         UNCHANGED <<conns, stopping, superseded>>, cancelled \subseteq cancelled'
  PROVE  TaskInv'
<1>1. \A u \in Task : Owned(u)' /\ Executed(u)'
  BY Elsewhere DEF TaskInv
<1>2. RouteIsLast'
  <2> SUFFICES ASSUME NEW d \in Conn
               PROVE  /\ d > conn => /\ connState[d] = "none"
                                     /\ \A u \in Task : pc'[u][d] = "idle" /\ life'[u][d] = "none" /\ via'[u][d] = "none"
                      /\ connState[d] = "replaced" => d < conn
    BY DEF RouteIsLast, conns
  <2>1. d > conn => d # c
    BY DEF TaskInv, TaskTypeOK, Conn
  <2>2. QED
    BY <2>1 DEF TaskInv, RouteIsLast, Detached, Stays
<1>3. QED
  BY <1>1, <1>2 DEF TaskInv

\* A continuation in a hand-over or a restore gives the task up: somebody took it over,
\* or it releases the count of a task that a stopping session restored.
LEMMA Quits ==
  ASSUME TaskInv, Bounded, NEW t \in Task, NEW c \in Conn, NEW k \in Conn, NEW f \in Entry,
         pc[t][c] \in {"move", "resume"},
         pc[t][c] = "move" => k = old[t][c] /\ (via[t][c] = "moveRestore" => pc[t][k] = "done"),
         pc[t][c] = "move" => via[t][c] \in {"move", "moveRestore"},
         pc[t][c] = "resume" => k = c /\ life[t][c] # "pending",
         mine[t][c] = entry[t].gen => stopping \/ FromRestore(t, c),
         f.exec = entry[t].exec,
         f.resuming = (IF pc[t][c] = "resume" /\ entry[t].resuming = c THEN Null ELSE entry[t].resuming),
         mine[t][c] = entry[t].gen => /\ f.gen >= entry[t].gen /\ f.running = FALSE /\ f.listener = Null
                                      /\ f.released = entry[t].released + 1,
         mine[t][c] # entry[t].gen => /\ f.gen = entry[t].gen /\ f.running = entry[t].running
                                      /\ f.listener = entry[t].listener /\ f.released = entry[t].released,
         entry' = [entry EXCEPT ![t] = f], pc' = At(pc, t, c, "done"),
         life' = At(life, t, k, Detached(life[t][k])),
         UNCHANGED <<via, mine, old, saving, stopping, conn, connState, told, record, dropped, superseded>>,
         cancelled \subseteq cancelled'
  PROVE  Owned(t)' /\ Executed(t)'
<1>1. Owned(t) /\ Executed(t) /\ TaskTypeOK
  BY DEF TaskInv
<1>2. entry[t] \in Entry /\ entry'[t] = f
  BY <1>1 DEF TaskTypeOK
<1>3. \A d \in Conn : pc'[t][d] = IF d = c THEN "done" ELSE pc[t][d]
  BY <1>1 DEF At, TaskTypeOK
<1>4. \A d \in Conn : life'[t][d] = IF d = k THEN Detached(life[t][d]) ELSE life[t][d]
  BY <1>1 DEF At, TaskTypeOK
<1>5. mine[t][c] = entry[t].gen =>
        /\ Owning(t, c) /\ FromRestore(t, c) /\ entry[t].released = 0 /\ saving[t] # "handoff"
        /\ entry[t].exec = Null /\ ~entry[t].running
  <2>1. mine[t][c] = entry[t].gen => Owning(t, c)
    BY DEF Owning
  <2>2. mine[t][c] = entry[t].gen => FromRestore(t, c)
    BY <1>1, <2>1 DEF Owned, OwnerKnows, FollowedHasExec
  <2>3. QED
    BY <1>1, <1>2, <2>1, <2>2 DEF Owned, OwnerKnows, ReleasedLast, OwnedOnce, FromRestore, Entry
<1>6. \A d \in Conn : Owning(t, d)' => Owning(t, d) /\ d # c /\ mine[t][c] # entry[t].gen
  <2>1. mine[t][c] = entry[t].gen => \A d \in Conn : ~Owning(t, d)'
    <3> SUFFICES ASSUME mine[t][c] = entry[t].gen, NEW d \in Conn, Owning(t, d)' PROVE FALSE
      OBVIOUS
    <3>1. f.gen \in Nat /\ mine[t][d] \in Nat /\ entry[t].gen \in Nat /\ mine[t][d] <= entry[t].gen
      BY <1>1, <1>2 DEF Owned, Generations, Entry, TaskTypeOK
    <3>2. mine[t][d] = entry[t].gen /\ d # c /\ Owning(t, d)
      BY <1>2, <1>3, <3>1 DEF Owning
    <3>3. QED
      BY <1>1, <1>5, <3>2 DEF Owned, OwnedOnce
  <2>2. QED
    BY <1>2, <1>3, <2>1 DEF Owning
<1>7. mine[t][c] # entry[t].gen => \A d \in Conn : Owning(t, d) => Owning(t, d)' /\ d # c
  BY <1>2, <1>3 DEF Owning
<1>8. ReleasedLast(t)' /\ OwnedOnce(t)'
  BY <1>1, <1>2, <1>5, <1>6 DEF Owned, ReleasedLast, OwnedOnce
<1>9. Untouched(t)'
  BY <1>1, <1>4 DEF Owned, Untouched, Begun, Detached
<1>10. Generations(t)'
  BY <1>1, <1>2, <1>3 DEF Owned, Generations, Entry, TaskTypeOK
<1>11. OwnerKnows(t)'
  BY <1>1, <1>2, <1>3, <1>4, <1>6 DEF Owned, OwnerKnows, Generations, FromRestore, Detached
<1>12. LastSteps(t)'
  BY <1>1, <1>2, <1>3, <1>5 DEF Owned, OwnedOnce, LastSteps, Owning
<1>13. ResumeIsOwned(t)'
  <2>1. CASE mine[t][c] = entry[t].gen
    <3>1. f.resuming \notin Conn
      BY <1>1, <1>2, <1>5, <2>1, Bounded
         DEF Bounded, Owned, OwnedOnce, OwnerKnows, ResumeIsOwned, Entry, FromRestore
    <3>2. QED
      BY <1>2, <3>1 DEF ResumeIsOwned
  <2>2. CASE mine[t][c] # entry[t].gen
    BY <1>1, <1>2, <1>3, <1>7, <2>2, Bounded DEF Bounded, Owned, ResumeIsOwned, Entry
  <2>3. QED
    BY <2>1, <2>2
<1>14. FollowedHasExec(t)'
  BY <1>1, <1>2, <1>3 DEF Owned, FollowedHasExec, Entry, TaskTypeOK
<1>15. RecordedUntilTold(t)'
  BY <1>1, <1>2, <1>5 DEF Owned, RecordedUntilTold, FromRestore, Entry, TaskTypeOK
<1>16. LiveIsHeld(t)'
  BY <1>1, <1>2, <1>3, <1>4, <1>5, Bounded
     DEF Bounded, Owned, Executed, LiveIsHeld, Generations, Detached
<1>17. ListenerFollows(t)'
  <2>1. entry[t].listener \in Conn => k # entry[t].listener
    <3> SUFFICES ASSUME k \in Conn, k = entry[t].listener PROVE FALSE
      OBVIOUS
    <3>1. mine[t][k] = entry[t].gen /\ pc[t][k] \in {"settle", "deliver"}
      BY <1>1 DEF Executed, ListenerFollows, Owning
    <3>2. mine[t][k] < mine[t][c] /\ mine[t][c] <= entry[t].gen
      BY <1>1, <3>1 DEF Owned, Generations
    <3>3. QED
      BY <1>1, <1>2, <3>1, <3>2 DEF TaskTypeOK, Entry
  <2>2. QED
    BY <1>1, <1>2, <1>3, <1>4, <1>5, <1>7, <2>1, Bounded DEF Bounded, Executed, ListenerFollows
<1>18. LeftIsHandedOver(t)'
  <2>1. \A d \in Conn : connState[d] = "replaced" => d + 1 \in Conn
    BY <1>1 DEF TaskInv, RouteIsLast, TaskTypeOK, Conn, Bounded
  <2> SUFFICES ASSUME NEW d \in Conn, connState[d] = "replaced", f.running, f.exec = d, life'[t][d] = "live"
               PROVE  \/ via[t][d] = "late" \/ superseded
                      \/ pc'[t][d + 1] = "move" /\ via[t][d + 1] = "move" /\ old[t][d + 1] = d
    BY <1>2 DEF LeftIsHandedOver
  <2>2. life[t][d] = "live" /\ d # k /\ entry[t].running /\ entry[t].exec = d
    BY <1>4 DEF Detached
  <2>3. \/ via[t][d] = "late" \/ superseded
        \/ pc[t][d + 1] = "move" /\ via[t][d + 1] = "move" /\ old[t][d + 1] = d
    BY <1>1, <2>2 DEF Executed, LeftIsHandedOver
  <2>4. old[t][d + 1] = d /\ pc[t][d + 1] = "move" => d + 1 # c
    BY <2>2
  <2>5. QED
    BY <1>3, <2>1, <2>3, <2>4
<1>19. QED
  BY <1>8, <1>9, <1>10, <1>11, <1>12, <1>13, <1>14, <1>15, <1>16, <1>17, <1>18 DEF Owned, Executed

\* handOver() asks the new connection to resume a task it still owns.
LEMMA Resumes ==
  ASSUME TaskInv, Bounded, NEW t \in Task, NEW c \in Conn,
         pc[t][c] = "move", via[t][c] \in {"move", "moveRestore"},
         via[t][c] = "moveRestore" => pc[t][old[t][c]] = "done",
         Owns(t, mine[t][c]), AskResume(t, c),
         UNCHANGED <<conn, connState, cancelled, via, mine, old, saving, stopping, told, record, dropped, superseded>>
  PROVE  Owned(t)' /\ Executed(t)' /\ entry' \in [Task -> Entry]
<1> DEFINE o == old[t][c]
           r == IF via[t][c] = "moveRestore" THEN c ELSE entry[t].resuming
           f == [entry[t] EXCEPT !.resuming = r]
<1>1. Owned(t) /\ Executed(t) /\ TaskTypeOK
  BY DEF TaskInv
<1>2. entry[t] \in Entry /\ r \in Conn \cup {Null}
  BY <1>1 DEF TaskTypeOK, Entry
<1>3. entry' = [entry EXCEPT ![t] = f] /\ pc' = At(pc, t, c, "resume")
  BY DEF AskResume
<1>4. o \in Conn /\ o < c /\ o # c
  BY <1>1 DEF Owned, Generations, TaskTypeOK, Conn
<1>5. \A d \in Conn : life'[t][d] = IF d = c THEN "pending" ELSE IF d = o THEN Detached(life[t][d]) ELSE life[t][d]
  <2>1. life' = At(At(life, t, o, Detached(life[t][o])), t, c, "pending")
    BY DEF AskResume
  <2>2. QED
    BY <1>1, <1>4, <2>1 DEF At, TaskTypeOK
<1> HIDE DEF r
<1>6. /\ f \in Entry /\ f.resuming = r
      /\ f.gen = entry[t].gen /\ f.running = entry[t].running /\ f.exec = entry[t].exec
      /\ f.listener = entry[t].listener /\ f.released = entry[t].released
  BY <1>2 DEF Entry
<1> HIDE DEF f
<1>7. entry'[t] = f /\ entry' \in [Task -> Entry]
  BY <1>1, <1>3, <1>6 DEF TaskTypeOK
<1>8. \A d \in Conn : pc'[t][d] = IF d = c THEN "resume" ELSE pc[t][d]
  BY <1>1, <1>3 DEF At, TaskTypeOK
<1>9. Owning(t, c) /\ ~stopping /\ entry[t].released = 0 /\ saving[t] = "none" /\ \A d \in Conn : Owning(t, d) => d = c
  BY <1>1, <1>2 DEF Owns, Owning, Owned, ReleasedLast, OwnedOnce, FollowedHasExec, Entry
<1>10. \A d \in Conn : Owning(t, d)' <=> Owning(t, d)
  BY <1>6, <1>7, <1>8, <1>9 DEF Owning
<1>11. IF via[t][c] = "move" THEN entry[t].running /\ entry[t].exec = o /\ entry[t].resuming = Null /\ r = Null
       ELSE ~entry[t].running /\ entry[t].exec = Null /\ r = c /\ via[t][c] = "moveRestore"
  BY <1>1, <1>2, <1>9 DEF Owned, OwnerKnows, ResumeIsOwned, Entry, FromRestore, r
<1>12. ReleasedLast(t)' /\ OwnedOnce(t)'
  BY <1>1, <1>6, <1>7, <1>9, <1>10 DEF Owned, ReleasedLast, OwnedOnce
<1>13. Untouched(t)'
  BY <1>1, <1>5 DEF Owned, Untouched, Begun, Detached
<1>14. Generations(t)'
  BY <1>1, <1>6, <1>7, <1>8 DEF Owned, Generations
<1>15. OwnerKnows(t)'
  BY <1>1, <1>4, <1>5, <1>6, <1>7, <1>8, <1>9, <1>10, <1>11 DEF Owned, OwnerKnows, FromRestore, Detached
<1>16. LastSteps(t)'
  BY <1>1, <1>6, <1>7, <1>8, <1>9, <1>11 DEF Owned, LastSteps, Owning
<1>17. ResumeIsOwned(t)'
  BY <1>6, <1>7, <1>8, <1>9, <1>10, <1>11, Bounded DEF Bounded, ResumeIsOwned
<1>18. FollowedHasExec(t)'
  BY <1>1, <1>4, <1>6, <1>7, <1>8, <1>11 DEF Owned, FollowedHasExec
<1>19. RecordedUntilTold(t)'
  BY <1>1, <1>6, <1>7 DEF Owned, RecordedUntilTold, FromRestore
<1>20. LiveIsHeld(t)'
  BY <1>1, <1>4, <1>5, <1>6, <1>7, <1>8, <1>11 DEF Owned, Executed, LiveIsHeld, Generations, Detached
<1>21. ListenerFollows(t)'
  BY <1>1, <1>6, <1>7, <1>9 DEF Executed, ListenerFollows
<1>22. LeftIsHandedOver(t)'
  <2> SUFFICES ASSUME NEW d \in Conn, connState[d] = "replaced", f.running, f.exec = d, life'[t][d] = "live"
               PROVE  \/ via[t][d] = "late" \/ superseded
                      \/ pc'[t][d + 1] = "move" /\ via[t][d + 1] = "move" /\ old[t][d + 1] = d
    BY <1>7 DEF LeftIsHandedOver
  <2>1. FALSE
    BY <1>5, <1>6, <1>11, <1>4 DEF Detached
  <2>2. QED
    BY <2>1
<1>23. QED
  BY <1>7, <1>12, <1>13, <1>14, <1>15, <1>16, <1>17, <1>18, <1>19, <1>20, <1>21, <1>22
     DEF Owned, Executed

\* What an execution does is seen only where it is looked at.
LEMMA LifeMoves ==
  ASSUME TaskInv, NEW t \in Task, NEW c \in Conn, NEW v \in {"refused", "live", "ended"},
         \/ life[t][c] = "pending" /\ (v = "live" => connState[c] # "gone") /\ v # "ended"
         \/ life[t][c] = "live" /\ v = "ended",
         life' = At(life, t, c, v), cancelled' = cancelled,
         UNCHANGED <<conns, entry, runs, stop, facts, superseded>>
  PROVE  Owned(t)' /\ Executed(t)'
<1>1. Owned(t) /\ Executed(t) /\ TaskTypeOK
  BY DEF TaskInv
<1>2. \A d \in Conn : life'[t][d] = IF d = c THEN v ELSE life[t][d]
  BY <1>1 DEF At, TaskTypeOK
<1>3. UNCHANGED <<conn, connState, entry, pc, via, mine, old, saving, stopping, told, record, dropped, superseded>>
  BY DEF conns, runs, stop, facts
<1>4. \A d \in Conn : Owning(t, d)' <=> Owning(t, d)
  BY <1>3 DEF Owning
<1>5. life[t][c] = "pending" => pc[t][c] = "resume"
  BY <1>1 DEF Executed, LiveIsHeld
<1>6. ReleasedLast(t)' /\ OwnedOnce(t)' /\ LastSteps(t)' /\ FollowedHasExec(t)'
  BY <1>1, <1>3, <1>4 DEF Owned, ReleasedLast, OwnedOnce, LastSteps, FollowedHasExec
<1>7. Untouched(t)'
  BY <1>1, <1>2 DEF Owned, Untouched, Begun
<1>8. Generations(t)' /\ ResumeIsOwned(t)' /\ RecordedUntilTold(t)'
  BY <1>1, <1>3, <1>4 DEF Owned, Generations, ResumeIsOwned, RecordedUntilTold, FromRestore
<1>9. OwnerKnows(t)'
  BY <1>1, <1>2, <1>3, <1>4, <1>5 DEF Owned, OwnerKnows, Generations, FromRestore
<1>10. LiveIsHeld(t)'
  BY <1>1, <1>2, <1>3, <1>5 DEF Executed, LiveIsHeld
<1>11. ListenerFollows(t)'
  BY <1>1, <1>2, <1>3, <1>4, <1>5 DEF Executed, ListenerFollows, Settled
<1>12. LeftIsHandedOver(t)'
  BY <1>1, <1>2, <1>3, <1>5 DEF Owned, Executed, FollowedHasExec, LeftIsHandedOver
<1>13. QED
  BY <1>6, <1>7, <1>8, <1>9, <1>10, <1>11, <1>12 DEF Owned, Executed

\* A resume that failed, and whose task is still ours: the model is about to be told.
LEMMA Explains ==
  ASSUME TaskInv, Bounded, NEW t \in Task, NEW c \in Conn, NEW f \in Entry,
         pc[t][c] = "resume", life[t][c] = "refused", Owns(t, mine[t][c]),
         f.gen = entry[t].gen, f.running = FALSE, f.exec = entry[t].exec,
         f.resuming = (IF entry[t].resuming = c THEN Null ELSE entry[t].resuming),
         f.listener = entry[t].listener, f.released = entry[t].released,
         entry' = [entry EXCEPT ![t] = f], pc' = At(pc, t, c, "explain"),
         UNCHANGED <<conns, life, via, mine, old, stop, facts, superseded>>, cancelled \subseteq cancelled'
  PROVE  Owned(t)' /\ Executed(t)'
<1>1. Owned(t) /\ Executed(t) /\ TaskTypeOK
  BY DEF TaskInv
<1>2. entry[t] \in Entry /\ entry'[t] = f
  BY <1>1 DEF TaskTypeOK
<1>3. UNCHANGED <<conn, connState, life, via, mine, old, saving, stopping, told, record, dropped, superseded>>
  BY DEF conns, stop, facts
<1>4. \A d \in Conn : pc'[t][d] = IF d = c THEN "explain" ELSE pc[t][d]
  BY <1>1 DEF At, TaskTypeOK
<1>5. Owning(t, c) /\ ~stopping /\ entry[t].released = 0 /\ saving[t] = "none" /\ \A d \in Conn : Owning(t, d) => d = c
  BY <1>1, <1>2 DEF Owns, Owning, Owned, ReleasedLast, OwnedOnce, FollowedHasExec, Entry
<1>6. \A d \in Conn : Owning(t, d)' <=> Owning(t, d)
  BY <1>2, <1>3, <1>4, <1>5 DEF Owning
<1>7. f.resuming = Null
  BY <1>1, <1>2, <1>5 DEF Owned, ResumeIsOwned, Entry
<1>8. \A d \in Conn : entry[t].exec = d => life[t][d] # "live"
  BY <1>1, <1>5, Bounded DEF Owned, OwnerKnows, Bounded
<1>9. ReleasedLast(t)' /\ OwnedOnce(t)'
  BY <1>1, <1>2, <1>3, <1>5, <1>6 DEF Owned, ReleasedLast, OwnedOnce
<1>10. Untouched(t)' /\ Generations(t)'
  BY <1>1, <1>2, <1>3, <1>4 DEF Owned, Untouched, Begun, Generations
<1>11. OwnerKnows(t)'
  BY <1>4, <1>5, <1>6 DEF OwnerKnows
<1>12. LastSteps(t)'
  BY <1>1, <1>2, <1>3, <1>4, <1>5, <1>7 DEF Owned, LastSteps, Owning
<1>13. ResumeIsOwned(t)'
  BY <1>2, <1>7, Bounded DEF ResumeIsOwned, Bounded
<1>14. FollowedHasExec(t)'
  BY <1>1, <1>2, <1>3, <1>4 DEF Owned, FollowedHasExec, Entry
<1>15. RecordedUntilTold(t)'
  BY <1>1, <1>2, <1>3 DEF Owned, RecordedUntilTold, FromRestore
<1>16. LiveIsHeld(t)'
  BY <1>1, <1>2, <1>3, <1>4, <1>8 DEF Executed, LiveIsHeld
<1>17. ListenerFollows(t)'
  BY <1>1, <1>2, <1>3, <1>5 DEF Executed, ListenerFollows
<1>18. LeftIsHandedOver(t)'
  BY <1>2 DEF LeftIsHandedOver
<1>19. QED
  BY <1>9, <1>10, <1>11, <1>12, <1>13, <1>14, <1>15, <1>16, <1>17, <1>18 DEF Owned, Executed

\* The outcome, or what became of the task, is told and the count released.
LEMMA Tells ==
  ASSUME TaskInv, Bounded, NEW t \in Task, NEW c \in Conn,
         pc[t][c] \in {"explain", "deliver"},
         \/ told' = [told EXCEPT ![t] = @ + 1] /\ record' = [record EXCEPT ![t] = FALSE] /\ UNCHANGED dropped
         \/ dropped' = [dropped EXCEPT ![t] = TRUE] /\ UNCHANGED <<told, record>>,
         entry' = [entry EXCEPT ![t] = Released(entry[t])], pc' = At(pc, t, c, "done"),
         UNCHANGED <<conns, execs, via, mine, old, stop, superseded>>
  PROVE  Owned(t)' /\ Executed(t)' /\ TaskTypeOK'
<1> DEFINE f == Released(entry[t])
<1>1. Owned(t) /\ Executed(t) /\ TaskTypeOK
  BY DEF TaskInv
<1>2. entry[t] \in Entry /\ entry'[t] = f
  BY <1>1 DEF TaskTypeOK
<1>3. UNCHANGED <<conn, connState, remote, cancelled, life, via, mine, old, saving, awaited, stopping, ownerAborted, superseded>>
  BY DEF conns, stop, execs
<1>4. \A d \in Conn : pc'[t][d] = IF d = c THEN "done" ELSE pc[t][d]
  BY <1>1 DEF At, TaskTypeOK
<1>5. Owning(t, c) /\ ~entry[t].running /\ entry[t].resuming = Null /\ entry[t].released = 0 /\ told[t] = 0
  BY <1>1, <1>2 DEF Owned, LastSteps, Owning, ReleasedLast, RecordedUntilTold, Entry, TaskTypeOK
<1>6. saving[t] # "handoff" /\ \A d \in Conn : Owning(t, d) => d = c
  BY <1>1, <1>5 DEF Owned, OwnedOnce
<1>7. /\ f \in Entry /\ f.gen = entry[t].gen /\ f.running = FALSE /\ f.exec = entry[t].exec
      /\ f.resuming = Null /\ f.listener = Null /\ f.released = 1
  <2>1. /\ entry[t].released = 0 => f \in Entry
        /\ f.gen = entry[t].gen /\ f.running = FALSE /\ f.exec = entry[t].exec
        /\ f.resuming = entry[t].resuming /\ f.listener = Null /\ f.released = entry[t].released + 1
    BY <1>2, Release
  <2>2. QED
    BY <1>5, <2>1
<1> HIDE DEF f
<1>8. \A d \in Conn : ~Owning(t, d)'
  BY <1>2, <1>3, <1>4, <1>6, <1>7 DEF Owning
<1>9. \/ told'[t] = 1 /\ ~record'[t] /\ dropped'[t] = dropped[t]
      \/ dropped'[t] /\ told'[t] = 0 /\ record'[t] = record[t]
  BY <1>1, <1>5 DEF TaskTypeOK
<1>10. TaskTypeOK'
  <2>1. pc' \in [Task -> [Conn -> {"idle", "move", "resume", "explain", "settle", "deliver", "done"}]]
    BY <1>1 DEF At, TaskTypeOK
  <2>2. entry' \in [Task -> Entry]
    BY <1>1, <1>7 DEF TaskTypeOK, f
  <2>3. told' \in [Task -> Nat] /\ record' \in [Task -> BOOLEAN] /\ dropped' \in [Task -> BOOLEAN]
    <3>1. told \in [Task -> Nat] /\ record \in [Task -> BOOLEAN] /\ dropped \in [Task -> BOOLEAN]
      BY <1>1 DEF TaskTypeOK
    <3>2. told[t] + 1 \in Nat
      BY <3>1
    <3>3. told' = told \/ told' = [told EXCEPT ![t] = told[t] + 1]
      OBVIOUS
    <3>4. told' \in [Task -> Nat]
      BY <3>1, <3>2, <3>3
    <3>5. (record' = record \/ record' = [record EXCEPT ![t] = FALSE])
          /\ (dropped' = dropped \/ dropped' = [dropped EXCEPT ![t] = TRUE])
      OBVIOUS
    <3>6. QED
      BY <3>1, <3>4, <3>5
  <2>4. QED
    BY <1>1, <1>3, <2>1, <2>2, <2>3 DEF TaskTypeOK
<1>11. ReleasedLast(t)' /\ OwnedOnce(t)' /\ OwnerKnows(t)'
  BY <1>2, <1>3, <1>6, <1>7, <1>8 DEF ReleasedLast, OwnedOnce, OwnerKnows
<1>12. Untouched(t)' /\ Generations(t)'
  BY <1>1, <1>2, <1>3, <1>4, <1>7 DEF Owned, Untouched, Begun, Generations
<1>13. LastSteps(t)'
  BY <1>1, <1>3, <1>4, <1>6 DEF Owned, LastSteps, Owning
<1>14. ResumeIsOwned(t)'
  BY <1>2, <1>7, Bounded DEF ResumeIsOwned, Bounded
<1>15. FollowedHasExec(t)'
  BY <1>1, <1>2, <1>3, <1>4, <1>7 DEF Owned, FollowedHasExec, Entry
<1>16. RecordedUntilTold(t)'
  BY <1>2, <1>7, <1>9, <1>3 DEF RecordedUntilTold
<1>17. LiveIsHeld(t)'
  BY <1>1, <1>2, <1>3, <1>4, <1>5, <1>6, <1>7, <1>9 DEF Executed, LiveIsHeld
<1>18. ListenerFollows(t)' /\ LeftIsHandedOver(t)'
  BY <1>2, <1>7, Bounded DEF ListenerFollows, LeftIsHandedOver, Bounded
<1>19. QED
  BY <1>10, <1>11, <1>12, <1>13, <1>14, <1>15, <1>16, <1>17, <1>18 DEF Owned, Executed

\* The execution settled: whoever owns the task delivers its outcome.
LEMMA Settles ==
  ASSUME TaskInv, Bounded, NEW t \in Task, NEW c \in Conn, FollowSettled(t, c), UNCHANGED superseded
  PROVE  Owned(t)' /\ Executed(t)' /\ TaskTypeOK'
<1> DEFINE f == [entry[t] EXCEPT !.running = FALSE]
<1>1. Owned(t) /\ Executed(t) /\ TaskTypeOK
  BY DEF TaskInv
<1>2. entry[t] \in Entry
  BY <1>1 DEF TaskTypeOK
<1>3. UNCHANGED <<conn, connState, remote, cancelled, life, via, mine, old, saving, awaited, stopping,
                  ownerAborted, told, record, dropped, superseded>>
  BY DEF FollowSettled, conns, stop, execs, facts
<1>4. pc[t][c] = "settle" /\ life[t][c] \in Settled
  BY DEF FollowSettled
<1>5. CASE Owns(t, mine[t][c])
  <2>1. entry' = [entry EXCEPT ![t] = f] /\ pc' = At(pc, t, c, "deliver")
    BY <1>5 DEF FollowSettled
  <2>2. f \in Entry /\ f.gen = entry[t].gen /\ f.running = FALSE /\ f.exec = entry[t].exec
        /\ f.resuming = entry[t].resuming /\ f.listener = entry[t].listener /\ f.released = entry[t].released
    BY <1>2 DEF Entry
  <2> HIDE DEF f
  <2>3. entry'[t] = f
    BY <1>1, <2>1 DEF TaskTypeOK
  <2>4. \A d \in Conn : pc'[t][d] = IF d = c THEN "deliver" ELSE pc[t][d]
    BY <1>1, <2>1 DEF At, TaskTypeOK
  <2>5. Owning(t, c) /\ entry[t].released = 0 /\ saving[t] = "none" /\ \A d \in Conn : Owning(t, d) => d = c
    BY <1>1, <1>2, <1>4, <1>5 DEF Owns, Owning, Owned, ReleasedLast, OwnedOnce, FollowedHasExec, Entry
  <2>6. \A d \in Conn : Owning(t, d)' <=> Owning(t, d)
    BY <1>3, <2>2, <2>3, <2>4, <2>5 DEF Owning
  <2>7. entry[t].running /\ entry[t].exec = c /\ entry[t].resuming = Null
    BY <1>1, <1>2, <1>4, <2>5 DEF Owned, OwnerKnows, ResumeIsOwned, Entry
  <2>8. ReleasedLast(t)' /\ OwnedOnce(t)' /\ OwnerKnows(t)'
    BY <1>1, <1>3, <2>2, <2>3, <2>4, <2>5, <2>6 DEF Owned, ReleasedLast, OwnedOnce, OwnerKnows
  <2>9. Untouched(t)' /\ Generations(t)'
    BY <1>1, <1>3, <1>4, <2>2, <2>3, <2>4 DEF Owned, Untouched, Begun, Generations
  <2>10. LastSteps(t)'
    BY <1>1, <1>3, <2>2, <2>3, <2>4, <2>5, <2>7 DEF Owned, LastSteps, Owning
  <2>11. ResumeIsOwned(t)'
    BY <2>2, <2>3, <2>7, Bounded DEF ResumeIsOwned, Bounded
  <2>12. FollowedHasExec(t)' /\ RecordedUntilTold(t)'
    BY <1>1, <1>2, <1>3, <2>2, <2>3, <2>4
       DEF Owned, FollowedHasExec, RecordedUntilTold, FromRestore, Entry
  <2>13. LiveIsHeld(t)'
    BY <1>1, <1>3, <1>4, <2>2, <2>3, <2>4, <2>7 DEF Executed, LiveIsHeld, Settled
  <2>14. ListenerFollows(t)' /\ LeftIsHandedOver(t)'
    BY <1>1, <1>3, <1>4, <2>2, <2>3, <2>4, <2>6 DEF Executed, ListenerFollows, LeftIsHandedOver
  <2>15. pc' \in [Task -> [Conn -> {"idle", "move", "resume", "explain", "settle", "deliver", "done"}]]
    BY <1>1, <2>1 DEF At, TaskTypeOK
  <2>16. entry' \in [Task -> Entry]
    BY <1>1, <2>1, <2>2 DEF TaskTypeOK
  <2>17. QED
    BY <1>1, <1>3, <2>8, <2>9, <2>10, <2>11, <2>12, <2>13, <2>14, <2>15, <2>16
       DEF Owned, Executed, TaskTypeOK
<1>6. CASE ~Owns(t, mine[t][c])
  <2>1. mine[t][c] # entry[t].gen
    BY <1>1, <1>4, <1>6 DEF Owns, Owned, OwnerKnows, FollowedHasExec, Owning
  <2>2. entry' = entry /\ pc' = At(pc, t, c, "done")
    BY <1>1, <1>6, <2>1 DEF FollowSettled, TaskTypeOK
  <2>3. \A d \in Conn : pc'[t][d] = IF d = c THEN "done" ELSE pc[t][d]
    BY <1>1, <2>2 DEF At, TaskTypeOK
  <2>4. \A d \in Conn : Owning(t, d)' <=> Owning(t, d)
    BY <1>3, <2>1, <2>2, <2>3 DEF Owning
  <2>5. ~Owning(t, c)
    BY <2>1 DEF Owning
  <2>6. ReleasedLast(t)' /\ OwnedOnce(t)' /\ OwnerKnows(t)'
    BY <1>1, <1>3, <2>2, <2>3, <2>4, <2>5 DEF Owned, ReleasedLast, OwnedOnce, OwnerKnows, FromRestore
  <2>7. Untouched(t)' /\ Generations(t)'
    BY <1>1, <1>3, <1>4, <2>2, <2>3 DEF Owned, Untouched, Begun, Generations
  <2>8. LastSteps(t)' /\ ResumeIsOwned(t)'
    BY <1>1, <1>3, <1>4, <2>2, <2>3, <2>4, <2>5 DEF Owned, LastSteps, ResumeIsOwned
  <2>9. FollowedHasExec(t)' /\ RecordedUntilTold(t)'
    BY <1>1, <1>2, <1>3, <2>2, <2>3 DEF Owned, FollowedHasExec, RecordedUntilTold, FromRestore, Entry
  <2>10. LiveIsHeld(t)'
    BY <1>1, <1>3, <1>4, <2>2, <2>3 DEF Executed, LiveIsHeld
  <2>11. ListenerFollows(t)' /\ LeftIsHandedOver(t)'
    <3>1. LeftIsHandedOver(t)'
      <4>1. \A d \in Conn : connState[d] = "replaced" => d + 1 \in Conn
        BY <1>1 DEF TaskInv, RouteIsLast, TaskTypeOK, Conn, Bounded
      <4>2. QED
        BY <1>1, <1>3, <1>4, <2>2, <2>3, <4>1 DEF Executed, LeftIsHandedOver
    <3>2. QED
      BY <1>1, <1>3, <2>2, <2>3, <2>4, <2>5, <3>1 DEF Executed, ListenerFollows
  <2>12. pc' \in [Task -> [Conn -> {"idle", "move", "resume", "explain", "settle", "deliver", "done"}]]
    BY <1>1, <2>2 DEF At, TaskTypeOK
  <2>13. QED
    BY <1>1, <1>3, <2>2, <2>6, <2>7, <2>8, <2>9, <2>10, <2>11, <2>12 DEF Owned, Executed, TaskTypeOK
<1>7. QED
  BY <1>5, <1>6

\* persistOnStop() returned: the task is recorded, or could not be, and its count released.
LEMMA Persists ==
  ASSUME TaskInv, Bounded, NEW t \in Task, Persisted(t), UNCHANGED superseded
  PROVE  Owned(t)' /\ Executed(t)' /\ TaskTypeOK'
<1> DEFINE f == Released(entry[t])
           x == entry[t].exec
<1>1. Owned(t) /\ Executed(t) /\ TaskTypeOK
  BY DEF TaskInv
<1>2. entry[t] \in Entry /\ entry' = [entry EXCEPT ![t] = f] /\ entry'[t] = f
  BY <1>1 DEF TaskTypeOK, Persisted
<1>3. UNCHANGED <<conn, connState, remote, cancelled, pc, via, mine, old, stopping, ownerAborted, told, superseded>>
  BY DEF Persisted, conns, runs
<1>4. saving[t] = "handoff" /\ saving' = [saving EXCEPT ![t] = "done"] /\ saving'[t] = "done"
  BY <1>1 DEF Persisted, TaskTypeOK
<1>5. /\ stopping /\ ~entry[t].running /\ x \in Conn /\ entry[t].resuming = Null
      /\ entry[t].released = 0 /\ told[t] = 0 /\ \A d \in Conn : ~Owning(t, d)
  BY <1>1, <1>2, <1>4, Bounded
     DEF Owned, FollowedHasExec, ResumeIsOwned, ReleasedLast, OwnedOnce, RecordedUntilTold, Entry, TaskTypeOK, Bounded
<1>6. /\ f \in Entry /\ f.gen = entry[t].gen /\ f.running = FALSE /\ f.exec = x
      /\ f.resuming = Null /\ f.listener = Null /\ f.released = 1
  <2>1. /\ entry[t].released = 0 => f \in Entry
        /\ f.gen = entry[t].gen /\ f.running = FALSE /\ f.exec = x
        /\ f.resuming = entry[t].resuming /\ f.listener = Null /\ f.released = entry[t].released + 1
    BY <1>2, Release
  <2>2. QED
    BY <1>5, <2>1
<1> HIDE DEF f
<1>7. \/ /\ record' = [record EXCEPT ![t] = TRUE] /\ UNCHANGED dropped
         /\ life' = At(life, t, x, Detached(life[t][x]))
      \/ dropped' = [dropped EXCEPT ![t] = TRUE] /\ UNCHANGED <<record, life>>
  BY DEF Persisted
<1>8. \/ /\ record'[t] /\ dropped'[t] = dropped[t]
         /\ \A d \in Conn : life'[t][d] = IF d = x THEN Detached(life[t][d]) ELSE life[t][d]
      \/ dropped'[t] /\ record'[t] = record[t] /\ life'[t] = life[t]
  BY <1>1, <1>5, <1>7 DEF TaskTypeOK, At
<1>9. \A d \in Conn : ~Owning(t, d)'
  BY <1>2, <1>3, <1>5, <1>6 DEF Owning
<1>10. ReleasedLast(t)' /\ OwnedOnce(t)' /\ OwnerKnows(t)'
  BY <1>2, <1>4, <1>6, <1>9 DEF ReleasedLast, OwnedOnce, OwnerKnows
<1>11. Untouched(t)'
  BY <1>1, <1>4, <1>8 DEF Owned, Untouched, Begun, Detached
<1>12. Generations(t)' /\ LastSteps(t)'
  BY <1>1, <1>2, <1>3, <1>6 DEF Owned, Generations, LastSteps
<1>13. ResumeIsOwned(t)' /\ ListenerFollows(t)' /\ LeftIsHandedOver(t)'
  BY <1>2, <1>6, Bounded DEF ResumeIsOwned, ListenerFollows, LeftIsHandedOver, Bounded
<1>14. FollowedHasExec(t)'
  BY <1>1, <1>2, <1>3, <1>4, <1>5, <1>6 DEF Owned, FollowedHasExec
<1>15. RecordedUntilTold(t)'
  BY <1>1, <1>2, <1>3, <1>5, <1>6, <1>8 DEF Owned, RecordedUntilTold
<1>16. LiveIsHeld(t)'
  BY <1>1, <1>2, <1>3, <1>5, <1>6, <1>8, Bounded
     DEF Owned, Executed, FollowedHasExec, LiveIsHeld, Detached, Bounded
<1>17. TaskTypeOK'
  <2>1. entry' \in [Task -> Entry] /\ saving' \in [Task -> {"none", "handoff", "done"}]
    BY <1>1, <1>2, <1>4, <1>6 DEF TaskTypeOK
  <2>2. record' \in [Task -> BOOLEAN] /\ dropped' \in [Task -> BOOLEAN]
    BY <1>1, <1>7 DEF TaskTypeOK
  <2>3. life' \in [Task -> [Conn -> {"none", "pending", "refused", "live"} \cup Settled]]
    <3>1. life \in [Task -> [Conn -> {"none", "pending", "refused", "live"} \cup Settled]]
      BY <1>1 DEF TaskTypeOK
    <3>2. Detached(life[t][x]) \in {"none", "pending", "refused", "live"} \cup Settled
      BY <1>5, <3>1 DEF Detached, Settled
    <3>3. QED
      BY <1>5, <1>7, <3>1, <3>2, SMTT(20) DEF At
  <2>4. awaited' \subseteq Task
    BY <1>1 DEF Persisted, TaskTypeOK
  <2>5. QED
    BY <1>1, <1>3, <2>1, <2>2, <2>3, <2>4 DEF TaskTypeOK
<1>18. QED
  BY <1>10, <1>11, <1>12, <1>13, <1>14, <1>15, <1>16, <1>17 DEF Owned, Executed

\* A call was answered with a task.
LEMMA TaskStarts ==
  ASSUME TaskInv, Bounded, NEW t \in Task, NEW c \in Conn, Start(t, c), UNCHANGED superseded
  PROVE  Owned(t)' /\ Executed(t)' /\ TaskTypeOK' /\ c <= conn
<1>1. Owned(t) /\ Executed(t) /\ TaskTypeOK
  BY DEF TaskInv
<1>2. /\ entry[t] \in Entry
      /\ entry[t].gen = 0 /\ ~entry[t].running /\ entry[t].exec = Null /\ entry[t].resuming = Null
      /\ entry[t].listener = Null /\ entry[t].released = 0
      /\ saving[t] = "none" /\ told[t] = 0 /\ ~record[t]
      /\ \A d \in Conn : life[t][d] = "none" /\ pc[t][d] = "idle" /\ mine[t][d] = 0 /\ via[t][d] = "none"
  BY <1>1 DEF Start, Owned, Untouched, Begun, TaskTypeOK
<1>3. UNCHANGED <<conn, connState, remote, mine, old, awaited, stopping, ownerAborted, told, record, dropped, superseded>>
  BY DEF Start, conns, facts
<1>4. c <= conn
  <2>1. connState[c] # "none" /\ c \in Nat /\ conn \in Nat
    BY <1>1 DEF Start, TaskTypeOK, Conn, Bounded
  <2>2. c > conn => connState[c] = "none"
    BY DEF TaskInv, RouteIsLast
  <2>3. QED
    BY <2>1, <2>2
<1>5. \A d \in Conn : life'[t][d] = IF d = c THEN "live" ELSE "none"
  BY <1>1, <1>2 DEF Start, At, TaskTypeOK
<1>6. \A d \in Conn : via'[t][d] = IF d # c THEN "none" ELSE IF connState[c] = "open" THEN "start" ELSE "late"
  BY <1>1, <1>2 DEF Start, At, TaskTypeOK
<1>7. life' \in [Task -> [Conn -> {"none", "pending", "refused", "live"} \cup Settled]]
      /\ via' \in [Task -> [Conn -> {"none", "start", "late", "restore", "move", "moveRestore"}]]
  BY <1>1 DEF Start, At, TaskTypeOK
<1>8. CASE stopping
  <2> DEFINE f == [entry[t] EXCEPT !.exec = c]
  <2>1. /\ f \in Entry /\ f.gen = 0 /\ ~f.running /\ f.exec = c /\ f.resuming = Null
        /\ f.listener = Null /\ f.released = 0
    BY <1>2 DEF Entry
  <2>2. entry' = [entry EXCEPT ![t] = f] /\ saving' = [saving EXCEPT ![t] = "handoff"] /\ pc' = pc /\ cancelled' = cancelled
    BY <1>8 DEF Start
  <2> HIDE DEF f
  <2>3. entry'[t] = f /\ saving'[t] = "handoff"
    BY <1>1, <2>2 DEF TaskTypeOK
  <2>4. \A d \in Conn : ~Owning(t, d)' /\ pc'[t][d] = "idle"
    BY <1>2, <2>2 DEF Owning
  <2>5. ReleasedLast(t)' /\ OwnedOnce(t)' /\ Untouched(t)' /\ OwnerKnows(t)' /\ LastSteps(t)'
    BY <1>5, <2>1, <2>3, <2>4 DEF ReleasedLast, OwnedOnce, Untouched, Begun, OwnerKnows, LastSteps
  <2>6. Generations(t)' /\ ResumeIsOwned(t)' /\ FollowedHasExec(t)' /\ RecordedUntilTold(t)'
    BY <1>2, <1>3, <1>4, <1>6, <1>8, <2>1, <2>3, <2>4, Bounded
       DEF Generations, ResumeIsOwned, FollowedHasExec, RecordedUntilTold, FromRestore, Bounded
  <2>7. LiveIsHeld(t)' /\ ListenerFollows(t)' /\ LeftIsHandedOver(t)'
    BY <1>3, <1>5, <2>1, <2>3, <2>4, Bounded
       DEF Start, LiveIsHeld, ListenerFollows, LeftIsHandedOver, Bounded
  <2>8. entry' \in [Task -> Entry] /\ saving' \in [Task -> {"none", "handoff", "done"}]
    BY <1>1, <2>1, <2>2 DEF TaskTypeOK
  <2>9. QED
    BY <1>1, <1>3, <1>4, <1>7, <2>2, <2>5, <2>6, <2>7, <2>8 DEF Owned, Executed, TaskTypeOK
<1>9. CASE ~stopping
  <2> DEFINE f == Followed(entry[t], c)
  <2>1. entry' = [entry EXCEPT ![t] = f] /\ saving' = saving /\ pc' = At(pc, t, c, "settle")
        /\ cancelled' = cancelled \cup (IF ownerAborted THEN {<<t, c>>} ELSE {})
    BY <1>9 DEF Start, Follow
  <2>2. /\ f \in Entry /\ f.gen = 0 /\ f.running = TRUE /\ f.exec = c /\ f.resuming = Null
        /\ f.listener \in {c, Null} /\ f.released = 0
    <3>1. /\ f \in Entry /\ f.gen = entry[t].gen /\ f.running = TRUE /\ f.exec = c
          /\ f.resuming = entry[t].resuming /\ f.released = entry[t].released
          /\ f.listener = IF ownerAborted THEN Null ELSE c
      BY <1>1, Following DEF TaskTypeOK
    <3> HIDE DEF f
    <3>2. QED
      BY <1>2, <3>1
  <2> HIDE DEF f
  <2>3. entry'[t] = f
    BY <1>1, <2>1 DEF TaskTypeOK
  <2>4. \A d \in Conn : pc'[t][d] = IF d = c THEN "settle" ELSE "idle"
    BY <1>1, <1>2, <2>1 DEF At, TaskTypeOK
  <2>5. \A d \in Conn : Owning(t, d)' <=> d = c
    BY <1>2, <1>3, <2>2, <2>3, <2>4 DEF Owning
  <2>6. ReleasedLast(t)' /\ OwnedOnce(t)' /\ Untouched(t)' /\ OwnerKnows(t)' /\ LastSteps(t)'
    BY <1>2, <1>5, <2>1, <2>2, <2>3, <2>4, <2>5
       DEF ReleasedLast, OwnedOnce, Untouched, Begun, OwnerKnows, LastSteps
  <2>7. Generations(t)' /\ ResumeIsOwned(t)' /\ FollowedHasExec(t)' /\ RecordedUntilTold(t)'
    BY <1>2, <1>3, <1>4, <1>6, <1>9, <2>1, <2>2, <2>3, <2>4, Bounded
       DEF Generations, ResumeIsOwned, FollowedHasExec, RecordedUntilTold, FromRestore, Bounded
  <2>8. LiveIsHeld(t)' /\ ListenerFollows(t)' /\ LeftIsHandedOver(t)'
    BY <1>3, <1>5, <1>6, <2>2, <2>3, <2>4, <2>5, Bounded
       DEF Start, LiveIsHeld, ListenerFollows, LeftIsHandedOver, Bounded
  <2>9. entry' \in [Task -> Entry] /\ cancelled' \subseteq Task \X Conn
        /\ pc' \in [Task -> [Conn -> {"idle", "move", "resume", "explain", "settle", "deliver", "done"}]]
    BY <1>1, <2>1, <2>2 DEF TaskTypeOK, At
  <2>10. QED
    BY <1>1, <1>3, <1>4, <1>7, <2>1, <2>6, <2>7, <2>8, <2>9 DEF Owned, Executed, TaskTypeOK
<1>10. QED
  BY <1>8, <1>9

\* A recorded task is resumed on the route.
LEMMA Restores ==
  ASSUME TaskInv, Bounded, NEW t \in Task, Restore(t), UNCHANGED superseded
  PROVE  Owned(t)' /\ Executed(t)' /\ TaskTypeOK'
<1> DEFINE f == [entry[t] EXCEPT !.resuming = conn]
<1>1. Owned(t) /\ Executed(t) /\ TaskTypeOK /\ conn \in Conn
  BY DEF TaskInv, TaskTypeOK
<1>2. /\ entry[t] \in Entry
      /\ entry[t].gen = 0 /\ ~entry[t].running /\ entry[t].exec = Null /\ entry[t].resuming = Null
      /\ entry[t].listener = Null /\ entry[t].released = 0
      /\ saving[t] = "none" /\ told[t] = 0 /\ record[t]
      /\ \A d \in Conn : life[t][d] = "none" /\ pc[t][d] = "idle" /\ mine[t][d] = 0 /\ via[t][d] = "none"
  BY <1>1 DEF Restore, Owned, Untouched, Begun, TaskTypeOK
<1>3. UNCHANGED <<conn, connState, remote, cancelled, mine, old, saving, awaited, stopping, ownerAborted,
                  told, record, dropped, superseded>>
  BY DEF Restore, conns, stop, facts
<1>4. /\ \A d \in Conn : life'[t][d] = IF d = conn THEN "pending" ELSE "none"
      /\ \A d \in Conn : via'[t][d] = IF d = conn THEN "restore" ELSE "none"
      /\ \A d \in Conn : pc'[t][d] = IF d = conn THEN "resume" ELSE "idle"
  BY <1>1, <1>2 DEF Restore, At, TaskTypeOK
<1>5. /\ f \in Entry /\ f.gen = 0 /\ ~f.running /\ f.exec = Null /\ f.resuming = conn
      /\ f.listener = Null /\ f.released = 0
  BY <1>1, <1>2 DEF Entry
<1>6. entry' = [entry EXCEPT ![t] = f]
  BY DEF Restore
<1> HIDE DEF f
<1>7. entry'[t] = f /\ entry' \in [Task -> Entry]
  BY <1>1, <1>5, <1>6 DEF TaskTypeOK
<1>8. \A d \in Conn : Owning(t, d)' <=> d = conn
  BY <1>1, <1>2, <1>3, <1>4, <1>5, <1>7 DEF Owning
<1>9. connState[conn] = "open"
  BY DEF Restore
<1>10. ReleasedLast(t)' /\ OwnedOnce(t)' /\ Untouched(t)' /\ OwnerKnows(t)' /\ LastSteps(t)'
  BY <1>1, <1>2, <1>3, <1>4, <1>5, <1>7, <1>8, <1>9
     DEF ReleasedLast, OwnedOnce, Untouched, Begun, OwnerKnows, LastSteps, FromRestore
<1>11. Generations(t)' /\ ResumeIsOwned(t)' /\ FollowedHasExec(t)' /\ RecordedUntilTold(t)'
  BY <1>1, <1>2, <1>3, <1>4, <1>5, <1>7, <1>8, Bounded
     DEF Generations, ResumeIsOwned, FollowedHasExec, RecordedUntilTold, FromRestore, Bounded
<1>12. LiveIsHeld(t)' /\ ListenerFollows(t)' /\ LeftIsHandedOver(t)'
  BY <1>3, <1>4, <1>5, <1>7, Bounded DEF LiveIsHeld, ListenerFollows, LeftIsHandedOver, Bounded
<1>13. TaskTypeOK'
  <2>1. /\ life' \in [Task -> [Conn -> {"none", "pending", "refused", "live"} \cup Settled]]
        /\ via' \in [Task -> [Conn -> {"none", "start", "late", "restore", "move", "moveRestore"}]]
        /\ pc' \in [Task -> [Conn -> {"idle", "move", "resume", "explain", "settle", "deliver", "done"}]]
    BY <1>1 DEF Restore, At, TaskTypeOK
  <2>2. QED
    BY <1>1, <1>3, <1>7, <2>1 DEF TaskTypeOK
<1>14. QED
  BY <1>10, <1>11, <1>12, <1>13 DEF Owned, Executed

\* The steps of one task leave every other task's row alone.
LEMMA OneRow ==
  ASSUME TaskInv, Bounded, NEW t \in Task, NEW c \in Conn, UNCHANGED superseded,
         Start(t, c) \/ Restore(t) \/ Continues(t, c) \/ ExecutionSettles(t, c) \/ Persisted(t)
  PROVE  \A u \in Task : u # t => Stays(u)
<1> SUFFICES ASSUME NEW u \in Task, u # t PROVE Stays(u)
  OBVIOUS
<1> USE DEF Stays, At, conns, runs, execs, stop, facts
<1>1. TaskTypeOK
  BY DEF TaskInv
<1>2. CASE Start(t, c) \/ Restore(t) \/ Persisted(t)
  BY <1>1, <1>2 DEF TaskTypeOK, Start, Restore, Persisted, Follow
<1>3. CASE ExecutionSettles(t, c) \/ Answered(t, c) \/ FollowSettled(t, c)
  BY <1>1, <1>3 DEF TaskTypeOK, ExecutionSettles, Answered, FollowSettled
<1>4. CASE HandedOff(t, c) \/ RestoreAbandoned(t, c)
  BY <1>1, <1>4 DEF TaskTypeOK, HandedOff, RestoreAbandoned, AskResume
<1>5. CASE ResumeRefused(t, c) \/ ResumeAnswered(t, c)
  BY <1>1, <1>5 DEF TaskTypeOK, ResumeRefused, ResumeAnswered, Follow
<1>6. CASE Explained(t, c) \/ Delivered(t, c)
  BY <1>1, <1>6 DEF TaskTypeOK, Explained, Delivered
<1>7. QED
  BY <1>2, <1>3, <1>4, <1>5, <1>6 DEF Continues

\* Only connections that were the route have continuations and executions.
LEMMA Reached ==
  ASSUME TaskInv, Bounded, NEW t \in Task, NEW c \in Conn, pc[t][c] # "idle" \/ life[t][c] # "none"
  PROVE  c <= conn
<1>1. c \in Nat /\ conn \in Nat
  BY DEF TaskInv, TaskTypeOK, Conn, Bounded
<1>2. ~(c > conn)
  BY DEF TaskInv, RouteIsLast
<1>3. QED
  BY <1>1, <1>2

\* A continuation on c takes its next step.
LEMMA PcMoves ==
  ASSUME TaskTypeOK, NEW t \in Task, NEW c \in Conn, NEW v \in {"resume", "explain", "settle", "deliver", "done"},
         pc' = At(pc, t, c, v)
  PROVE  /\ pc' \in [Task -> [Conn -> {"idle", "move", "resume", "explain", "settle", "deliver", "done"}]]
         /\ \A d \in Conn : d # c => pc'[t][d] = pc[t][d]
BY DEF At, TaskTypeOK

\* The hand-over goes on, or finds that it lost the task.
LEMMA AskKeeps ==
  ASSUME TaskInv, Bounded, NEW t \in Task, NEW c \in Conn, UNCHANGED superseded,
         HandedOff(t, c) \/ RestoreAbandoned(t, c)
  PROVE  TaskInv'
<1>1. TaskInv /\ TaskTypeOK /\ Owned(t) /\ entry[t] \in Entry /\ old[t][c] \in Conn /\ mine[t][c] \in Nat
  BY DEF TaskInv, TaskTypeOK, Owned, Generations, HandedOff, RestoreAbandoned
<1>2. /\ pc[t][c] = "move" /\ via[t][c] \in {"move", "moveRestore"} /\ AskResume(t, c)
      /\ via[t][c] = "moveRestore" => pc[t][old[t][c]] = "done"
      /\ UNCHANGED <<conn, connState, remote, cancelled, via, mine, old, saving, awaited, stopping, ownerAborted,
                     told, record, dropped, superseded>>
  BY DEF HandedOff, RestoreAbandoned, conns, stop, facts
<1>3. Owned(t)' /\ Executed(t)' /\ entry' \in [Task -> Entry]
  <2>1. CASE Owns(t, mine[t][c])
    BY <1>1, <1>2, <2>1, Resumes
  <2>2. CASE ~Owns(t, mine[t][c])
    <3> DEFINE f == Relinquished(entry[t], mine[t][c])
    <3>1. /\ entry' = [entry EXCEPT ![t] = f] /\ pc' = At(pc, t, c, "done")
          /\ life' = At(life, t, old[t][c], Detached(life[t][old[t][c]]))
      BY <1>2, <2>2 DEF AskResume
    <3>2. mine[t][c] = entry[t].gen => entry[t].released = 0 /\ stopping
      BY <1>1, <1>2, <2>2 DEF Owned, ReleasedLast, Owning, Owns, Entry
    <3>3. /\ f \in Entry /\ f.exec = entry[t].exec /\ f.resuming = entry[t].resuming
          /\ mine[t][c] = entry[t].gen => /\ f.gen = entry[t].gen + 1 /\ f.running = FALSE /\ f.listener = Null
                                          /\ f.released = entry[t].released + 1
          /\ mine[t][c] # entry[t].gen => f = entry[t]
      BY <1>1, <3>2, Relinquish
    <3>4. f.gen >= entry[t].gen
      BY <1>1, <3>3 DEF Entry
    <3> HIDE DEF f
    <3>5. entry' \in [Task -> Entry]
      BY <1>1, <3>1, <3>3 DEF TaskTypeOK
    <3>6. QED
      BY <1>1, <1>2, <3>1, <3>2, <3>3, <3>4, <3>5, Quits
  <2>3. QED
    BY <2>1, <2>2
<1>4. /\ pc' \in [Task -> [Conn -> {"idle", "move", "resume", "explain", "settle", "deliver", "done"}]]
      /\ \A d \in Conn : d # c => pc'[t][d] = pc[t][d]
  <2>1. pc' = At(pc, t, c, "resume") \/ pc' = At(pc, t, c, "done")
    BY <1>2 DEF AskResume
  <2>2. QED
    BY <1>1, <2>1, PcMoves
<1>5. /\ life' \in [Task -> [Conn -> {"none", "pending", "refused", "live"} \cup Settled]]
      /\ \A d \in Conn : d # c => life'[t][d] \in {life[t][d], Detached(life[t][d])}
  <2>1. life \in [Task -> [Conn -> {"none", "pending", "refused", "live"} \cup Settled]]
    BY <1>1 DEF TaskTypeOK
  <2>2. Detached(life[t][old[t][c]]) \in {"none", "pending", "refused", "live"} \cup Settled
    BY <1>1, <2>1 DEF Detached, Settled
  <2>3. QED
    BY <1>1, <1>2, <2>1, <2>2 DEF AskResume, At
<1>6. TaskTypeOK'
  BY <1>1, <1>2, <1>3, <1>4, <1>5 DEF TaskTypeOK
<1>7. \A u \in Task : u # t => Stays(u)
  BY OneRow DEF Continues
<1>8. c <= conn
  BY <1>2, Reached
<1>9. QED
  BY <1>2, <1>3, <1>4, <1>5, <1>6, <1>7, <1>8, InRow DEF conns

\* resumeTask() failed.
LEMMA RefusedKeeps ==
  ASSUME TaskInv, Bounded, NEW t \in Task, NEW c \in Conn, UNCHANGED superseded, ResumeRefused(t, c)
  PROVE  TaskInv'
<1> DEFINE e == Resumed(entry[t], c)
<1>1. TaskInv /\ TaskTypeOK /\ Owned(t) /\ entry[t] \in Entry /\ mine[t][c] \in Nat
  BY DEF TaskInv, TaskTypeOK
<1>2. /\ pc[t][c] = "resume" /\ life[t][c] = "refused"
      /\ UNCHANGED <<conn, connState, remote, life, via, mine, old, saving, awaited, stopping, ownerAborted,
                     told, record, dropped, superseded>>
  BY DEF ResumeRefused, conns, stop, facts
<1>3. /\ e \in Entry /\ e.gen = entry[t].gen /\ e.running = entry[t].running /\ e.exec = entry[t].exec
      /\ e.resuming = (IF entry[t].resuming = c THEN Null ELSE entry[t].resuming)
      /\ e.listener = entry[t].listener /\ e.released = entry[t].released
  BY <1>1, Resume
<1>4. life' = At(life, t, c, Detached(life[t][c]))
  BY <1>1, <1>2 DEF At, Detached, TaskTypeOK
<1>5. Owning(t, c) <=> mine[t][c] = entry[t].gen
  BY <1>2 DEF Owning
<1>6. mine[t][c] = entry[t].gen => entry[t].released = 0
  BY <1>1, <1>5 DEF Owned, ReleasedLast, Entry
<1>7. /\ Owned(t)' /\ Executed(t)' /\ entry' \in [Task -> Entry]
      /\ cancelled \subseteq cancelled' /\ cancelled' \subseteq Task \X Conn
      /\ pc' = At(pc, t, c, "done") \/ pc' = At(pc, t, c, "explain")
  <2> DEFINE Lost == /\ ~Owns(t, mine[t][c])
                     /\ entry' = [entry EXCEPT ![t] = Relinquished(e, mine[t][c])]
                     /\ pc' = At(pc, t, c, "done") /\ cancelled' = cancelled
             Cut == /\ Owns(t, mine[t][c]) /\ FromRestore(t, c)
                    /\ entry' = [entry EXCEPT ![t] = Released(e)]
                    /\ pc' = At(pc, t, c, "done") /\ cancelled' = cancelled
             Unknown == /\ Owns(t, mine[t][c])
                        /\ entry' = [entry EXCEPT ![t] = [e EXCEPT !.running = FALSE]]
                        /\ pc' = At(pc, t, c, "explain")
                        /\ \/ cancelled' = cancelled
                           \/ cancelled' = cancelled \cup CancelOf(t, old[t][c]) /\ ~FromRestore(t, c)
  <2>1. CASE Lost
    <3> DEFINE f == Relinquished(e, mine[t][c])
    <3>1. mine[t][c] = entry[t].gen => stopping
      BY <2>1 DEF Owns
    <3> HIDE DEF e
    <3>2. /\ f \in Entry /\ f.exec = e.exec /\ f.resuming = e.resuming
          /\ mine[t][c] = e.gen => /\ f.gen = e.gen + 1 /\ f.running = FALSE /\ f.listener = Null
                                   /\ f.released = e.released + 1
          /\ mine[t][c] # e.gen => f = e
      <4>1. e.gen = mine[t][c] => e.released = 0
        BY <1>3, <1>6
      <4>2. QED
        BY <1>1, <1>3, <4>1, Relinquish
    <3>3. e.gen + 1 >= e.gen /\ e.gen >= e.gen
      BY <1>3 DEF Entry
    <3> HIDE DEF f
    <3>4. entry' = [entry EXCEPT ![t] = f] /\ entry' \in [Task -> Entry]
      BY <1>1, <2>1, <3>2 DEF TaskTypeOK, f
    <3>5. Owned(t)' /\ Executed(t)'
      <4>1. f.exec = entry[t].exec
            /\ f.resuming = (IF pc[t][c] = "resume" /\ entry[t].resuming = c THEN Null ELSE entry[t].resuming)
        BY <1>2, <1>3, <3>2
      <4>2. /\ mine[t][c] = entry[t].gen => /\ f.gen >= entry[t].gen /\ f.running = FALSE /\ f.listener = Null
                                            /\ f.released = entry[t].released + 1
            /\ mine[t][c] # entry[t].gen => /\ f.gen = entry[t].gen /\ f.running = entry[t].running
                                            /\ f.listener = entry[t].listener /\ f.released = entry[t].released
        BY <1>3, <3>1, <3>2, <3>3
      <4>3. QED
        BY <1>1, <1>2, <1>4, <2>1, <3>1, <3>2, <3>4, <4>1, <4>2, Quits
    <3>6. QED
      BY <1>1, <2>1, <3>4, <3>5 DEF TaskTypeOK
  <2>2. CASE Cut
    <3> DEFINE f == Released(e)
    <3>1. mine[t][c] = entry[t].gen
      BY <2>2 DEF Owns
    <3> HIDE DEF e
    <3>2. /\ f \in Entry /\ f.gen = e.gen /\ f.running = FALSE /\ f.exec = e.exec
          /\ f.resuming = e.resuming /\ f.listener = Null /\ f.released = e.released + 1
      BY <1>3, <1>6, <3>1, Release
    <3>3. e.gen >= e.gen
      BY <1>3 DEF Entry
    <3> HIDE DEF f
    <3>4. entry' = [entry EXCEPT ![t] = f] /\ entry' \in [Task -> Entry]
      BY <1>1, <2>2, <3>2 DEF TaskTypeOK, f
    <3>5. Owned(t)' /\ Executed(t)'
      <4>1. f.exec = entry[t].exec
            /\ f.resuming = (IF pc[t][c] = "resume" /\ entry[t].resuming = c THEN Null ELSE entry[t].resuming)
        BY <1>2, <1>3, <3>2
      <4>2. /\ mine[t][c] = entry[t].gen => /\ f.gen >= entry[t].gen /\ f.running = FALSE /\ f.listener = Null
                                            /\ f.released = entry[t].released + 1
            /\ mine[t][c] # entry[t].gen => /\ f.gen = entry[t].gen /\ f.running = entry[t].running
                                            /\ f.listener = entry[t].listener /\ f.released = entry[t].released
        BY <1>3, <3>1, <3>2, <3>3
      <4>3. QED
        BY <1>1, <1>2, <1>4, <2>2, <3>1, <3>2, <3>4, <4>1, <4>2, Quits
    <3>6. QED
      BY <1>1, <2>2, <3>4, <3>5 DEF TaskTypeOK
  <2>3. CASE Unknown
    <3> DEFINE f == [e EXCEPT !.running = FALSE]
    <3> HIDE DEF e
    <3>1. /\ f \in Entry /\ f.gen = e.gen /\ f.running = FALSE /\ f.exec = e.exec
          /\ f.resuming = e.resuming /\ f.listener = e.listener /\ f.released = e.released
      BY <1>3 DEF Entry
    <3> HIDE DEF f
    <3>2. entry' = [entry EXCEPT ![t] = f] /\ entry' \in [Task -> Entry]
      BY <1>1, <2>3, <3>1 DEF TaskTypeOK, f
    <3>3. ~FromRestore(t, c) => old[t][c] \in Conn
      BY <1>1, <1>2, <1>5, <2>3 DEF Owns, Owned, OwnerKnows, Generations, FromRestore
    <3>4. cancelled \subseteq cancelled' /\ cancelled' \subseteq Task \X Conn
      <4> DEFINE q == cancelled' \ cancelled
      <4>1. q \subseteq Task \X Conn
        BY <1>1, <2>3, <3>3 DEF CancelOf
      <4>2. cancelled \subseteq cancelled' /\ cancelled \subseteq Task \X Conn
        BY <1>1, <2>3 DEF TaskTypeOK
      <4>3. QED
        BY <4>1, <4>2
    <3>5. Owned(t)' /\ Executed(t)'
      <4>1. /\ f \in Entry /\ f.gen = entry[t].gen /\ f.running = FALSE /\ f.exec = entry[t].exec
            /\ f.resuming = (IF entry[t].resuming = c THEN Null ELSE entry[t].resuming)
            /\ f.listener = entry[t].listener /\ f.released = entry[t].released
        BY <1>3, <3>1
      <4>2. UNCHANGED <<conns, life, via, mine, old, stop, facts, superseded>>
        BY <1>2 DEF conns, stop, facts
      <4>3. Owns(t, mine[t][c]) /\ pc' = At(pc, t, c, "explain")
        BY <2>3
      <4> HIDE DEF Unknown
      <4>4. QED
        BY <1>2, <3>2, <3>4, <4>1, <4>2, <4>3, Explains
    <3>6. QED
      BY <2>3, <3>2, <3>4, <3>5
  <2>4. Lost \/ Cut \/ Unknown
    BY DEF ResumeRefused
  <2> HIDE DEF Lost, Cut, Unknown
  <2>5. QED
    BY <2>1, <2>2, <2>3, <2>4
<1>8. /\ pc' \in [Task -> [Conn -> {"idle", "move", "resume", "explain", "settle", "deliver", "done"}]]
      /\ \A d \in Conn : d # c => pc'[t][d] = pc[t][d]
  BY <1>1, <1>7, PcMoves
<1>9. TaskTypeOK'
  BY <1>1, <1>2, <1>7, <1>8 DEF TaskTypeOK
<1>10. \A u \in Task : u # t => Stays(u)
  BY OneRow DEF Continues
<1>11. c <= conn
  BY <1>2, Reached
<1>12. QED
  BY <1>2, <1>7, <1>8, <1>9, <1>10, <1>11, InRow DEF conns

\* resumeTask() answered: the execution is followed, or detached.
LEMMA AnswerKeeps ==
  ASSUME TaskInv, Bounded, NEW t \in Task, NEW c \in Conn, UNCHANGED superseded, ResumeAnswered(t, c)
  PROVE  TaskInv'
<1> DEFINE e == Resumed(entry[t], c)
<1>1. TaskInv /\ TaskTypeOK /\ Owned(t) /\ entry[t] \in Entry /\ mine[t][c] \in Nat
  BY DEF TaskInv, TaskTypeOK
<1>2. /\ pc[t][c] = "resume" /\ life[t][c] \in Settled \cup {"live"}
      /\ UNCHANGED <<conn, connState, remote, via, mine, old, saving, awaited, stopping, ownerAborted,
                     told, record, dropped, superseded>>
  BY DEF ResumeAnswered, conns, stop, facts
<1>3. /\ e \in Entry /\ e.gen = entry[t].gen /\ e.running = entry[t].running /\ e.exec = entry[t].exec
      /\ e.resuming = (IF entry[t].resuming = c THEN Null ELSE entry[t].resuming)
      /\ e.listener = entry[t].listener /\ e.released = entry[t].released
  BY <1>1, Resume
<1>4. /\ Owned(t)' /\ Executed(t)' /\ entry' \in [Task -> Entry]
      /\ cancelled \subseteq cancelled' /\ cancelled' \subseteq Task \X Conn
      /\ pc' = At(pc, t, c, "done") \/ pc' = At(pc, t, c, "settle")
      /\ life' = life \/ life' = At(life, t, c, Detached(life[t][c]))
  <2>1. CASE Owns(t, mine[t][c]) /\ ~(FromRestore(t, c) /\ ownerAborted)
    <3>1. Owned(t)' /\ Executed(t)'
      BY <2>1, ResumeAnsweredFollows
    <3>2. /\ entry' = [entry EXCEPT ![t] = Followed(e, c)] /\ pc' = At(pc, t, c, "settle") /\ life' = life
          /\ cancelled' = cancelled \cup (IF ownerAborted THEN CancelOf(t, c) ELSE {})
      BY <2>1 DEF ResumeAnswered, Follow
    <3> HIDE DEF e
    <3>3. Followed(e, c) \in Entry
      BY <1>3, Following
    <3>4. entry' \in [Task -> Entry]
      BY <1>1, <3>2, <3>3 DEF TaskTypeOK
    <3>5. cancelled \subseteq cancelled' /\ cancelled' \subseteq Task \X Conn
      BY <1>1, <3>2 DEF TaskTypeOK, CancelOf
    <3>6. QED
      BY <3>1, <3>2, <3>4, <3>5
  <2>2. CASE ~(Owns(t, mine[t][c]) /\ ~(FromRestore(t, c) /\ ownerAborted))
    <3> DEFINE f == Relinquished(e, mine[t][c])
    <3>1. /\ entry' = [entry EXCEPT ![t] = f] /\ pc' = At(pc, t, c, "done") /\ cancelled' = cancelled
          /\ life' = At(life, t, c, Detached(life[t][c]))
      BY <2>2 DEF ResumeAnswered
    <3>2. mine[t][c] = entry[t].gen => entry[t].released = 0 /\ (stopping \/ FromRestore(t, c))
      BY <1>1, <1>2, <2>2 DEF Owned, ReleasedLast, Owning, Owns, Entry
    <3> HIDE DEF e
    <3>3. /\ f \in Entry /\ f.exec = e.exec /\ f.resuming = e.resuming
          /\ mine[t][c] = e.gen => /\ f.gen = e.gen + 1 /\ f.running = FALSE /\ f.listener = Null
                                   /\ f.released = e.released + 1
          /\ mine[t][c] # e.gen => f = e
      <4>1. e.gen = mine[t][c] => e.released = 0
        BY <1>3, <3>2
      <4>2. QED
        BY <1>1, <1>3, <4>1, Relinquish
    <3>4. e.gen + 1 >= e.gen
      BY <1>3 DEF Entry
    <3> HIDE DEF f
    <3>5. entry' \in [Task -> Entry]
      BY <1>1, <3>1, <3>3 DEF TaskTypeOK
    <3>6. f.exec = entry[t].exec
          /\ f.resuming = (IF pc[t][c] = "resume" /\ entry[t].resuming = c THEN Null ELSE entry[t].resuming)
      BY <1>2, <1>3, <3>3
    <3>7. /\ mine[t][c] = entry[t].gen => /\ f.gen >= entry[t].gen /\ f.running = FALSE /\ f.listener = Null
                                          /\ f.released = entry[t].released + 1
          /\ mine[t][c] # entry[t].gen => /\ f.gen = entry[t].gen /\ f.running = entry[t].running
                                          /\ f.listener = entry[t].listener /\ f.released = entry[t].released
      BY <1>3, <3>3, <3>4
    <3>8. life[t][c] # "pending"
      BY <1>2 DEF Settled
    <3>9. Owned(t)' /\ Executed(t)'
      BY <1>1, <1>2, <3>1, <3>2, <3>3, <3>6, <3>7, <3>8, Quits
    <3>10. QED
      BY <1>1, <3>1, <3>5, <3>9 DEF TaskTypeOK
  <2>3. QED
    BY <2>1, <2>2
<1>5. /\ pc' \in [Task -> [Conn -> {"idle", "move", "resume", "explain", "settle", "deliver", "done"}]]
      /\ \A d \in Conn : d # c => pc'[t][d] = pc[t][d]
  BY <1>1, <1>4, PcMoves
<1>6. /\ life' \in [Task -> [Conn -> {"none", "pending", "refused", "live"} \cup Settled]]
      /\ \A d \in Conn : d # c => life'[t][d] = life[t][d]
  <2>1. life \in [Task -> [Conn -> {"none", "pending", "refused", "live"} \cup Settled]]
    BY <1>1 DEF TaskTypeOK
  <2>2. Detached(life[t][c]) \in {"none", "pending", "refused", "live"} \cup Settled
    BY <1>2 DEF Detached, Settled
  <2>3. QED
    BY <1>4, <2>1, <2>2 DEF At
<1>7. TaskTypeOK'
  BY <1>1, <1>2, <1>4, <1>5, <1>6 DEF TaskTypeOK
<1>8. \A u \in Task : u # t => Stays(u)
  BY OneRow DEF Continues
<1>9. c <= conn
  BY <1>2, Reached
<1>10. QED
  BY <1>2, <1>4, <1>5, <1>6, <1>7, <1>8, <1>9, InRow DEF conns

\* The follow() chain and the calls that begin a task.
LEMMA ChainKeeps ==
  ASSUME TaskInv, Bounded, NEW t \in Task, NEW c \in Conn, UNCHANGED superseded,
         Explained(t, c) \/ Delivered(t, c) \/ FollowSettled(t, c)
  PROVE  TaskInv'
<1>1. TaskTypeOK /\ Owned(t) /\ entry[t] \in Entry
  BY DEF TaskInv, TaskTypeOK
<1>2. Owned(t)' /\ Executed(t)' /\ TaskTypeOK'
  <2>1. CASE FollowSettled(t, c)
    BY <2>1, Settles
  <2>2. CASE Explained(t, c) \/ Delivered(t, c)
    <3>1. pc[t][c] \in {"explain", "deliver"} /\ mine[t][c] = entry[t].gen
      BY <1>1, <2>2 DEF Explained, Delivered, Owned, LastSteps
    <3>2. entry' = [entry EXCEPT ![t] = Released(entry[t])]
      BY <2>2, <3>1 DEF Explained, Delivered
    <3>3. QED
      BY <2>2, <3>1, <3>2, Tells DEF Explained, Delivered
  <2>3. QED
    BY <2>1, <2>2
<1>3. /\ UNCHANGED <<conns, stopping, cancelled, life, via>> /\ pc[t][c] # "idle"
      /\ \A d \in Conn : d # c => pc'[t][d] = pc[t][d]
  BY <1>1 DEF Explained, Delivered, FollowSettled, execs, stop, At, TaskTypeOK
<1>4. \A u \in Task : u # t => Stays(u)
  BY OneRow DEF Continues
<1>5. c <= conn
  BY <1>3, Reached
<1>6. QED
  BY <1>2, <1>3, <1>4, <1>5, InRow

\* start() keeps the invariant.
LEMMA TaskBeginKeeps ==
  ASSUME TaskInv, Bounded, NEW t \in Task, NEW c \in Conn, UNCHANGED superseded, Start(t, c)
  PROVE  TaskInv'
<1>1. TaskTypeOK /\ Owned(t)' /\ Executed(t)' /\ TaskTypeOK' /\ c <= conn
  BY TaskStarts DEF TaskInv
<1>2. UNCHANGED <<conns, stopping>> /\ cancelled \subseteq cancelled'
  BY DEF Start, Follow
<1>3. \A d \in Conn : d # c => pc'[t][d] = pc[t][d] /\ via'[t][d] = via[t][d] /\ life'[t][d] = life[t][d]
  BY <1>1 DEF Start, Follow, At, TaskTypeOK
<1>4. \A u \in Task : u # t => Stays(u)
  BY OneRow
<1>5. QED
  BY <1>1, <1>2, <1>3, <1>4, InRow

\* restore() keeps the invariant.
LEMMA RestoreKeeps ==
  ASSUME TaskInv, Bounded, NEW t \in Task, UNCHANGED superseded, Restore(t)
  PROVE  TaskInv'
<1>1. TaskTypeOK /\ Owned(t)' /\ Executed(t)' /\ TaskTypeOK'
  BY Restores DEF TaskInv
<1>2. conn \in Conn /\ conn <= conn
  BY <1>1 DEF TaskTypeOK, Conn, Bounded
<1>3. UNCHANGED <<conns, stopping, cancelled>>
  BY DEF Restore, stop
<1>4. \A d \in Conn : d # conn => pc'[t][d] = pc[t][d] /\ via'[t][d] = via[t][d] /\ life'[t][d] = life[t][d]
  BY <1>2, <1>1 DEF Restore, At, TaskTypeOK
<1>5. \A u \in Task : u # t => Stays(u)
  BY <1>2, OneRow
<1>6. QED
  BY <1>2, <1>1, <1>3, <1>4, <1>5, InRow

\* persistOnStop() keeps the invariant.
LEMMA PersistKeeps ==
  ASSUME TaskInv, Bounded, NEW t \in Task, UNCHANGED superseded, Persisted(t)
  PROVE  TaskInv'
<1>1. TaskTypeOK /\ Owned(t) /\ Owned(t)' /\ Executed(t)' /\ TaskTypeOK'
  BY Persists DEF TaskInv
<1>2. entry[t].exec \in Conn /\ entry[t].exec <= conn
  BY <1>1 DEF Persisted, Owned, FollowedHasExec, TaskTypeOK, Entry
<1>3. UNCHANGED <<conns, stopping, cancelled, pc, via>>
  BY DEF Persisted, runs
<1>4. \A d \in Conn : d # entry[t].exec => life'[t][d] = life[t][d]
  BY <1>1, <1>2 DEF Persisted, At, TaskTypeOK
<1>5. \A u \in Task : u # t => Stays(u)
  BY <1>2, OneRow
<1>6. QED
  BY <1>1, <1>2, <1>3, <1>4, <1>5, InRow

\* resumeTask() settles, and an execution settles.
LEMMA LifeKeeps ==
  ASSUME TaskInv, Bounded, NEW t \in Task, NEW c \in Conn, UNCHANGED superseded,
         Answered(t, c) \/ ExecutionSettles(t, c)
  PROVE  TaskInv'
<1>1. TaskTypeOK /\ UNCHANGED <<conns, cancelled, remote, entry, runs, stop, facts>> /\ life[t][c] # "none"
  BY DEF TaskInv, Answered, ExecutionSettles
<1>2. PICK v \in {"refused", "live", "ended"} :
        /\ life' = At(life, t, c, v)
        /\ \/ life[t][c] = "pending" /\ (v = "live" => connState[c] # "gone") /\ v # "ended"
           \/ life[t][c] = "live" /\ v = "ended"
  BY DEF Answered, ExecutionSettles
<1>3. Owned(t)' /\ Executed(t)'
  BY <1>1, <1>2, LifeMoves
<1>4. /\ life' \in [Task -> [Conn -> {"none", "pending", "refused", "live"} \cup Settled]]
      /\ \A d \in Conn : d # c => life'[t][d] = life[t][d]
  BY <1>1, <1>2 DEF At, TaskTypeOK, Settled
<1>5. TaskTypeOK'
  BY <1>1, <1>4 DEF TaskTypeOK, conns, runs, stop, facts
<1>6. \A u \in Task : u # t => Stays(u)
  BY OneRow DEF Continues
<1>7. c <= conn
  BY <1>1, Reached
<1>8. QED
  BY <1>1, <1>3, <1>4, <1>5, <1>6, <1>7, InRow DEF runs, stop

\* stop() and the end of the task on the server touch no entry.
LEMMA RowsStay ==
  ASSUME TaskInv, UNCHANGED <<conns, life, entry, runs, stop, facts, superseded>>,
         cancelled \subseteq cancelled', cancelled' \subseteq Task \X Conn,
         remote' \in [Task -> {"working", "ended"}]
  PROVE  TaskInv'
<1>1. \A u \in Task : Stays(u)
  BY DEF Stays, runs, stop, facts
<1>2. \A u \in Task : Owned(u)' /\ Executed(u)'
  BY <1>1, Elsewhere DEF TaskInv, stop
<1>3. TaskTypeOK' /\ RouteIsLast'
  BY DEF TaskInv, TaskTypeOK, RouteIsLast, conns, runs, stop, facts
<1>4. QED
  BY <1>2, <1>3 DEF TaskInv

\* stop(), and a task that ends on the server, keep the invariant.
LEMMA CancelKeeps ==
  ASSUME TaskInv, Bounded, NEW t \in Task, UNCHANGED superseded, Stop(t) \/ RemoteEnds(t)
  PROVE  TaskInv'
<1>1. TaskTypeOK /\ Owned(t)
  BY DEF TaskInv
<1>2. CASE Stop(t)
  <2>1. entry[t].exec \in Conn
    BY <1>1, <1>2 DEF Stop, Owned, FollowedHasExec, TaskTypeOK, Entry
  <2>2. cancelled \subseteq cancelled' /\ cancelled' \subseteq Task \X Conn
    BY <1>1, <1>2, <2>1 DEF Stop, CancelOf, TaskTypeOK
  <2>3. QED
    BY <1>1, <1>2, <2>2, RowsStay DEF Stop, TaskTypeOK
<1>3. CASE RemoteEnds(t)
  BY <1>1, <1>3, RowsStay DEF RemoteEnds, TaskTypeOK
<1>4. QED
  BY <1>2, <1>3

-----------------------------------------------------------------------------
(* The steps of every task at once *)

\* The owner of a task whose handed-over connection is replaced is taken over with it.
LEMMA ReplaceTakesOver ==
  ASSUME TaskInv, Bounded, NEW t \in Task, NEW c \in Conn, Owning(t, c), pc[t][c] = "resume"
  PROVE  Movable(t)
<1>1. Owned(t) /\ c # Null
  BY DEF TaskInv, Bounded
<1>2. QED
  BY <1>1 DEF Owned, OwnerKnows, Movable

\* handOver() takes every task over that moves to the new connection.
LEMMA ReplaceKeeps ==
  ASSUME TaskInv, Bounded, Replace, Supersedes
  PROVE  TaskInv'
<1>1. PICK n \in Conn : n = conn + 1
  BY DEF TaskInv, TaskTypeOK, Replace, MayBegin, Conn, Bounded
<1>2. TaskTypeOK /\ conn \in Conn /\ n \in Conn /\ conn < LastConn /\ n # conn
  BY <1>1 DEF TaskInv, TaskTypeOK, Replace, MayBegin, Conn, Bounded
<1>3. n = conn + 1 /\ n \in Nat /\ conn \in Nat /\ \A d \in Conn : d \in Nat
  BY <1>1 DEF TaskInv, TaskTypeOK, Conn, Bounded
<1>4. /\ conn' = n /\ connState[conn] = "open"
      /\ connState' = [connState EXCEPT ![conn] = "replaced", ![n] = "open"]
      /\ UNCHANGED <<remote, life, cancelled, saving, awaited, stopping, ownerAborted, told, record, dropped>>
  BY <1>1 DEF Replace, execs, stop, facts
<1>5. \A d \in Conn : connState'[d] = IF d = n THEN "open" ELSE IF d = conn THEN "replaced" ELSE connState[d]
  BY <1>2, <1>4 DEF TaskTypeOK
<1>6. \A t \in Task : ~Movable(t) => Stays(t)
  BY <1>1, <1>2, <1>4 DEF Replace, Stays, TaskTypeOK
<1>7. \A t \in Task : Movable(t) =>
        /\ entry'[t] = TakenOver(entry[t])
        /\ \A d \in Conn : d # n => pc'[t][d] = pc[t][d] /\ mine'[t][d] = mine[t][d]
                                    /\ via'[t][d] = via[t][d] /\ old'[t][d] = old[t][d]
        /\ pc'[t][n] = "move" /\ mine'[t][n] = entry[t].gen + 1
        /\ via'[t][n] = (IF entry[t].running THEN "move" ELSE "moveRestore")
        /\ old'[t][n] = IF entry[t].running THEN entry[t].exec ELSE entry[t].resuming
  BY <1>1, <1>2 DEF Replace, TaskTypeOK
<1>8. superseded => superseded'
  BY DEF Supersedes
<1>9. \A t \in Task : via[t][conn] \in {"move", "moveRestore"} /\ pc[t][conn] = "move" => superseded'
  BY DEF Supersedes, HandOverReturned
<1>10. \A d \in Conn : d > conn => connState[d] = "none" /\ \A t \in Task : pc[t][d] = "idle" /\ life[t][d] = "none" /\ via[t][d] = "none"
  BY DEF TaskInv, RouteIsLast
<1>11. ASSUME NEW t \in Task, ~Movable(t) PROVE Owned(t)' /\ Executed(t)'
  <2>1. Stays(t) /\ Owned(t) /\ Executed(t) /\ UNCHANGED <<stopping, cancelled>> /\ ~entry[t].running
    BY <1>4, <1>6, <1>11 DEF TaskInv, Movable
  <2> USE DEF Stays, Owning
  <2>2. ReleasedLast(t)' /\ OwnedOnce(t)' /\ Untouched(t)' /\ Generations(t)'
    BY <2>1 DEF Owned, ReleasedLast, OwnedOnce, Untouched, Begun, Generations
  <2>3. LastSteps(t)' /\ ResumeIsOwned(t)' /\ RecordedUntilTold(t)'
    BY <2>1 DEF Owned, LastSteps, ResumeIsOwned, RecordedUntilTold, FromRestore
  <2>4. OwnerKnows(t)'
    <3> SUFFICES ASSUME NEW c \in Conn, Owning(t, c), pc[t][c] \in {"move", "resume"}, connState'[c] = "replaced"
                 PROVE  superseded'
      BY <2>1 DEF Owned, OwnerKnows, FromRestore
    <3>1. CASE c # conn
      BY <1>5, <1>8, <2>1, <3>1 DEF Owned, OwnerKnows
    <3>2. CASE c = conn
      BY <1>9, <1>11, <2>1, <3>2, ReplaceTakesOver DEF Owned, OwnerKnows
    <3>3. QED
      BY <3>1, <3>2
  <2>5. FollowedHasExec(t)'
    <3>1. entry[t] \in Entry
      BY <1>2 DEF TaskTypeOK
    <3>2. entry[t].exec \in Conn \cup {Null}
      BY <3>1 DEF Entry
    <3>3. entry[t].exec # Null => entry[t].exec <= conn
      BY <2>1 DEF Owned, FollowedHasExec
    <3>4. entry[t].exec # Null => entry[t].exec <= n
      <4>1. entry[t].exec # Null => entry[t].exec \in Nat
        BY <1>3, <3>2
      <4>2. QED
        BY <1>3, <3>3, <4>1
    <3>5. QED
      BY <1>4, <2>1, <3>4 DEF Owned, FollowedHasExec
  <2>6. Executed(t)'
    BY <1>5, <2>1 DEF Executed, LiveIsHeld, ListenerFollows, LeftIsHandedOver
  <2>7. QED
    BY <2>2, <2>3, <2>4, <2>5, <2>6 DEF Owned
<1>12. ASSUME NEW t \in Task, Movable(t) PROVE Owned(t)' /\ Executed(t)'
  <2> DEFINE r == entry[t].resuming
             x == entry[t].exec
  <2>1. /\ Owned(t) /\ Executed(t) /\ entry[t] \in Entry /\ UNCHANGED <<stopping, cancelled>>
        /\ life'[t] = life[t] /\ saving'[t] = saving[t] /\ told'[t] = told[t] /\ record'[t] = record[t]
        /\ dropped'[t] = dropped[t] /\ entry[t].gen \in Nat /\ r \in Conn \cup {Null} /\ x \in Conn \cup {Null}
    BY <1>4 DEF TaskInv, TaskTypeOK, Entry
  <2>2. /\ entry'[t].gen = entry[t].gen + 1 /\ entry'[t].running = entry[t].running /\ entry'[t].exec = x
        /\ entry'[t].resuming = r /\ entry'[t].listener = Null /\ entry'[t].released = entry[t].released
    BY <1>7, <1>12, <2>1, TakeOver
  <2>3. entry[t].running => /\ ~stopping /\ x \in Conn /\ x <= conn /\ saving[t] = "none" /\ r = Null
                            /\ pc[t][x] \in {"settle", "deliver", "done"}
    BY <2>1 DEF Owned, FollowedHasExec, ResumeIsOwned, TaskTypeOK
  <2>4. ~entry[t].running =>
          /\ r \in Conn /\ r <= conn /\ saving[t] # "handoff" /\ pc[t][r] = "resume" /\ x = Null
          /\ record[t] \/ entry[t].released = 1
          /\ \E c \in Conn : Owning(t, c)
    <3> SUFFICES ASSUME ~entry[t].running PROVE
          /\ r \in Conn /\ r <= conn /\ saving[t] # "handoff" /\ pc[t][r] = "resume" /\ x = Null
          /\ record[t] \/ entry[t].released = 1
          /\ \E c \in Conn : Owning(t, c)
      OBVIOUS
    <3>1. r \in Conn
      BY <1>12, <2>1 DEF Movable
    <3>2. saving[t] # "handoff" /\ pc[t][r] = "resume"
      BY <2>1, <3>1 DEF Owned, ResumeIsOwned
    <3>3. PICK c \in Conn : Owning(t, c) /\ (c = r \/ (pc[t][c] = "move" /\ via[t][c] = "moveRestore" /\ old[t][c] = r))
      BY <2>1, <3>1 DEF Owned, ResumeIsOwned
    <3>4. x = Null /\ FromRestore(t, c)
      BY <2>1, <3>2, <3>3 DEF Owned, OwnerKnows
    <3>5. record[t] \/ entry[t].released = 1
      BY <2>1, <3>4 DEF Owned, RecordedUntilTold
    <3>6. r <= conn
      BY <3>1, <3>2, Reached
    <3>7. QED
      BY <3>1, <3>2, <3>3, <3>4, <3>5, <3>6
  <2>5. entry[t].released = 0
    BY <2>1, <2>3, <2>4 DEF Owned, ReleasedLast, Entry
  <2>6. \A c \in Conn : mine[t][c] \in Nat /\ mine[t][c] <= entry[t].gen
    BY <2>1, <1>2 DEF Owned, Generations, TaskTypeOK
  <2>7. \A c \in Conn : Owning(t, c)' <=> c = n
    BY <1>2, <1>7, <1>12, <2>1, <2>2, <2>6 DEF Owning
  <2>8. old'[t][n] \in Conn /\ old'[t][n] <= conn /\ old'[t][n] = (IF entry[t].running THEN x ELSE r)
    BY <1>7, <1>12, <2>3, <2>4
  <2>9. ReleasedLast(t)' /\ OwnedOnce(t)'
    BY <2>1, <2>2, <2>3, <2>4, <2>5, <2>7 DEF ReleasedLast, OwnedOnce, Owned, FollowedHasExec
  <2>10. Untouched(t)'
    BY <1>12, <2>1 DEF Owned, Untouched, Begun, Movable
  <2>11. Generations(t)'
    <3> SUFFICES ASSUME NEW c \in Conn
                 PROVE  /\ mine'[t][c] <= entry'[t].gen
                        /\ via'[t][c] \in {"move", "moveRestore"} =>
                             /\ old'[t][c] \in Conn /\ old'[t][c] < c
                             /\ \A d \in Conn : d < c => mine'[t][d] < mine'[t][c]
                        /\ via'[t][c] = "move" => pc'[t][old'[t][c]] \in {"settle", "deliver", "done"}
      BY DEF Generations
    <3>1. CASE c = n
      <4>1. mine'[t][n] = entry[t].gen + 1 /\ \A d \in Conn : d < n => mine'[t][d] <= entry[t].gen /\ mine'[t][d] \in Nat
        <5>1. \A d \in Conn : d < n => d # n
          BY <1>3
        <5>2. QED
          BY <1>7, <1>12, <2>6, <5>1
      <4>2. old'[t][n] < n /\ old'[t][n] # n
        <5>1. old'[t][n] \in Nat
          BY <1>3, <2>8
        <5>2. QED
          BY <1>3, <2>8, <5>1
      <4>3. via'[t][n] = "move" => pc'[t][old'[t][n]] \in {"settle", "deliver", "done"}
        BY <1>7, <1>12, <2>3, <2>8, <4>2
      <4>4. QED
        BY <2>1, <2>2, <2>8, <3>1, <4>1, <4>2, <4>3
    <3>2. CASE c # n
      <4>1. via'[t][c] = via[t][c] /\ old'[t][c] = old[t][c] /\ mine'[t][c] = mine[t][c]
        BY <1>7, <1>12, <3>2
      <4>2. via[t][c] \in {"move", "moveRestore"} => ~(n < c)
        <5>1. n < c => c > conn
          BY <1>3
        <5>2. QED
          BY <1>10, <5>1
      <4>3. via[t][c] \in {"move", "moveRestore"} =>
              /\ old[t][c] \in Conn /\ old[t][c] < c /\ old[t][c] # n
              /\ \A d \in Conn : d < c => mine'[t][d] < mine[t][c]
        BY <1>2, <1>7, <1>12, <2>1, <4>2 DEF Owned, Generations
      <4>4. via[t][c] = "move" => pc'[t][old[t][c]] \in {"settle", "deliver", "done"}
        BY <1>7, <1>12, <2>1, <4>3 DEF Owned, Generations
      <4>5. mine[t][c] <= entry[t].gen + 1
        BY <2>1, <2>6
      <4>6. QED
        BY <2>2, <4>1, <4>3, <4>4, <4>5
    <3>3. QED
      BY <3>1, <3>2
  <2>12. OwnerKnows(t)'
    BY <1>5, <1>2, <1>7, <1>12, <2>2, <2>4, <2>7, <2>8 DEF OwnerKnows, FromRestore
  <2>13. LastSteps(t)'
    BY <1>7, <1>12, <2>1 DEF Owned, LastSteps, Movable
  <2>14. ResumeIsOwned(t)'
    <3>1. r \in Conn => ~entry[t].running
      BY <2>3, Bounded DEF Bounded
    <3>2. r \in Conn => r # n
      BY <1>3, <2>4, <3>1
    <3>3. r \in Conn => saving[t] # "handoff" /\ pc'[t][r] = "resume"
      BY <1>7, <1>12, <2>4, <3>1, <3>2
    <3>4. r \in Conn => via'[t][n] = "moveRestore" /\ old'[t][n] = r /\ pc'[t][n] = "move"
      BY <1>7, <1>12, <2>8, <3>1
    <3>5. Owning(t, n)' /\ n \in Conn
      BY <1>3, <2>7
    <3>6. QED
      BY <2>1, <2>2, <3>1, <3>3, <3>4, <3>5 DEF ResumeIsOwned
  <2>15. FollowedHasExec(t)'
    <3>1. x # Null => x \in Conn /\ x <= n /\ x # n
      <4>1. x # Null => x \in Conn /\ x <= conn
        BY <2>1 DEF Owned, FollowedHasExec
      <4>2. \A d \in Nat : d <= conn => d <= n /\ d # n
        BY <1>3
      <4>3. \A d \in Conn : d \in Nat
        BY <1>3
      <4>4. QED
        BY <4>1, <4>2, <4>3
    <3>2. QED
      BY <1>4, <1>7, <1>12, <2>1, <2>2, <3>1 DEF Owned, FollowedHasExec
  <2>16. RecordedUntilTold(t)'
    BY <1>7, <1>12, <2>1, <2>2, <2>4 DEF Owned, RecordedUntilTold, FromRestore
  <2>17. LiveIsHeld(t)'
    <3> SUFFICES ASSUME NEW c \in Conn
                 PROVE  /\ life[t][c] = "live" =>
                             /\ connState'[c] # "gone"
                             /\ \/ pc'[t][c] = "resume"
                                \/ x = c /\ (entry[t].running \/ saving[t] = "handoff" \/ dropped[t])
                        /\ pc'[t][c] = "resume" => life[t][c] \in {"pending", "refused", "live", "ended"}
                        /\ life[t][c] = "pending" => pc'[t][c] = "resume"
      BY <2>1, <2>2 DEF LiveIsHeld
    <3>1. CASE c = n
      BY <1>2, <1>7, <1>10, <1>12, <1>3, <3>1
    <3>2. CASE c # n
      BY <1>5, <1>7, <1>12, <2>1, <3>2 DEF Executed, LiveIsHeld
    <3>3. QED
      BY <3>1, <3>2
  <2>18. ListenerFollows(t)'
    BY <2>2, Bounded DEF ListenerFollows, Bounded
  <2>19. LeftIsHandedOver(t)'
    <3> SUFFICES ASSUME NEW d \in Conn, connState'[d] = "replaced", entry[t].running, x = d, life[t][d] = "live"
                 PROVE  \/ via'[t][d] = "late" \/ superseded'
                        \/ pc'[t][d + 1] = "move" /\ via'[t][d + 1] = "move" /\ old'[t][d + 1] = d
      BY <2>1, <2>2 DEF LeftIsHandedOver
    <3>1. CASE d = conn
      BY <1>1, <1>7, <1>12, <2>8, <3>1
    <3>2. CASE d # conn
      <4>1. connState[d] = "replaced" /\ d # n /\ d + 1 # n /\ d + 1 \in Conn
        BY <1>2, <1>5, <1>3, <2>3, <3>2 DEF Conn, Bounded
      <4>2. QED
        BY <1>7, <1>8, <1>12, <2>1, <4>1 DEF Executed, LeftIsHandedOver
    <3>3. QED
      BY <3>1, <3>2
  <2>20. QED
    BY <2>9, <2>10, <2>11, <2>12, <2>13, <2>14, <2>15, <2>16, <2>17, <2>18, <2>19 DEF Owned, Executed
<1>13. RouteIsLast'
  <2> SUFFICES ASSUME NEW d \in Conn
               PROVE  /\ d > n => /\ connState'[d] = "none"
                                  /\ \A t \in Task : pc'[t][d] = "idle" /\ life'[t][d] = "none" /\ via'[t][d] = "none"
                      /\ connState'[d] = "replaced" => d < n
    BY <1>4 DEF RouteIsLast
  <2>1. d > n => d > conn /\ d # n /\ d # conn
    BY <1>3
  <2>2. connState'[d] = "replaced" => d < n
    <3>1. connState[d] = "replaced" => d < conn
      BY DEF TaskInv, RouteIsLast
    <3>2. QED
      BY <1>5, <1>2, <1>3, <3>1
  <2>3. d > n => \A t \in Task : pc'[t][d] = "idle" /\ life'[t][d] = "none" /\ via'[t][d] = "none"
    <3> SUFFICES ASSUME d > n, NEW t \in Task PROVE pc'[t][d] = "idle" /\ life'[t][d] = "none" /\ via'[t][d] = "none"
      OBVIOUS
    <3>1. pc[t][d] = "idle" /\ life[t][d] = "none" /\ via[t][d] = "none"
      BY <1>10, <2>1
    <3>2. CASE Movable(t)
      BY <1>4, <1>7, <2>1, <3>1, <3>2
    <3>3. CASE ~Movable(t)
      BY <1>6, <3>1, <3>3 DEF Stays
    <3>4. QED
      BY <3>2, <3>3
  <2>4. QED
    BY <1>5, <1>10, <2>1, <2>2, <2>3
<1>14. TaskTypeOK'
  <2>1. connState' \in [Conn -> {"none", "open", "replaced", "gone"}]
    BY <1>2, <1>4 DEF TaskTypeOK
  <2>2. entry' \in [Task -> Entry]
    <3>1. \A t \in Task : entry[t] \in Entry /\ TakenOver(entry[t]) \in Entry
      BY <1>2, TakeOver DEF TaskTypeOK
    <3>2. QED
      BY <3>1 DEF Replace
  <2>3. pc' \in [Task -> [Conn -> {"idle", "move", "resume", "explain", "settle", "deliver", "done"}]]
        /\ via' \in [Task -> [Conn -> {"none", "start", "late", "restore", "move", "moveRestore"}]]
    BY <1>1, <1>2 DEF Replace, TaskTypeOK
  <2>4. mine' \in [Task -> [Conn -> Nat]]
    <3>1. \A t \in Task : mine[t] \in [Conn -> Nat] /\ entry[t].gen + 1 \in Nat
      BY <1>2 DEF TaskTypeOK, Entry
    <3>2. QED
      BY <1>1, <1>2, <3>1 DEF Replace
  <2>5. old' \in [Task -> [Conn -> Conn \cup {Null}]]
    <3>1. \A t \in Task : /\ old[t] \in [Conn -> Conn \cup {Null}]
                           /\ entry[t].exec \in Conn \cup {Null} /\ entry[t].resuming \in Conn \cup {Null}
      BY <1>2 DEF TaskTypeOK, Entry
    <3>2. QED
      BY <1>1, <1>2, <3>1 DEF Replace
  <2>6. superseded' \in BOOLEAN
    BY <1>2 DEF Supersedes, TaskTypeOK
  <2>7. QED
    BY <1>2, <1>4, <2>1, <2>2, <2>3, <2>4, <2>5, <2>6 DEF TaskTypeOK
<1>15. QED
  BY <1>11, <1>12, <1>13, <1>14 DEF TaskInv

\* A connection after a close() begins with no task.
LEMMA ReopenKeeps ==
  ASSUME TaskInv, Bounded, Reopen, Supersedes
  PROVE  TaskInv'
<1>1. PICK n \in Conn : n = conn + 1
  BY DEF TaskInv, TaskTypeOK, Reopen, MayBegin, Conn, Bounded
<1>2. TaskTypeOK /\ conn \in Nat /\ n \in Nat /\ \A d \in Conn : d \in Nat
  BY <1>1 DEF TaskInv, TaskTypeOK, Conn, Bounded
<1>3. /\ conn' = n /\ connState' = [connState EXCEPT ![n] = "open"]
      /\ superseded => superseded'
      /\ UNCHANGED <<execs, entry, runs, stop, facts>>
  BY <1>1 DEF Reopen, Supersedes
<1>4. \A d \in Conn : connState'[d] = IF d = n THEN "open" ELSE connState[d]
  BY <1>2, <1>3 DEF TaskTypeOK
<1>5. \A d \in Conn : d > conn =>
        /\ connState[d] = "none"
        /\ \A t \in Task : pc[t][d] = "idle" /\ life[t][d] = "none" /\ via[t][d] = "none"
  BY DEF TaskInv, RouteIsLast
<1>6. ASSUME NEW t \in Task PROVE Owned(t)' /\ Executed(t)'
  <2>1. Stays(t) /\ Owned(t) /\ Executed(t) /\ UNCHANGED <<stopping, cancelled>>
    BY <1>3 DEF TaskInv, Stays, execs, runs, stop, facts
  <2> USE DEF Stays, Owning
  <2>2. ReleasedLast(t)' /\ OwnedOnce(t)' /\ Untouched(t)' /\ Generations(t)'
    BY <2>1 DEF Owned, ReleasedLast, OwnedOnce, Untouched, Begun, Generations
  <2>3. LastSteps(t)' /\ ResumeIsOwned(t)' /\ RecordedUntilTold(t)'
    BY <2>1 DEF Owned, LastSteps, ResumeIsOwned, RecordedUntilTold, FromRestore
  <2>4. OwnerKnows(t)'
    BY <1>3, <1>4, <2>1 DEF Owned, OwnerKnows, FromRestore
  <2>5. FollowedHasExec(t)'
    <3>1. entry[t].exec # Null => entry[t].exec \in Nat
      BY <1>2 DEF TaskTypeOK, Entry
    <3>2. entry[t].exec # Null => entry[t].exec <= n
      BY <1>1, <1>2, <2>1, <3>1 DEF Owned, FollowedHasExec
    <3>3. QED
      BY <1>3, <2>1, <3>2 DEF Owned, FollowedHasExec
  <2>6. Executed(t)'
    BY <1>3, <1>4, <2>1 DEF Executed, LiveIsHeld, ListenerFollows, LeftIsHandedOver
  <2>7. QED
    BY <2>2, <2>3, <2>4, <2>5, <2>6 DEF Owned
<1>7. RouteIsLast'
  <2> SUFFICES ASSUME NEW d \in Conn
               PROVE  /\ d > n => /\ connState'[d] = "none"
                                  /\ \A t \in Task : pc'[t][d] = "idle" /\ life'[t][d] = "none" /\ via'[t][d] = "none"
                      /\ connState'[d] = "replaced" => d < n
    BY <1>3 DEF RouteIsLast
  <2>1. (d > n => d > conn /\ d # n) /\ (d < conn => d < n)
    BY <1>1, <1>2
  <2>2. connState[d] = "replaced" => d < conn
    BY DEF TaskInv, RouteIsLast
  <2>3. QED
    BY <1>3, <1>4, <1>5, <2>1, <2>2 DEF execs, runs
<1>8. TaskTypeOK'
  <2>1. connState' \in [Conn -> {"none", "open", "replaced", "gone"}] /\ conn' \in Conn /\ superseded' \in BOOLEAN
    BY <1>1, <1>2, <1>3 DEF TaskTypeOK, Supersedes
  <2>2. QED
    BY <1>2, <1>3, <2>1 DEF TaskTypeOK, execs, runs, stop, facts
<1>9. QED
  BY <1>6, <1>7, <1>8 DEF TaskInv

\* handOffForShutdown() takes over what is followed, and nobody owns it any more.
LEMMA HandOffKeeps ==
  ASSUME TaskInv, Bounded, HandOffForShutdown, UNCHANGED superseded
  PROVE  TaskInv'
<1> DEFINE f(t) == [TakenOver(entry[t]) EXCEPT !.running = FALSE]
<1>1. TaskTypeOK /\ UNCHANGED <<conns, execs, runs, ownerAborted, facts>> /\ stopping' /\ stopping' = TRUE
  BY DEF TaskInv, HandOffForShutdown
<1>2. \A t \in Task : ~entry[t].running => entry'[t] = entry[t] /\ saving'[t] = saving[t]
  BY <1>1 DEF HandOffForShutdown, TaskTypeOK
<1>3. \A t \in Task : entry[t].running => entry'[t] = f(t) /\ saving'[t] = "handoff"
  BY <1>1 DEF HandOffForShutdown, TaskTypeOK
<1>4. \A t \in Task :
        /\ entry[t] \in Entry /\ f(t) \in Entry
        /\ f(t).gen = entry[t].gen + 1 /\ f(t).running = FALSE /\ f(t).exec = entry[t].exec
        /\ f(t).resuming = entry[t].resuming /\ f(t).listener = Null /\ f(t).released = entry[t].released
  <2> SUFFICES ASSUME NEW t \in Task PROVE
        /\ entry[t] \in Entry /\ f(t) \in Entry
        /\ f(t).gen = entry[t].gen + 1 /\ f(t).running = FALSE /\ f(t).exec = entry[t].exec
        /\ f(t).resuming = entry[t].resuming /\ f(t).listener = Null /\ f(t).released = entry[t].released
    OBVIOUS
  <2> DEFINE h == TakenOver(entry[t])
  <2>1. entry[t] \in Entry
    BY <1>1 DEF TaskTypeOK
  <2>2. /\ h \in Entry /\ h.gen = entry[t].gen + 1 /\ h.exec = entry[t].exec
        /\ h.resuming = entry[t].resuming /\ h.listener = Null /\ h.released = entry[t].released
    BY <2>1, TakeOver
  <2>3. f(t) = [h EXCEPT !.running = FALSE]
    OBVIOUS
  <2> HIDE DEF h, f
  <2>4. QED
    BY <2>1, <2>2, <2>3 DEF Entry
<1> HIDE DEF f
<1>5. ASSUME NEW t \in Task, ~entry[t].running PROVE Owned(t)' /\ Executed(t)'
  <2>1. Stays(t) /\ Owned(t) /\ Executed(t) /\ UNCHANGED <<conn, connState, superseded, cancelled>>
    BY <1>1, <1>2, <1>5 DEF TaskInv, Stays, conns, execs, runs, facts
  <2> USE DEF Stays, Owning
  <2>2. ReleasedLast(t)' /\ OwnedOnce(t)' /\ Untouched(t)' /\ Generations(t)'
    BY <2>1 DEF Owned, ReleasedLast, OwnedOnce, Untouched, Begun, Generations
  <2>3. LastSteps(t)' /\ ResumeIsOwned(t)' /\ RecordedUntilTold(t)'
    BY <2>1 DEF Owned, LastSteps, ResumeIsOwned, RecordedUntilTold, FromRestore
  <2>4. OwnerKnows(t)' /\ FollowedHasExec(t)'
    BY <1>1, <1>5, <2>1 DEF Owned, OwnerKnows, FromRestore, FollowedHasExec
  <2>5. Executed(t)'
    BY <2>1 DEF Executed, LiveIsHeld, ListenerFollows, LeftIsHandedOver
  <2>6. QED
    BY <2>2, <2>3, <2>4, <2>5 DEF Owned
<1>6. ASSUME NEW t \in Task, entry[t].running PROVE Owned(t)' /\ Executed(t)'
  <2>1. /\ Owned(t) /\ Executed(t) /\ entry'[t] = f(t) /\ saving'[t] = "handoff"
        /\ UNCHANGED <<conn, connState, superseded, cancelled, pc, mine, via, old, life, told, record, dropped>>
    BY <1>1, <1>3, <1>6 DEF TaskInv, conns, execs, runs, facts
  <2>2. entry[t].exec # Null /\ entry[t].resuming = Null /\ entry[t].released = 0 /\ saving[t] # "handoff"
    BY <1>4, <1>6, <2>1 DEF Owned, FollowedHasExec, ResumeIsOwned, ReleasedLast, Entry
  <2>3. \A c \in Conn : mine[t][c] \in Nat /\ mine[t][c] <= entry[t].gen /\ entry[t].gen \in Nat
    BY <1>1, <1>4, <2>1 DEF Owned, Generations, TaskTypeOK, Entry
  <2>4. \A c \in Conn : ~Owning(t, c)' /\ mine[t][c] <= entry[t].gen + 1
    BY <1>4, <2>1, <2>3 DEF Owning
  <2>5. ReleasedLast(t)' /\ OwnedOnce(t)' /\ OwnerKnows(t)'
    BY <1>4, <2>1, <2>2, <2>4 DEF ReleasedLast, OwnedOnce, OwnerKnows
  <2>6. Untouched(t)' /\ Generations(t)'
    BY <1>4, <1>6, <2>1, <2>4 DEF Owned, Untouched, Begun, Generations
  <2>7. LastSteps(t)' /\ ResumeIsOwned(t)' /\ FollowedHasExec(t)' /\ RecordedUntilTold(t)'
    BY <1>1, <1>4, <1>6, <2>1, <2>2, Bounded
       DEF Owned, LastSteps, ResumeIsOwned, FollowedHasExec, RecordedUntilTold, FromRestore, Bounded
  <2>8. LiveIsHeld(t)' /\ ListenerFollows(t)' /\ LeftIsHandedOver(t)'
    BY <1>4, <1>6, <2>1, Bounded DEF Executed, LiveIsHeld, ListenerFollows, LeftIsHandedOver, Bounded
  <2>9. QED
    BY <2>5, <2>6, <2>7, <2>8 DEF Owned, Executed
<1>7. RouteIsLast'
  BY <1>1 DEF TaskInv, RouteIsLast, conns, execs, runs
<1>8. TaskTypeOK'
  <2>1. entry' \in [Task -> Entry] /\ saving' \in [Task -> {"none", "handoff", "done"}] /\ awaited' \subseteq Task
    BY <1>1, <1>4 DEF HandOffForShutdown, TaskTypeOK, f
  <2>2. QED
    BY <1>1, <2>1 DEF TaskTypeOK, conns, execs, runs, facts
<1>9. QED
  BY <1>5, <1>6, <1>7, <1>8 DEF TaskInv

\* The owner's abort cancels what is still followed, and nothing listens any more.
LEMMA AbortKeeps ==
  ASSUME TaskInv, Bounded, OwnerAborts, UNCHANGED superseded
  PROVE  TaskInv'
<1> DEFINE f(t) == [entry[t] EXCEPT !.listener = Null]
<1>1. /\ TaskTypeOK /\ UNCHANGED <<conns, remote, life, runs, saving, awaited, stopping, facts>>
      /\ ownerAborted' \in BOOLEAN /\ cancelled \subseteq cancelled'
  BY DEF TaskInv, OwnerAborts
<1>2. \A t \in Task : entry'[t] = f(t)
  BY <1>1 DEF OwnerAborts, TaskTypeOK
<1>3. \A t \in Task : entry[t] \in Entry
  BY <1>1 DEF TaskTypeOK
<1>4. \A t \in Task :
        /\ f(t) \in Entry /\ f(t).gen = entry[t].gen /\ f(t).running = entry[t].running /\ f(t).exec = entry[t].exec
        /\ f(t).resuming = entry[t].resuming /\ f(t).listener = Null /\ f(t).released = entry[t].released
  BY <1>3 DEF Entry
<1> HIDE DEF f
<1>5. ASSUME NEW t \in Task PROVE Owned(t)' /\ Executed(t)'
  <2>1. /\ Owned(t) /\ Executed(t) /\ entry'[t] = f(t)
        /\ UNCHANGED <<conn, connState, superseded, stopping, saving, pc, mine, via, old, life, told, record, dropped>>
    BY <1>1, <1>2 DEF TaskInv, conns, runs, facts
  <2>2. \A c \in Conn : Owning(t, c)' <=> Owning(t, c)
    BY <1>4, <2>1 DEF Owning
  <2>3. ReleasedLast(t)' /\ OwnedOnce(t)' /\ OwnerKnows(t)'
    BY <1>4, <2>1, <2>2 DEF Owned, ReleasedLast, OwnedOnce, OwnerKnows, FromRestore
  <2>4. Generations(t)' /\ LastSteps(t)' /\ ResumeIsOwned(t)' /\ FollowedHasExec(t)' /\ RecordedUntilTold(t)'
    BY <1>4, <2>1, <2>2
       DEF Owned, Generations, LastSteps, ResumeIsOwned, FollowedHasExec, RecordedUntilTold, FromRestore
  <2>5. Untouched(t)'
    <3>1. CASE Begun(t)
      BY <2>1, <3>1 DEF Untouched, Begun
    <3>2. CASE ~Begun(t)
      <4>1. entry[t] = [gen |-> 0, running |-> FALSE, exec |-> Null, resuming |-> Null, listener |-> Null, released |-> 0]
        BY <2>1, <3>2 DEF Owned, Untouched
      <4>2. f(t) = entry[t]
        <5>1. entry[t].listener = Null
          BY <4>1
        <5>2. [entry[t] EXCEPT !.listener = entry[t].listener] = entry[t]
          BY <1>3 DEF Entry
        <5>3. QED
          BY <5>1, <5>2 DEF f
      <4>3. QED
        BY <2>1, <3>2, <4>2 DEF Owned, Untouched
    <3>3. QED
      BY <3>1, <3>2
  <2>6. LiveIsHeld(t)' /\ ListenerFollows(t)' /\ LeftIsHandedOver(t)'
    BY <1>4, <2>1, Bounded DEF Executed, LiveIsHeld, ListenerFollows, LeftIsHandedOver, Bounded
  <2>7. QED
    BY <2>3, <2>4, <2>5, <2>6 DEF Owned, Executed
<1>6. RouteIsLast'
  BY <1>1 DEF TaskInv, RouteIsLast, conns, runs
<1>7. TaskTypeOK'
  <2>1. entry' \in [Task -> Entry]
    BY <1>4 DEF OwnerAborts, f
  <2>2. cancelled' \subseteq Task \X Conn
    <3>1. \A t \in Task : entry[t].listener # Null => entry[t].listener \in Conn
      BY <1>3 DEF Entry
    <3> DEFINE L == {u \in Task : entry[u].listener # Null}
               F == {CancelOf(t, entry[t].listener) : t \in L}
    <3>2. \A t \in L : CancelOf(t, entry[t].listener) \subseteq Task \X Conn
      BY <3>1 DEF CancelOf
    <3>3. \A x \in UNION F : x \in Task \X Conn
      <4>1. SUFFICES ASSUME NEW x \in UNION F PROVE x \in Task \X Conn
        OBVIOUS
      <4>2. PICK s \in F : x \in s
        BY <4>1
      <4>3. PICK t \in L : s = CancelOf(t, entry[t].listener)
        BY <4>2
      <4>4. QED
        BY <3>2, <4>2, <4>3
    <3>4. cancelled' = cancelled \cup UNION F /\ cancelled \subseteq Task \X Conn
      BY <1>1 DEF OwnerAborts, TaskTypeOK
    <3> HIDE DEF F
    <3>5. QED
      BY <3>3, <3>4
  <2>3. QED
    BY <1>1, <2>1, <2>2 DEF TaskTypeOK, conns, runs, facts
<1>8. QED
  BY <1>5, <1>6, <1>7 DEF TaskInv

\* A connection that closes settles and cancels the executions on it.
LEMMA TearDownKeeps ==
  ASSUME TaskInv, Bounded, NEW c \in Conn, TearDown(c), connState[c] # "none",
         UNCHANGED <<conn, remote, entry, runs, stop, facts, superseded>>
  PROVE  TaskInv'
<1>1. TaskTypeOK /\ Quiet(c) /\ cancelled \subseteq cancelled'
  BY DEF TaskInv, TearDown
<1>2. \A d \in Conn : connState'[d] = IF d = c THEN "gone" ELSE connState[d]
  BY <1>1 DEF TearDown, TaskTypeOK
<1>3. \A t \in Task : /\ life'[t][c] = Detached(life[t][c])
                      /\ \A d \in Conn : d # c => life'[t][d] = life[t][d]
                      /\ life[t][c] = "live" => <<t, c>> \in cancelled'
  BY <1>1 DEF TearDown, TaskTypeOK
<1>4. ASSUME NEW t \in Task PROVE Owned(t)' /\ Executed(t)'
  <2>1. /\ Owned(t) /\ Executed(t)
        /\ pc[t][c] = "resume" => life[t][c] \in {"pending", "refused"}
    BY <1>1 DEF TaskInv, Quiet
  <2>2. UNCHANGED <<conn, entry, pc, via, mine, old, saving, stopping, told, record, dropped, superseded>>
    BY DEF runs, stop, facts
  <2>3. \A d \in Conn : Owning(t, d)' <=> Owning(t, d)
    BY <2>2 DEF Owning
  <2>4. /\ connState'[c] = "gone"
        /\ \A d \in Conn : d # c => connState'[d] = connState[d] /\ life'[t][d] = life[t][d]
        /\ life'[t][c] # "live" /\ (life[t][c] # "live" => life'[t][c] = life[t][c])
        /\ life[t][c] = "live" => life'[t][c] = "closed" /\ <<t, c>> \in cancelled'
    BY <1>2, <1>3 DEF Detached
  <2>5. ReleasedLast(t)' /\ OwnedOnce(t)' /\ LastSteps(t)' /\ ResumeIsOwned(t)' /\ FollowedHasExec(t)'
    BY <1>4, <2>1, <2>2, <2>3
       DEF Owned, ReleasedLast, OwnedOnce, LastSteps, ResumeIsOwned, FollowedHasExec
  <2>6. Untouched(t)' /\ Generations(t)' /\ RecordedUntilTold(t)'
    BY <2>1, <2>2, <2>4 DEF Owned, Untouched, Begun, Generations, RecordedUntilTold, FromRestore
  <2>7. OwnerKnows(t)'
    <3> SUFFICES ASSUME NEW d \in Conn, Owning(t, d)
                 PROVE  /\ pc[t][d] = "move" => via[t][d] \in {"move", "moveRestore"}
                        /\ pc[t][d] \in {"move", "resume"} =>
                             IF via[t][d] = "move" THEN entry[t].running /\ entry[t].exec = old[t][d]
                             ELSE ~entry[t].running /\ entry[t].exec = Null /\ FromRestore(t, d)
                        /\ pc[t][d] = "resume" =>
                             IF via[t][d] = "move" THEN life'[t][old[t][d]] # "live" ELSE entry[t].resuming = d
                        /\ pc[t][d] = "settle" => entry[t].running /\ entry[t].exec = d
                        /\ pc[t][d] \in {"move", "resume"} /\ connState'[d] = "replaced" => superseded
      BY <2>2, <2>3 DEF OwnerKnows, FromRestore
    <3>1. old[t][d] \in Conn \/ via[t][d] # "move"
      BY <2>1 DEF Owned, Generations
    <3>2. \A e \in Conn : life[t][e] # "live" => life'[t][e] # "live"
      BY <2>4
    <3>3. connState'[d] = "replaced" => connState[d] = "replaced"
      BY <2>4
    <3>4. QED
      BY <2>1, <3>1, <3>2, <3>3 DEF Owned, OwnerKnows
  <2>8. LiveIsHeld(t)'
    <3> SUFFICES ASSUME NEW d \in Conn
                 PROVE  /\ life'[t][d] = "live" =>
                             /\ connState'[d] # "gone"
                             /\ \/ pc[t][d] = "resume"
                                \/ entry[t].exec = d /\ (entry[t].running \/ saving[t] = "handoff" \/ dropped[t])
                        /\ pc[t][d] = "resume" => life'[t][d] \in {"pending", "refused", "live", "ended"}
                        /\ life'[t][d] = "pending" => pc[t][d] = "resume"
      BY <2>2 DEF LiveIsHeld
    <3>1. CASE d = c
      BY <2>1, <2>4, <3>1 DEF Executed, LiveIsHeld
    <3>2. CASE d # c
      BY <2>1, <2>4, <3>2 DEF Executed, LiveIsHeld
    <3>3. QED
      BY <3>1, <3>2
  <2>9. ListenerFollows(t)'
    <3>1. CASE entry[t].listener \notin Conn
      BY <2>2, <3>1 DEF ListenerFollows
    <3>2. ASSUME NEW d \in Conn, entry[t].listener = d PROVE ListenerFollows(t)'
      <4>1. /\ Owning(t, d)' /\ pc[t][d] \in {"settle", "deliver"}
            /\ pc[t][d] = "deliver" => life[t][d] \in Settled
            /\ life[t][d] = "closed" => <<t, d>> \in cancelled
        BY <2>1, <2>3, <3>2 DEF Executed, ListenerFollows
      <4>2. /\ pc[t][d] = "deliver" => life'[t][d] \in Settled
            /\ life'[t][d] = "closed" => <<t, d>> \in cancelled'
        BY <1>1, <2>4, <4>1 DEF Settled
      <4>3. QED
        BY <2>2, <3>2, <4>1, <4>2 DEF ListenerFollows
    <3>3. QED
      BY <3>1, <3>2
  <2>10. LeftIsHandedOver(t)'
    <3>1. \A d \in Conn : /\ connState'[d] = "replaced" => connState[d] = "replaced"
                          /\ life'[t][d] = "live" => life[t][d] = "live"
      BY <2>4
    <3>2. QED
      BY <2>1, <2>2, <3>1 DEF Executed, LeftIsHandedOver
  <2>11. QED
    BY <2>5, <2>6, <2>7, <2>8, <2>9, <2>10 DEF Owned, Executed
<1>5. RouteIsLast'
  <2>1. \A d \in Conn : \A t \in Task : life[t][d] = "none" => life'[t][d] = "none"
    BY <1>3 DEF Detached
  <2>2. QED
    BY <1>2, <2>1 DEF TaskInv, RouteIsLast, runs
<1>6. TaskTypeOK'
  <2>1. connState' \in [Conn -> {"none", "open", "replaced", "gone"}] /\ cancelled' \subseteq Task \X Conn
    BY <1>1 DEF TearDown, TaskTypeOK
  <2>2. life' \in [Task -> [Conn -> {"none", "pending", "refused", "live"} \cup Settled]]
    <3>1. \A t \in Task : /\ life[t] \in [Conn -> {"none", "pending", "refused", "live"} \cup Settled]
                          /\ Detached(life[t][c]) \in {"none", "pending", "refused", "live"} \cup Settled
      BY <1>1 DEF TaskTypeOK, Detached, Settled
    <3>2. QED
      BY <3>1 DEF TearDown
  <2>3. QED
    BY <1>1, <2>1, <2>2 DEF TaskTypeOK, runs, stop, facts
<1>7. QED
  BY <1>4, <1>5, <1>6 DEF TaskInv

\* A session begins with no task and its first connection open.
LEMMA TasksBegin == TaskInit /\ Bounded => TaskInv
<1> SUFFICES ASSUME TaskInit, Bounded PROVE TaskInv
  OBVIOUS
<1>1. /\ conn = 0 /\ 0 \in Conn /\ conn \in Nat
      /\ \A c \in Conn : connState[c] = IF c = 0 THEN "open" ELSE "none"
  BY DEF TaskInit, Bounded, Conn
<1>2. TaskTypeOK
  <2>1. \A t \in Task : entry[t] \in Entry
    BY DEF TaskInit, Entry
  <2>2. QED
    BY <1>1, <2>1 DEF TaskInit, TaskTypeOK, Entry
<1>3. RouteIsLast
  <2>1. \A c \in Conn : c > conn => c # 0
    BY <1>1
  <2>2. QED
    BY <1>1, <2>1 DEF TaskInit, RouteIsLast
<1>4. ASSUME NEW t \in Task PROVE Owned(t) /\ Executed(t)
  <2>1. /\ entry[t] = [gen |-> 0, running |-> FALSE, exec |-> Null, resuming |-> Null, listener |-> Null, released |-> 0]
        /\ saving[t] = "none" /\ told[t] = 0 /\ ~dropped[t] /\ ~stopping
        /\ \A c \in Conn : /\ pc[t][c] = "idle" /\ mine[t][c] = 0 /\ via[t][c] = "none" /\ life[t][c] = "none"
                           /\ connState[c] # "replaced"
    BY <1>1 DEF TaskInit
  <2>2. /\ entry[t].gen = 0 /\ entry[t].released = 0 /\ ~entry[t].running
        /\ entry[t].exec = Null /\ entry[t].resuming = Null /\ entry[t].listener = Null
    BY <2>1
  <2>3. \A c \in Conn : ~Owning(t, c)
    BY <2>1 DEF Owning
  <2>4. ReleasedLast(t) /\ OwnedOnce(t) /\ Untouched(t) /\ Generations(t) /\ OwnerKnows(t)
    BY <2>1, <2>2, <2>3 DEF ReleasedLast, OwnedOnce, Untouched, Generations, OwnerKnows
  <2>5. LastSteps(t) /\ ResumeIsOwned(t) /\ FollowedHasExec(t) /\ RecordedUntilTold(t)
    BY <2>1, <2>2, Bounded
       DEF LastSteps, ResumeIsOwned, FollowedHasExec, RecordedUntilTold, FromRestore, Bounded
  <2>6. Executed(t)
    BY <2>1, <2>2, Bounded DEF Executed, LiveIsHeld, ListenerFollows, LeftIsHandedOver, Bounded
  <2>7. QED
    BY <2>4, <2>5, <2>6 DEF Owned
<1>5. QED
  BY <1>2, <1>3, <1>4 DEF TaskInv

\* A step of the registry keeps the invariant.
LEMMA NextKeeps == TaskInv /\ Bounded /\ [TaskNext]_taskVars => TaskInv'
<1> SUFFICES ASSUME TaskInv, Bounded, [TaskNext]_taskVars PROVE TaskInv'
  OBVIOUS
<1>1. CASE Replace /\ Supersedes
  BY <1>1, ReplaceKeeps
<1>2. CASE Reopen /\ Supersedes
  BY <1>2, ReopenKeeps
<1>3. ASSUME UNCHANGED superseded, NEW t \in Task, NEW c \in Conn,
             Start(t, c) \/ Continues(t, c) \/ ExecutionSettles(t, c)
      PROVE  TaskInv'
  <2>1. CASE Start(t, c)
    BY <1>3, <2>1, TaskBeginKeeps
  <2>2. CASE HandedOff(t, c) \/ RestoreAbandoned(t, c)
    BY <1>3, <2>2, AskKeeps
  <2>3. CASE Answered(t, c) \/ ExecutionSettles(t, c)
    BY <1>3, <2>3, LifeKeeps
  <2>4. CASE ResumeRefused(t, c)
    BY <1>3, <2>4, RefusedKeeps
  <2>5. CASE ResumeAnswered(t, c)
    BY <1>3, <2>5, AnswerKeeps
  <2>6. CASE Explained(t, c) \/ FollowSettled(t, c) \/ Delivered(t, c)
    BY <1>3, <2>6, ChainKeeps
  <2>7. QED
    BY <1>3, <2>1, <2>2, <2>3, <2>4, <2>5, <2>6 DEF Continues
<1>4. ASSUME UNCHANGED superseded, NEW t \in Task, Restore(t) \/ Stop(t) \/ Persisted(t) \/ RemoteEnds(t)
      PROVE  TaskInv'
  BY <1>4, RestoreKeeps, CancelKeeps, PersistKeeps
<1>5. CASE UNCHANGED superseded /\ \E c \in Conn : Dispose(c)
  BY <1>5, TearDownKeeps DEF Dispose
<1>6. CASE UNCHANGED superseded /\ CloseConn
  BY <1>6, TearDownKeeps DEF CloseConn, TaskInv, TaskTypeOK
<1>7. CASE UNCHANGED superseded /\ (HandOffForShutdown \/ OwnerAborts)
  BY <1>7, HandOffKeeps, AbortKeeps
<1>8. CASE UNCHANGED taskVars
  <2>1. UNCHANGED <<conns, execs, entry, runs, stop, facts, superseded>>
    BY <1>8 DEF taskVars
  <2>2. cancelled' = cancelled /\ cancelled' \subseteq Task \X Conn /\ remote' \in [Task -> {"working", "ended"}]
    BY <2>1 DEF execs, TaskInv, TaskTypeOK
  <2>3. QED
    BY <2>1, <2>2, RowsStay DEF execs
<1>9. QED
  BY <1>1, <1>2, <1>3, <1>4, <1>5, <1>6, <1>7, <1>8 DEF TaskNext

\* Stopping: the steps that send a cancel while the session stops.
LEMMA SentWhileStopping ==
  ASSUME TaskInv, Bounded, [TaskNext]_taskVars, stopping, NEW t \in Task, NEW c \in Conn, <<t, c>> \in cancelled' \ cancelled
  PROVE  dropped[t] \/ ~record[t] \/ saving[t] = "handoff"
<1> USE DEF Bounded
<1> SUFFICES ASSUME ~dropped[t], record[t], saving[t] # "handoff" PROVE FALSE
  OBVIOUS
<1>1. TaskTypeOK /\ ~entry[t].running
  BY DEF TaskInv, Owned, FollowedHasExec
<1>2. life[t][c] = "live" => pc[t][c] = "resume"
  BY <1>1 DEF TaskInv, Executed, LiveIsHeld
<1>3. ASSUME NEW d \in Conn, TearDown(d) PROVE FALSE
  <2>1. c = d /\ life[t][d] = "live"
    BY <1>1, <1>3 DEF TearDown, TaskTypeOK
  <2>2. QED
    BY <1>2, <1>3, <2>1 DEF TearDown, Quiet
<1>4. ASSUME NEW u \in Task, NEW d \in Conn, Start(u, d) \/ Continues(u, d) \/ ExecutionSettles(u, d) PROVE FALSE
  <2>1. ~Owns(u, mine[u][d])
    BY DEF Owns
  <2>2. cancelled' = cancelled
    BY <1>4, <2>1
       DEF Start, Continues, HandedOff, RestoreAbandoned, Answered, ResumeRefused, ResumeAnswered,
       Explained, FollowSettled, Delivered, ExecutionSettles, execs
  <2>3. QED
    BY <2>2
<1>5. ASSUME NEW u \in Task, Restore(u) \/ Stop(u) \/ Persisted(u) \/ RemoteEnds(u) PROVE FALSE
  <2>1. ~entry[u].running
    BY DEF TaskInv, Owned, FollowedHasExec
  <2>2. cancelled' = cancelled
    BY <1>5, <2>1 DEF Restore, Stop, Persisted, RemoteEnds
  <2>3. QED
    BY <2>2
<1>6. CASE OwnerAborts
  <2> DEFINE x == entry[t].listener
  <2>1. \E u \in Task : entry[u].listener # Null /\ <<t, c>> \in CancelOf(u, entry[u].listener)
    BY <1>6 DEF OwnerAborts
  <2>2. x # Null /\ <<t, c>> \in CancelOf(t, x) /\ c = x /\ x \in Conn /\ life[t][c] # "ended"
    BY <1>1, <2>1 DEF CancelOf
  <2>3. /\ Owning(t, c) /\ pc[t][c] \in {"settle", "deliver"}
        /\ pc[t][c] = "deliver" => life[t][c] \in Settled
        /\ life[t][c] = "closed" => <<t, c>> \in cancelled
    BY <2>2 DEF TaskInv, Executed, ListenerFollows
  <2>4. pc[t][c] # "settle"
    BY <1>1, <2>3 DEF TaskInv, Owned, OwnerKnows
  <2>5. QED
    BY <2>2, <2>3, <2>4 DEF Settled
<1>7. CASE Replace \/ Reopen \/ HandOffForShutdown \/ UNCHANGED taskVars
  BY <1>7 DEF Replace, Reopen, HandOffForShutdown, taskVars, execs
<1>8. QED
  BY <1>1, <1>3, <1>4, <1>5, <1>6, <1>7 DEF TaskNext, Dispose, CloseConn, TaskTypeOK

\* Disposing a replaced connection: what it cancels was not handed over.
LEMMA SentByDisposing ==
  ASSUME TaskInv, Bounded, [TaskNext]_taskVars, NEW t \in Task, NEW c \in Conn,
         connState[c] = "replaced", <<t, c>> \in cancelled' \ cancelled, connState'[c] = "gone"
  PROVE  via[t][c] = "late" \/ superseded \/ saving[t] = "handoff" \/ dropped[t]
<1>1. TaskTypeOK
  BY DEF TaskInv
<1>2. connState' # connState
  OBVIOUS
<1>3. \E d \in Conn : TearDown(d) /\ ((d = conn /\ connState[conn] = "open") \/ HandOverReturned(d + 1))
  <2>1. CASE Replace \/ Reopen
    BY <1>1, <2>1 DEF Replace, Reopen, TaskTypeOK
  <2>2. CASE \E u \in Task, d \in Conn : Start(u, d) \/ Continues(u, d) \/ ExecutionSettles(u, d)
    BY <1>2, <2>2
       DEF Start, Continues, HandedOff, RestoreAbandoned, Answered, ResumeRefused, ResumeAnswered,
       Explained, FollowSettled, Delivered, ExecutionSettles, conns
  <2>3. CASE (\E u \in Task : Restore(u) \/ Stop(u) \/ Persisted(u) \/ RemoteEnds(u))
             \/ HandOffForShutdown \/ OwnerAborts \/ UNCHANGED taskVars
    BY <1>2, <2>3 DEF Restore, Stop, Persisted, RemoteEnds, HandOffForShutdown, OwnerAborts, taskVars, conns
  <2>4. CASE (\E d \in Conn : Dispose(d)) \/ CloseConn
    BY <1>1, <2>4 DEF Dispose, CloseConn, TaskTypeOK
  <2>5. QED
    BY <2>1, <2>2, <2>3, <2>4 DEF TaskNext
<1>4. PICK d \in Conn : TearDown(d) /\ ((d = conn /\ connState[conn] = "open") \/ HandOverReturned(d + 1))
  BY <1>3
<1>5. d = c /\ life[t][c] = "live" /\ HandOverReturned(c + 1)
  BY <1>1, <1>4 DEF TearDown, TaskTypeOK
<1>6. pc[t][c] # "resume"
  BY <1>4, <1>5 DEF TearDown, Quiet
<1>7. entry[t].exec = c /\ (entry[t].running \/ saving[t] = "handoff" \/ dropped[t])
  BY <1>5, <1>6 DEF TaskInv, Executed, LiveIsHeld
<1>8. CASE entry[t].running
  <2>1. \/ via[t][c] = "late" \/ superseded
        \/ pc[t][c + 1] = "move" /\ via[t][c + 1] = "move"
    BY <1>5, <1>7, <1>8 DEF TaskInv, Executed, LeftIsHandedOver
  <2>2. QED
    BY <1>5, <2>1 DEF HandOverReturned
<1>9. QED
  BY <1>7, <1>8

\* The inductive invariant of every behaviour, whatever the tasks and the number of
\* connections: it is what the results below follow from.
THEOREM TasksInvariance ==
  ASSUME LastConn \in Nat, Null \notin Conn
  PROVE  TaskSpec => []TaskInv
<1>1. TaskInit => TaskInv
  BY TasksBegin DEF Bounded
<1>2. TaskInv /\ [TaskNext]_taskVars => TaskInv'
  BY NextKeeps DEF Bounded
<1>3. QED
  BY <1>1, <1>2, PTL DEF TaskSpec

\* Every value keeps its type; the count a task holds is released at most once.
THEOREM TypeCorrect ==
  ASSUME LastConn \in Nat, Null \notin Conn
  PROVE  TaskSpec => []TaskTypeOK
<1>1. TaskInv => TaskTypeOK
  BY DEF TaskInv
<1>2. QED
  BY <1>1, TasksInvariance, PTL

\* BackgroundTaskRegistry: a task has one owner, its count comes back once and last,
\* its outcome is told once, and it does not vanish.
THEOREM TasksOwned ==
  ASSUME LastConn \in Nat, Null \notin Conn
  PROVE  TaskSpec => []TasksAreOwned
<1>1. TaskInv => TasksAreOwned
  <2> SUFFICES ASSUME TaskInv PROVE TasksAreOwned
    OBVIOUS
  <2>1. ReleasedOnce /\ OneOwner
    BY DEF TaskInv, Owned, ReleasedOnce, OneOwner
  <2>2. ToldOnce
    <3>1. \A t \in Task : entry[t].released \in {0, 1} /\ told[t] \in Nat /\ told[t] <= entry[t].released
      BY DEF TaskInv, Owned, RecordedUntilTold, TaskTypeOK, Entry
    <3>2. QED
      BY <3>1 DEF TaskInv, Owned, RecordedUntilTold, ToldOnce
  <2>3. NothingVanishes
    BY DEF TaskInv, Owned, RecordedUntilTold, NothingVanishes
  <2>4. QED
    BY <2>1, <2>2, <2>3 DEF TasksAreOwned
<1>2. QED
  BY <1>1, TasksInvariance, PTL

\* A stopping session persists its tasks and never cancels them.
THEOREM StopIsSilent ==
  ASSUME LastConn \in Nat, Null \notin Conn
  PROVE  TaskSpec => StoppingNeverCancels
<1> DEFINE A == stopping => \A t \in Task, c \in Conn :
                  <<t, c>> \in cancelled' \ cancelled => dropped[t] \/ ~record[t] \/ saving[t] = "handoff"
<1>1. TaskInv /\ [TaskNext]_taskVars => A
  BY SentWhileStopping DEF Bounded
<1>2. TaskInv /\ [TaskNext]_taskVars => [A]_taskVars
  BY <1>1
<1>3. TaskSpec => [][A]_taskVars
  BY <1>2, TasksInvariance, PTL DEF TaskSpec
<1>4. QED
  BY <1>3 DEF StoppingNeverCancels

\* Disposing of a replaced connection cancels no task that was handed over.
THEOREM HandOverIsSilent ==
  ASSUME LastConn \in Nat, Null \notin Conn
  PROVE  TaskSpec => HandOverSendsNoCancel
<1> DEFINE A == \A t \in Task, c \in Conn :
                  connState[c] = "replaced" /\ <<t, c>> \in cancelled' \ cancelled /\ connState'[c] = "gone"
                    => via[t][c] = "late" \/ superseded \/ saving[t] = "handoff" \/ dropped[t]
<1>1. TaskInv /\ [TaskNext]_taskVars => A
  BY SentByDisposing DEF Bounded
<1>2. TaskInv /\ [TaskNext]_taskVars => [A]_taskVars
  BY <1>1
<1>3. TaskSpec => [][A]_taskVars
  BY <1>2, TasksInvariance, PTL DEF TaskSpec
<1>4. QED
  BY <1>3 DEF HandOverSendsNoCancel

\* Neither a stopping session nor a hand-over cancels a task that somebody still wants.
THEOREM CancelsMeant ==
  ASSUME LastConn \in Nat, Null \notin Conn
  PROVE  TaskSpec => CancelsAreMeant
<1>1. QED
  BY StopIsSilent, HandOverIsSilent DEF CancelsAreMeant

-----------------------------------------------------------------------------
(***************************************************************************)
(* Theorems about KeepAlive, for any definitions and connections: its      *)
(* inductive invariant IInv holds of every behaviour, and with it          *)
(* KeepAliveHolds.                                                         *)
(***************************************************************************)

\* Nobody is neither a connection nor a definition, and a connection that nothing refers to can
\* always be opened: three are referred to at most.
Identities ==
  /\ None \notin Connection /\ None \notin Def
  /\ \A a, b, c \in Connection \cup {None} : \E d \in Connection : d \notin {a, b, c}

-----------------------------------------------------------------------------
(* The operators *)

\* A new connection is none of those that are referred to.
LEMMA FreshIsNew ==
  ASSUME Identities, TypeOK
  PROVE  Fresh \in Connection /\ Fresh \notin {route.conn, pass.conn, retry.conn}
<1>1. \E c \in Connection : c \notin {route.conn, pass.conn, retry.conn}
  BY DEF Identities, TypeOK
<1>2. QED
  BY <1>1 DEF Fresh

\* A status that is derived is a status.
LEMMA StatusOfTyped ==
  ASSUME TypeOK, NEW c
  PROVE  StatusOf(c) \in Statuses
BY DEF StatusOf, TypeOK, Statuses

Retries == [on : BOOLEAN, conn : Connection \cup {None}, status : Statuses, due : BOOLEAN,
            def : Def \cup {None}]

\* A retry is recorded for the registered definition only; no other field of the state changes.
LEMMA RecordRetryKeeps ==
  ASSUME TypeOK, NothingStaleRecorded, NEW d \in Def, NEW c \in Connection \cup {None},
         None \notin Def, RecordRetry(d, c)
  PROVE  retry' \in Retries /\ (retry'.on => registered # None /\ retry'.def = registered)
<1>1. StatusOf(c) \in Statuses
  BY StatusOfTyped
<1>2. CASE registered # d
  BY <1>2 DEF RecordRetry, TypeOK, Retries, NothingStaleRecorded
<1>3. CASE registered = d
  BY <1>1, <1>3 DEF RecordRetry, TypeOK, Retries
<1>4. QED
  BY <1>2, <1>3

-----------------------------------------------------------------------------
(* The ends of a pass *)

\* A pass in progress is one of a session that was not stopped.
LEMMA PassIsBusy ==
  ASSUME IInv, pass.at # "idle"
  PROVE  pass.def \in Def /\ phase # "stopped"
BY DEF IInv, TypeOK, PassIsRegistered, StoppedIsQuiet

\* A pass ends without a new connection: it may have closed the route, have recorded backoff for
\* the registered definition, and have given up a publication that is not owed any more.
LEMMA PassEnds ==
  ASSUME Identities, IInv, pass.at # "idle",
         pass' = Idle, route' = route \/ route' = NoRoute,
         retry' \in Retries, retry'.on => registered # None /\ retry'.def = registered,
         pending' \in BOOLEAN, pending' => registered # None,
         phase = "running" /\ route' = route /\ Usable /\ route.byPass => pending' \/ route.shown,
         UNCHANGED <<registered, env>>
  PROVE  IInv'
<1>1. phase # "stopped" /\ phase' = phase /\ registered' = registered
  BY PassIsBusy DEF env
<1>2. NoRoute \in [conn : Connection \cup {None}, status : Statuses, def : Def \cup {None},
                   byPass : BOOLEAN, shown : BOOLEAN]
  BY DEF NoRoute, Statuses
<1>3. TypeOK'
  BY <1>1, <1>2 DEF IInv, TypeOK, Idle, env, Retries
<1>4. NothingStaleRecorded' /\ StoppedIsQuiet' /\ PassIsRegistered'
  BY <1>1 DEF NothingStaleRecorded, StoppedIsQuiet, PassIsRegistered, Idle
<1>5. NoOrphanConnection' /\ RouteIsRegistered'
  BY <1>1 DEF IInv, NoOrphanConnection, RouteIsRegistered, Usable, NoRoute
<1>6. PassPublishes'
  BY <1>1 DEF PassPublishes, Usable, NoRoute, Idle
<1>7. QED
  BY <1>3, <1>4, <1>5, <1>6 DEF IInv

\* What the route owes stays owed, once its pass is not between connecting and publishing.
LEMMA Owed ==
  ASSUME IInv, pass.at # "returned" \/ pass.conn # route.conn
  PROVE  phase = "running" /\ Usable /\ route.byPass => pending \/ route.shown
BY DEF IInv, PassPublishes

\* onReconnect() shows the route, or throws.
LEMMA PublishedKeeps ==
  ASSUME Identities, IInv, pass.at # "idle", NEW c \in Connection, NEW again \in BOOLEAN,
         Published(pass.def, c, again), pending' = TRUE, registered = pass.def,
         UNCHANGED <<registered, env>>
  PROVE  IInv'
<1>1. /\ phase # "stopped" /\ phase' = phase /\ registered' = registered /\ registered # None
      /\ retry' = retry /\ pass.def \in Def
  BY PassIsBusy DEF env, Published, Identities
<1>2. /\ pass'.at \in {"published", "unpublished"} /\ pass'.def = pass.def /\ pass'.conn = c
      /\ pass'.again = again
      /\ pass' \in [at : {"published", "unpublished"}, def : Def \cup {None},
                     conn : Connection \cup {None}, again : BOOLEAN]
  BY <1>1 DEF Published
<1>3. /\ route'.conn = route.conn /\ route'.status = route.status /\ route'.def = route.def
      /\ route'.byPass = route.byPass /\ (route.shown => route'.shown)
      /\ route' \in [conn : Connection \cup {None}, status : Statuses, def : Def \cup {None},
                      byPass : BOOLEAN, shown : BOOLEAN]
      /\ (pass'.at = "published" /\ Usable => route'.shown)
  <2>1. CASE route' = [route EXCEPT !.shown = @ \/ Usable]
    BY <2>1 DEF IInv, TypeOK
  <2>2. CASE route' = route /\ pass'.at = "unpublished"
    BY <2>2 DEF IInv, TypeOK
  <2>3. QED
    BY <2>1, <2>2 DEF Published
<1>4. TypeOK'
  BY <1>1, <1>2, <1>3 DEF IInv, TypeOK, env
<1>5. NothingStaleRecorded' /\ StoppedIsQuiet' /\ PassIsRegistered'
  BY <1>1, <1>2 DEF IInv, NothingStaleRecorded, StoppedIsQuiet, PassIsRegistered
<1>6. NoOrphanConnection' /\ RouteIsRegistered'
  BY <1>1, <1>3 DEF IInv, NoOrphanConnection, RouteIsRegistered, Usable
<1>7. PassPublishes'
  BY <1>1, <1>2, <1>3 DEF PassPublishes, Usable
<1>8. QED
  BY <1>4, <1>5, <1>6, <1>7 DEF IInv

\* publishConnectedMetadata()
LEMMA PublishKeeps ==
  ASSUME Identities, IInv, pass.at # "idle", NEW c \in Connection, c = route.conn,
         Publish(pass.def, c), UNCHANGED <<registered, env>>
  PROVE  IInv'
<1>1. CASE registered # pass.def
  <2>1. pass' = Idle /\ UNCHANGED <<retry, pending>> /\ route' = NoRoute
    BY <1>1 DEF Publish, CloseOwn
  <2>2. NoRoute.status # "connected"
    BY DEF NoRoute
  <2>3. CASE route = NoRoute
    <3>1. ~Usable
      BY <2>2, <2>3 DEF Usable
    <3>2. QED
      BY <2>1, <3>1, PassEnds DEF IInv, TypeOK, NothingStaleRecorded, Retries
  <2>4. QED
    BY <2>1, <2>3, PassEnds DEF IInv, TypeOK, NothingStaleRecorded, Retries
<1>2. CASE registered = pass.def
  BY <1>2, PublishedKeeps DEF Publish, IInv, TypeOK
<1>3. QED
  BY <1>1, <1>2

\* A route that waits for a sign-in is told, or closed when its definition was replaced.
LEMMA NotifyKeeps ==
  ASSUME Identities, IInv, pass.at # "idle", NEW c \in Connection \cup {None}, ~Usable,
         NotifyAuthRequired(pass.def, c), UNCHANGED <<registered, env>>
  PROVE  IInv'
<1>1. NoRetry \in Retries /\ ~NoRetry.on
  BY DEF NoRetry, Retries, Statuses
<1>2. CASE registered # pass.def
  BY <1>2, PassEnds DEF NotifyAuthRequired, CloseOwn, IInv, TypeOK, NothingStaleRecorded, Retries
<1>3. CASE registered = pass.def
  BY <1>1, <1>3, PassEnds DEF NotifyAuthRequired, Ends
<1>4. QED
  BY <1>2, <1>3

-----------------------------------------------------------------------------
(* The steps of a pass *)

\* A pass goes on to its next await: what it will connect or refresh is the registered definition's.
LEMMA PassGoesOn ==
  ASSUME Identities, IInv, pass.at # "idle" \/ phase = "running",
         NEW s \in {"queued", "connecting", "reconnecting", "aborted", "refreshing"},
         NEW d \in Def, NEW c \in Connection \cup {None}, NEW again \in BOOLEAN,
         pass' = [at |-> s, def |-> d, conn |-> c, again |-> again],
         s # "aborted" => d = registered, s = "refreshing" => c # None,
         retry' \in Retries, retry'.on => registered # None /\ retry'.def = registered,
         pass.at # "returned" \/ pass.conn # route.conn,
         UNCHANGED <<route, pending, registered, env>>
  PROVE  IInv'
<1>1. phase # "stopped" /\ phase' = phase /\ d # None
  BY PassIsBusy DEF env, Identities
<1>2. TypeOK'
  BY <1>1 DEF IInv, TypeOK, env, Retries
<1>3. NothingStaleRecorded' /\ StoppedIsQuiet' /\ PassIsRegistered'
  BY <1>1 DEF IInv, NothingStaleRecorded, StoppedIsQuiet, PassIsRegistered
<1>4. NoOrphanConnection' /\ RouteIsRegistered'
  BY DEF IInv, NoOrphanConnection, RouteIsRegistered, Usable
<1>5. PassPublishes'
  BY <1>1, Owed DEF PassPublishes, Usable
<1>6. QED
  BY <1>2, <1>3, <1>4, <1>5 DEF IInv

\* checkKeepAliveConnection() leaves the pass ended, connecting, refreshing or publishing.
LEMMA CheckKeeps ==
  ASSUME Identities, IInv, pass.at \in {"queued", "refreshing"}, NEW again \in BOOLEAN,
         CheckKeepAlive(pass.def, again), UNCHANGED <<registered, env>>
  PROVE  IInv'
<1> DEFINE d == pass.def
<1>1. pass.def \in Def /\ phase # "stopped"
  BY PassIsBusy
<1>2. retry \in Retries /\ (retry.on => registered # None /\ retry.def = registered)
      /\ pending \in BOOLEAN /\ (pending => registered # None)
  BY DEF IInv, TypeOK, Retries, NothingStaleRecorded
<1>3. NoRetry \in Retries /\ ~NoRetry.on
  BY DEF NoRetry, Retries, Statuses
<1>4. phase = "running" /\ Usable /\ route.byPass => pending \/ route.shown
  BY Owed
<1>5. CASE Ends /\ UNCHANGED <<retry, pending>>
  BY <1>2, <1>4, <1>5, PassEnds DEF Ends
<1>6. CASE route.status = "needs-auth" /\ pending' = FALSE /\ Ends /\ UNCHANGED retry
  <2>1. ~Usable
    BY <1>6 DEF Usable
  <2>2. QED
    BY <1>2, <1>6, <2>1, PassEnds DEF Ends
<1>7. CASE /\ registered = d
           /\ retry' = IF Changed(route.conn) THEN NoRetry ELSE retry
           /\ UNCHANGED <<route, pending>>
           /\ pass' = IF Usable
                      THEN IF d \in HttpDef
                           THEN [at |-> "refreshing", def |-> d, conn |-> route.conn, again |-> again]
                           ELSE Idle
                      ELSE IF signingIn THEN Idle
                           ELSE [at |-> "connecting", def |-> d, conn |-> None, again |-> again]
  <2>1. retry' \in Retries /\ (retry'.on => registered # None /\ retry'.def = registered)
    BY <1>2, <1>3, <1>7
  <2>2. CASE pass' = Idle
    BY <1>2, <1>4, <1>7, <2>1, <2>2, PassEnds
  <2>3. CASE Usable /\ pass' = [at |-> "refreshing", def |-> d, conn |-> route.conn, again |-> again]
    <3>1. route.conn \in Connection
      BY <2>3 DEF IInv, TypeOK, RouteIsRegistered, Usable
    <3>2. route.conn # None
      BY <3>1 DEF Identities
    <3>3. QED
      BY <1>1, <1>7, <2>1, <2>3, <3>1, <3>2, PassGoesOn
  <2>4. CASE pass' = [at |-> "connecting", def |-> d, conn |-> None, again |-> again]
    BY <1>1, <1>7, <2>1, <2>4, PassGoesOn
  <2>5. QED
    BY <1>7, <2>2, <2>3, <2>4
<1>8. CASE Usable /\ pending /\ Published(d, route.conn, again) /\ UNCHANGED pending /\ registered = d
  <2>1. route.conn \in Connection
    BY <1>8 DEF IInv, TypeOK, RouteIsRegistered, Usable
  <2>2. pending' = TRUE
    BY <1>8 DEF IInv, TypeOK
  <2>3. QED
    BY <1>8, <2>1, <2>2, PublishedKeeps
<1>9. QED
  BY <1>5, <1>6, <1>7, <1>8 DEF CheckKeepAlive

\* handleSupersededConnection()
LEMMA SupersededKeeps ==
  ASSUME Identities, IInv, pass.at = "refreshing", NEW c \in Connection,
         Superseded(pass.def, c), UNCHANGED <<registered, env>>
  PROVE  IInv'
<1>1. retry \in Retries /\ (retry.on => registered # None /\ retry.def = registered)
      /\ pending \in BOOLEAN /\ (pending => registered # None)
  BY DEF IInv, TypeOK, Retries, NothingStaleRecorded
<1>2. NoRetry \in Retries /\ ~NoRetry.on
  BY DEF NoRetry, Retries, Statuses
<1>3. phase = "running" /\ Usable /\ route.byPass => pending \/ route.shown
  BY Owed
<1>4. CASE Ends /\ UNCHANGED pending /\ (UNCHANGED retry \/ retry' = NoRetry)
  BY <1>1, <1>2, <1>3, <1>4, PassEnds DEF Ends
<1>5. CASE Usable /\ Publish(pass.def, route.conn)
  <2>1. route.conn \in Connection
    BY <1>5 DEF IInv, TypeOK, RouteIsRegistered, Usable
  <2>2. QED
    BY <1>5, <2>1, PublishKeeps
<1>6. CASE ~Usable /\ NotifyAuthRequired(pass.def, route.conn)
  <2>1. route.conn \in Connection \cup {None}
    BY DEF IInv, TypeOK
  <2>2. QED
    BY <1>6, <2>1, NotifyKeeps
<1>7. CASE CheckKeepAlive(pass.def, FALSE)
  BY <1>7, CheckKeeps
<1>8. QED
  BY <1>4, <1>5, <1>6, <1>7 DEF Superseded

\* The settled refresh of a pass
LEMMA RefreshKeeps ==
  ASSUME Identities, IInv, RefreshReturns
  PROVE  IInv'
<1> DEFINE c == pass.conn
           stopShort == route.conn # c \/ ~Usable
<1>1. /\ pass.at = "refreshing" /\ UNCHANGED <<registered, env>> /\ c \in Connection /\ pass.def \in Def
      /\ pass \in [at : {"refreshing"}, def : Def, conn : Connection, again : BOOLEAN]
  BY PassIsBusy DEF RefreshReturns, IInv, TypeOK, PassIsRegistered
<1>2. retry \in Retries /\ (retry.on => registered # None /\ retry.def = registered)
      /\ pending \in BOOLEAN /\ (pending => registered # None)
  BY DEF IInv, TypeOK, Retries, NothingStaleRecorded
<1>3. NoRetry \in Retries /\ ~NoRetry.on
  BY DEF NoRetry, Retries, Statuses
<1>4. phase = "running" /\ Usable /\ route.byPass => pending \/ route.shown
  BY <1>1, Owed
<1>5. CASE Ends /\ UNCHANGED pending /\ (UNCHANGED retry \/ retry' = NoRetry)
  BY <1>1, <1>2, <1>3, <1>4, <1>5, PassEnds DEF Ends
<1>6. CASE Superseded(pass.def, c)
  BY <1>1, <1>6, SupersededKeeps
<1>7. CASE Fails(pass.def, c)
  <2>1. retry' \in Retries /\ (retry'.on => registered # None /\ retry'.def = registered)
    BY <1>1, <1>7, RecordRetryKeeps DEF Fails, IInv, Identities
  <2>2. QED
    BY <1>1, <1>2, <1>4, <1>7, <2>1, PassEnds DEF Fails, Ends
<1>8. CASE /\ ~stopShort /\ UNCHANGED <<retry, pending, route>>
           /\ pass' = IF signingIn THEN Idle ELSE [pass EXCEPT !.at = "reconnecting"]
  <2>1. registered = pass.def
    BY <1>1, <1>8 DEF IInv, PassIsRegistered
  <2>2. CASE pass' = Idle
    BY <1>1, <1>2, <1>4, <1>8, <2>2, PassEnds
  <2>3. CASE pass' = [pass EXCEPT !.at = "reconnecting"]
    <3>1. pass' = [at |-> "reconnecting", def |-> pass.def, conn |-> c, again |-> pass.again]
      BY <1>1, <2>3
    <3>2. c \in Connection \cup {None} /\ pass.again \in BOOLEAN
      BY <1>1
    <3>3. QED
      BY <1>1, <1>2, <1>8, <2>1, <3>1, <3>2, PassGoesOn
  <2>4. QED
    BY <1>8, <2>2, <2>3
<1>9. QED
  <2>1. CASE /\ ~stopShort /\ Ends /\ UNCHANGED pending
             /\ retry' = IF registered = pass.def THEN NoRetry ELSE retry
    BY <1>5, <2>1
  <2>2. QED
    BY <1>5, <1>6, <1>7, <1>8, <2>1 DEF RefreshReturns

\* An attempt of the pass connects, fails or is aborted.
LEMMA AttemptKeeps ==
  ASSUME Identities, IInv, AttemptSucceeds \/ AttemptFails
  PROVE  IInv'
<1>1. pass.at # "idle" /\ UNCHANGED <<registered, env>> /\ phase # "stopped" /\ pass.def \in Def
  BY PassIsBusy DEF AttemptSucceeds, AttemptFails, reg
<1>2. retry \in Retries /\ (retry.on => registered # None /\ retry.def = registered)
      /\ pending \in BOOLEAN /\ (pending => registered # None)
  BY DEF IInv, TypeOK, Retries, NothingStaleRecorded
<1>3. CASE AttemptSucceeds
  <2>1. PICK s \in {"connected", "needs-auth"} : route' = Opened(s, pass.def, TRUE)
    BY <1>3 DEF AttemptSucceeds
  <2>2. /\ registered = pass.def /\ UNCHANGED <<reg, env>>
        /\ pass' = [pass EXCEPT !.at = "returned", !.conn = Fresh]
    BY <1>3 DEF AttemptSucceeds, IInv, PassIsRegistered
  <2>3. Fresh \in Connection /\ Fresh # None
    BY FreshIsNew DEF IInv, Identities
  <2>4. /\ pass'.at = "returned" /\ pass'.def = pass.def /\ pass'.conn = Fresh
        /\ pass' \in [at : {"returned"}, def : Def, conn : Connection, again : BOOLEAN]
    BY <1>1, <2>2, <2>3 DEF IInv, TypeOK
  <2>5. /\ route'.conn = Fresh /\ route'.status = s /\ route'.def = pass.def
        /\ route' \in [conn : Connection, status : Statuses, def : Def, byPass : BOOLEAN, shown : BOOLEAN]
    BY <1>1, <2>1, <2>3 DEF Opened, Statuses
  <2>6. TypeOK'
    BY <2>2, <2>4, <2>5 DEF IInv, TypeOK, reg, env
  <2>7. NothingStaleRecorded' /\ StoppedIsQuiet' /\ PassIsRegistered'
    BY <1>1, <2>2, <2>4
       DEF IInv, NothingStaleRecorded, StoppedIsQuiet, PassIsRegistered, reg, env, Identities
  <2>8. NoOrphanConnection' /\ RouteIsRegistered'
    BY <1>1, <2>2, <2>3, <2>5 DEF NoOrphanConnection, RouteIsRegistered, Usable, Identities
  <2>9. PassPublishes'
    BY <2>4, <2>5 DEF PassPublishes
  <2>10. QED
    BY <2>6, <2>7, <2>8, <2>9 DEF IInv
<1>4. CASE AttemptFails
  <2>1. phase = "running" /\ Usable /\ route.byPass => pending \/ route.shown
    BY <1>4, Owed DEF AttemptFails
  <2>2. CASE Ends /\ UNCHANGED <<retry, pending>>
    BY <1>1, <1>2, <2>1, <2>2, PassEnds DEF Ends
  <2>3. CASE Fails(pass.def, route.conn)
    <3>1. route.conn \in Connection \cup {None}
      BY DEF IInv, TypeOK
    <3>2. retry' \in Retries /\ (retry'.on => registered # None /\ retry'.def = registered)
      BY <1>1, <2>3, <3>1, RecordRetryKeeps DEF Fails, IInv, Identities
    <3>3. QED
      BY <1>1, <1>2, <2>1, <2>3, <3>2, PassEnds DEF Fails, Ends
  <2>4. QED
    BY <1>4, <2>2, <2>3 DEF AttemptFails
<1>5. QED
  BY <1>3, <1>4

\* The attempt's await resumes: what it connected is published, told, or found closed.
LEMMA ReturnKeeps ==
  ASSUME Identities, IInv, AttemptReturns
  PROVE  IInv'
<1>1. /\ pass.at = "returned" /\ UNCHANGED <<registered, env>> /\ pass.def \in Def
      /\ pass.conn \in Connection \cup {None} /\ phase # "stopped"
  BY PassIsBusy DEF AttemptReturns, IInv, TypeOK
<1>2. retry \in Retries /\ (retry.on => registered # None /\ retry.def = registered)
      /\ pending \in BOOLEAN /\ (pending => registered # None)
  BY DEF IInv, TypeOK, Retries, NothingStaleRecorded
<1>3. CASE phase # "running" /\ Ends /\ UNCHANGED <<retry, pending>>
  BY <1>1, <1>2, <1>3, PassEnds DEF Ends
<1>4. CASE StatusOf(pass.conn) = "needs-auth" /\ NotifyAuthRequired(pass.def, pass.conn)
  <2>1. CASE ~Usable
    BY <1>1, <1>4, <2>1, NotifyKeeps
  <2>2. CASE Usable
    <3>1. FALSE
      BY <1>4, <2>2 DEF StatusOf, Usable
    <3>2. QED
      BY <3>1
  <2>3. QED
    BY <2>1, <2>2
<1>5. CASE StatusOf(pass.conn) = "closed" /\ Fails(pass.def, pass.conn)
  <2>1. Usable => pass.conn # route.conn
    BY <1>5 DEF StatusOf, Usable
  <2>2. phase = "running" /\ Usable /\ route.byPass => pending \/ route.shown
    BY <2>1, Owed
  <2>3. retry' \in Retries /\ (retry'.on => registered # None /\ retry'.def = registered)
    BY <1>1, <1>5, RecordRetryKeeps DEF Fails, IInv, Identities
  <2>4. QED
    BY <1>1, <1>2, <1>5, <2>2, <2>3, PassEnds DEF Fails, Ends
<1>6. CASE StatusOf(pass.conn) = "connected" /\ Publish(pass.def, pass.conn)
  <2>1. pass.conn = route.conn /\ pass.conn \in Connection
    BY <1>1, <1>6 DEF StatusOf
  <2>2. QED
    BY <1>1, <1>6, <2>1, PublishKeeps
<1>7. QED
  BY <1>3, <1>4, <1>5, <1>6 DEF AttemptReturns

\* The publication's await resumes.
LEMMA PublishedReturnKeeps ==
  ASSUME Identities, IInv, PublishReturns
  PROVE  IInv'
<1>1. /\ pass.at \in {"published", "unpublished"} /\ UNCHANGED <<registered, env>> /\ pass.def \in Def
      /\ pass.conn \in Connection \cup {None} /\ Ends
  BY PassIsBusy DEF PublishReturns, IInv, TypeOK
<1>2. retry \in Retries /\ (retry.on => registered # None /\ retry.def = registered)
      /\ pending \in BOOLEAN /\ (pending => registered # None)
  BY DEF IInv, TypeOK, Retries, NothingStaleRecorded
<1>3. NoRetry \in Retries /\ ~NoRetry.on
  BY DEF NoRetry, Retries, Statuses
<1>4. CASE pass.at = "published" /\ pending' = FALSE /\ retry' = NoRetry
  <2>1. Usable => route.shown
    BY <1>4 DEF IInv, PassPublishes
  <2>2. QED
    BY <1>1, <1>3, <1>4, <2>1, PassEnds DEF Ends
<1>5. CASE /\ pass.at = "unpublished" /\ UNCHANGED pending
           /\ IF phase = "running" THEN RecordRetry(pass.def, pass.conn) ELSE UNCHANGED retry
  <2>1. phase = "running" /\ Usable /\ route.byPass => pending \/ route.shown
    BY <1>5, Owed
  <2>2. retry' \in Retries /\ (retry'.on => registered # None /\ retry'.def = registered)
    BY <1>1, <1>2, <1>5, RecordRetryKeeps DEF IInv, Identities
  <2>3. QED
    BY <1>1, <1>2, <1>5, <2>1, <2>2, PassEnds DEF Ends
<1>6. QED
  BY <1>4, <1>5 DEF PublishReturns

\* A pass begins, or has its turn.
LEMMA PassBeginKeeps ==
  ASSUME Identities, IInv, PassBegins \/ PassChecks
  PROVE  IInv'
<1>1. CASE PassBegins
  <2>1. registered \in Def /\ retry \in Retries
    BY <1>1 DEF PassBegins, IInv, TypeOK, Retries
  <2>2. QED
    BY <1>1, <2>1, PassGoesOn DEF PassBegins, reg, IInv, NothingStaleRecorded
<1>2. CASE PassChecks
  <2>1. pass.again \in BOOLEAN
    BY DEF IInv, TypeOK
  <2>2. QED
    BY <1>2, <2>1, CheckKeeps DEF PassChecks
<1>3. QED
  BY <1>1, <1>2

-----------------------------------------------------------------------------
(* What happens around a pass *)

\* The name is registered or disposed: dispose() aborts the attempts of the definition.
LEMMA RegistrationKeeps ==
  ASSUME Identities, IInv, Register \/ Unregister
  PROVE  IInv'
<1>1. CASE Register
  <2>1. /\ registered = None /\ phase = "running" /\ registered' \in Def /\ registered' # None
        /\ UNCHANGED <<retry, pending, route, pass, env>>
    BY <1>1 DEF Register, Identities
  <2>2. ~Usable /\ ~retry.on /\ ~pending
    BY <2>1 DEF IInv, RouteIsRegistered, NothingStaleRecorded
  <2>3. TypeOK'
    BY <2>1 DEF IInv, TypeOK, env
  <2>4. NothingStaleRecorded' /\ StoppedIsQuiet'
    BY <2>1, <2>2 DEF NothingStaleRecorded, StoppedIsQuiet, env
  <2>5. PassIsRegistered'
    BY <2>1 DEF IInv, PassIsRegistered
  <2>6. NoOrphanConnection' /\ RouteIsRegistered' /\ PassPublishes'
    BY <2>1, <2>2 DEF IInv, NoOrphanConnection, RouteIsRegistered, PassPublishes, Usable
  <2>7. QED
    BY <2>3, <2>4, <2>5, <2>6 DEF IInv
<1>2. CASE Unregister
  <2>1. /\ phase = "running" /\ registered' = None /\ retry' = NoRetry /\ pending' = FALSE
        /\ route' = NoRoute /\ UNCHANGED env
        /\ pass' = IF pass.at \in {"connecting", "reconnecting"}
                   THEN [pass EXCEPT !.at = "aborted"] ELSE pass
    BY <1>2 DEF Unregister
  <2>2. /\ pass'.def = pass.def /\ pass'.conn = pass.conn
        /\ pass'.at \notin {"connecting", "reconnecting"}
        /\ (pass'.at = "refreshing" => pass.at = "refreshing")
        /\ (pass'.at # "idle" => pass.at # "idle")
        /\ pass' \in [at : {"idle", "queued", "connecting", "reconnecting", "aborted", "returned",
                     "refreshing", "published", "unpublished"},
               def : Def \cup {None}, conn : Connection \cup {None}, again : BOOLEAN]
    BY <2>1 DEF IInv, TypeOK
  <2>3. TypeOK'
    BY <2>1, <2>2 DEF IInv, TypeOK, NoRetry, NoRoute, Statuses, env
  <2>4. NothingStaleRecorded' /\ StoppedIsQuiet'
    BY <2>1 DEF NothingStaleRecorded, StoppedIsQuiet, NoRetry, env
  <2>5. PassIsRegistered'
    BY <2>1, <2>2 DEF IInv, PassIsRegistered, NoRoute
  <2>6. NoOrphanConnection' /\ RouteIsRegistered' /\ PassPublishes'
    BY <2>1 DEF NoOrphanConnection, RouteIsRegistered, PassPublishes, Usable, NoRoute
  <2>7. QED
    BY <2>3, <2>4, <2>5, <2>6 DEF IInv
<1>3. QED
  BY <1>1, <1>2

\* A tool call connects while a pass may refresh, or publish, what was the route before.
LEMMA ToolCallKeeps ==
  ASSUME Identities, IInv, ToolCallConnects
  PROVE  IInv'
<1>1. /\ registered \in Def /\ phase = "running" /\ route' = Opened("connected", registered, FALSE)
      /\ UNCHANGED <<reg, pass, env>> /\ pass.at \notin {"connecting", "reconnecting", "aborted"}
  BY DEF ToolCallConnects, IInv, TypeOK
<1>2. Fresh \in Connection /\ Fresh # pass.conn
  BY FreshIsNew DEF IInv
<1>3. /\ route'.conn = Fresh /\ route'.status = "connected" /\ route'.def = registered
      /\ route'.byPass = FALSE /\ route'.shown = TRUE
      /\ route' \in [conn : Connection, status : Statuses, def : Def, byPass : BOOLEAN, shown : BOOLEAN]
  BY <1>1, <1>2 DEF Opened, Statuses
<1>4. TypeOK'
  <2>1. UNCHANGED <<registered, retry, pending, pass, signingIn, up, phase>>
    BY <1>1 DEF reg, env
  <2>2. route' \in [conn : Connection \cup {None}, status : Statuses, def : Def \cup {None},
                    byPass : BOOLEAN, shown : BOOLEAN]
    BY <1>3
  <2>3. QED
    BY <2>1, <2>2 DEF IInv, TypeOK
<1>5. NothingStaleRecorded' /\ StoppedIsQuiet' /\ PassIsRegistered'
  BY <1>1, <1>2, <1>3 DEF IInv, NothingStaleRecorded, StoppedIsQuiet, PassIsRegistered, reg, env
<1>6. NoOrphanConnection' /\ RouteIsRegistered' /\ PassPublishes'
  BY <1>1, <1>2, <1>3 DEF NoOrphanConnection, RouteIsRegistered, PassPublishes, Usable, reg, Identities
<1>7. QED
  BY <1>4, <1>5, <1>6 DEF IInv

\* The connection closes, a sign-in begins or ends, backoff is over, the server comes or goes.
LEMMA SurroundingsKeep ==
  ASSUME Identities, IInv, RemoteClose \/ SignIn \/ ServerChanges \/ BackoffEnds
  PROVE  IInv'
<1>1. CASE RemoteClose
  <2>1. /\ UNCHANGED <<reg, pass, env>> /\ Usable
        /\ route'.status = "closed" /\ route'.conn = route.conn
        /\ route' \in [conn : Connection \cup {None}, status : Statuses, def : Def \cup {None},
                       byPass : BOOLEAN, shown : BOOLEAN]
    BY <1>1 DEF RemoteClose, IInv, TypeOK, Statuses
  <2>2. TypeOK'
    BY <2>1 DEF IInv, TypeOK, reg, env
  <2>3. phase # "stopped"
    BY <2>1 DEF IInv, StoppedIsQuiet, Usable, NoRoute
  <2>4. NothingStaleRecorded' /\ StoppedIsQuiet' /\ PassIsRegistered'
    BY <2>1, <2>3 DEF IInv, NothingStaleRecorded, StoppedIsQuiet, PassIsRegistered, reg, env
  <2>5. NoOrphanConnection' /\ RouteIsRegistered' /\ PassPublishes'
    BY <2>1 DEF IInv, NoOrphanConnection, RouteIsRegistered, PassPublishes, Usable
  <2>6. QED
    BY <2>2, <2>4, <2>5 DEF IInv
<1>2. CASE SignIn
  <2>1. /\ phase = "running" /\ phase' = phase /\ signingIn' \in BOOLEAN /\ UNCHANGED <<reg, pass, up>>
        /\ route' = route \/ route' = NoRoute
    BY <1>2 DEF SignIn, IInv, TypeOK
  <2>2. TypeOK'
    <3>1. CASE route' = route
      BY <2>1, <3>1 DEF IInv, TypeOK, reg
    <3>2. CASE route' = NoRoute
      BY <2>1, <3>2 DEF IInv, TypeOK, reg, NoRoute, Statuses
    <3>3. QED
      BY <2>1, <3>1, <3>2
  <2>3. NothingStaleRecorded' /\ StoppedIsQuiet'
    BY <2>1 DEF IInv, NothingStaleRecorded, StoppedIsQuiet, reg
  <2>4. NoRoute.conn = None /\ NoRoute.status = "none"
    BY DEF NoRoute
  <2>5. PassIsRegistered'
    BY <2>1, <2>4 DEF IInv, PassIsRegistered, reg
  <2>6. NoOrphanConnection' /\ RouteIsRegistered' /\ PassPublishes'
    BY <2>1, <2>4 DEF IInv, NoOrphanConnection, RouteIsRegistered, PassPublishes, Usable, reg
  <2>7. QED
    BY <2>2, <2>3, <2>5, <2>6 DEF IInv
<1>3. CASE ServerChanges
  BY <1>3 DEF ServerChanges, IInv, TypeOK, NothingStaleRecorded, NoOrphanConnection, StoppedIsQuiet,
     PassIsRegistered, RouteIsRegistered, PassPublishes, Usable, reg
<1>4. CASE BackoffEnds
  <2>1. /\ retry.on /\ retry' = [retry EXCEPT !.due = TRUE]
        /\ UNCHANGED <<registered, pending, route, pass, env>>
    BY <1>4 DEF BackoffEnds
  <2>2. retry' \in Retries /\ retry'.on = retry.on /\ retry'.def = retry.def
    BY <2>1 DEF IInv, TypeOK, Retries
  <2>3. TypeOK'
    BY <2>1, <2>2 DEF IInv, TypeOK, env, Retries
  <2>4. QED
    BY <2>1, <2>2, <2>3
       DEF IInv, NothingStaleRecorded, NoOrphanConnection, StoppedIsQuiet, PassIsRegistered,
       RouteIsRegistered, PassPublishes, Usable, env
<1>5. QED
  BY <1>1, <1>2, <1>3, <1>4

\* gracefulShutdown() waits for the pass and clears everything.
LEMMA StoppingKeeps ==
  ASSUME Identities, IInv, Shutdown \/ CloseAll
  PROVE  IInv'
<1>1. CASE Shutdown
  <2>1. phase' = "stopping" /\ UNCHANGED <<reg, route, pass, signingIn, up>>
    BY <1>1 DEF Shutdown
  <2>2. QED
    BY <2>1
       DEF IInv, TypeOK, NothingStaleRecorded, NoOrphanConnection, StoppedIsQuiet, PassIsRegistered,
       RouteIsRegistered, PassPublishes, Usable, reg
<1>2. CASE CloseAll
  <2>1. /\ pass.at = "idle" /\ phase' = "stopped" /\ retry' = NoRetry /\ pending' = FALSE /\ route' = NoRoute
        /\ UNCHANGED <<registered, pass, signingIn, up>>
    BY <1>2 DEF CloseAll
  <2>2. TypeOK'
    BY <2>1 DEF IInv, TypeOK, NoRetry, NoRoute, Statuses
  <2>3. NothingStaleRecorded' /\ StoppedIsQuiet' /\ PassIsRegistered'
    BY <2>1 DEF NothingStaleRecorded, StoppedIsQuiet, PassIsRegistered, NoRetry
  <2>4. NoOrphanConnection' /\ RouteIsRegistered' /\ PassPublishes'
    BY <2>1 DEF NoOrphanConnection, RouteIsRegistered, PassPublishes, Usable, NoRoute
  <2>5. QED
    BY <2>2, <2>3, <2>4 DEF IInv
<1>3. QED
  BY <1>1, <1>2

-----------------------------------------------------------------------------
(* The theorems *)

\* The invariant holds at the start of a session.
LEMMA PassesBegin ==
  ASSUME Identities, Init
  PROVE  IInv
<1>1. /\ registered \in Def /\ route = NoRoute /\ retry = NoRetry /\ pending = FALSE /\ pass = Idle
      /\ signingIn = FALSE /\ up = TRUE /\ phase = "running"
  BY DEF Init, Starts
<1>2. TypeOK
  BY <1>1 DEF TypeOK, NoRoute, NoRetry, Idle, Statuses
<1>3. QED
  BY <1>1, <1>2 DEF IInv, NothingStaleRecorded, NoOrphanConnection, StoppedIsQuiet, PassIsRegistered,
     RouteIsRegistered, PassPublishes, Usable, NoRoute, NoRetry, Idle

\* So every step keeps the invariant of the passes.
LEMMA PassesKeep ==
  ASSUME Identities, IInv, [Next]_vars
  PROVE  IInv'
<1>1. CASE PassBegins \/ PassChecks
  BY <1>1, PassBeginKeeps
<1>2. CASE AttemptSucceeds \/ AttemptFails
  BY <1>2, AttemptKeeps
<1>3. CASE AttemptReturns
  BY <1>3, ReturnKeeps
<1>4. CASE PublishReturns
  BY <1>4, PublishedReturnKeeps
<1>5. CASE RefreshReturns
  BY <1>5, RefreshKeeps
<1>6. CASE Register \/ Unregister
  BY <1>6, RegistrationKeeps
<1>7. CASE ToolCallConnects
  BY <1>7, ToolCallKeeps
<1>8. CASE RemoteClose \/ SignIn \/ ServerChanges \/ BackoffEnds
  BY <1>8, SurroundingsKeep
<1>9. CASE Shutdown \/ CloseAll
  BY <1>9, StoppingKeeps
<1>10. CASE UNCHANGED vars
  BY <1>10 DEF vars, reg, env, IInv, TypeOK, NothingStaleRecorded, NoOrphanConnection, StoppedIsQuiet,
     PassIsRegistered, RouteIsRegistered, PassPublishes, Usable
<1>11. QED
  BY <1>1, <1>2, <1>3, <1>4, <1>5, <1>6, <1>7, <1>8, <1>9, <1>10 DEF Next, PassStep

\* The inductive invariant holds of every behaviour: passes, registrations, tool calls, sign-ins
\* and the session's shutdown in any order (lifecycle.ts).
THEOREM KeepAliveInvariance ==
  ASSUME Identities
  PROVE  Spec => []IInv
<1>1. Init => IInv
  BY PassesBegin
<1>2. IInv /\ [Next]_vars => IInv'
  BY PassesKeep
<1>3. QED
  BY <1>1, <1>2, PTL DEF Spec

\* Backoff and owed publications are the registered definition's, a disposed definition leaves no
\* usable connection, what a pass connects is shown or owed, and nothing comes back after the
\* session's shutdown.
THEOREM KeepAliveSafe ==
  ASSUME Identities
  PROVE  Spec => []KeepAliveHolds
<1>1. IInv => KeepAliveHolds
  BY DEF IInv, KeepAliveHolds, PassPublishes, ConnectedIsPublished
<1>2. QED
  BY <1>1, KeepAliveInvariance, PTL

-----------------------------------------------------------------------------
(***************************************************************************)
(* Theorems about Catalog, for any number of versions of the tools, and    *)
(* about ConfigWatch, for any contents and any number of writes.           *)
(***************************************************************************)

\* The server has a first list of tools.
Versioned == MaxVersion \in Nat /\ 1 <= MaxVersion

\* No catalog is loaded.
LEMMA CatalogBegins ==
  ASSUME Versioned, NEW c \in BOOLEAN, Cat!Starts(c)
  PROVE  Cat!CatalogInv
<1>1. /\ 1 \in 1 .. MaxVersion /\ 0 \in 0 .. MaxVersion /\ -1 \in -1 .. MaxVersion /\ 0 <= 1 /\ 1 <= 1 /\ -1 <= 1
  BY DEF Versioned
<1>2. /\ Cat!NoJob \in [at : {"none", "closing", "listening", "fetching", "fetched"}, recover : BOOLEAN,
                       filter : {0, 1}, got : 0 .. MaxVersion]
      /\ Cat!NoRefresh \in [at : {"none", "fetching", "fetched"}, got : 0 .. MaxVersion, moved : BOOLEAN]
      /\ Cat!NoJob.got = 0 /\ Cat!NoRefresh.got = 0 /\ Cat!NoRefresh.at = "none"
  BY <1>1 DEF Cat!NoJob, Cat!NoRefresh
<1>3. Cat!TypeOK
  BY <1>1, <1>2 DEF Cat!Starts, Cat!TypeOK, Cat!Version
<1>4. Cat!ListsFollowServer /\ Cat!ShownOrOwed
  BY <1>1, <1>2 DEF Cat!Starts, Cat!ListsFollowServer, Cat!ShownOrOwed
<1>5. QED
  BY <1>3, <1>4 DEF Cat!CatalogInv

\* What the attempt to listen does next; the lists stay.
LEMMA ListeningKeeps ==
  ASSUME Versioned, Cat!CatalogInv,
         \/ Cat!EnsureListen \/ Cat!PreviousClosed \/ Cat!ListenSucceeds \/ Cat!ListenFails
         \/ Cat!RemoteDrop \/ Cat!GracefulClose \/ Cat!RetryDue \/ Cat!FilterChanges
  PROVE  Cat!CatalogInv'
<1>1. UNCHANGED <<current, up, server, tools, shown, owed, unqueued, refresh, note>>
  BY DEF Cat!EnsureListen, Cat!PreviousClosed, Cat!ListenSucceeds, Cat!ListenFails, Cat!RemoteDrop,
         Cat!GracefulClose, Cat!RetryDue, Cat!FilterChanges, Cat!conn, Cat!list
<1>2. /\ job' \in [at : {"none", "closing", "listening", "fetching", "fetched"}, recover : BOOLEAN,
                   filter : {0, 1}, got : 0 .. MaxVersion]
      /\ job'.got <= server
  <2>1. Cat!NoJob \in [at : {"none"}, recover : BOOLEAN, filter : {0, 1}, got : {0}]
    BY DEF Cat!NoJob
  <2> HIDE DEF Cat!NoJob
  <2>2. server \in 1 .. MaxVersion /\ job.got <= server /\ wanted \in {0, 1}
        /\ job \in [at : {"none", "closing", "listening", "fetching", "fetched"}, recover : BOOLEAN,
                    filter : {0, 1}, got : 0 .. MaxVersion]
    BY DEF Cat!CatalogInv, Cat!TypeOK, Cat!ListsFollowServer, Cat!Version
  <2>3. CASE Cat!EnsureListen
    BY <2>1, <2>2, <2>3 DEF Cat!EnsureListen, Versioned
  <2>4. CASE Cat!PreviousClosed \/ Cat!ListenSucceeds \/ Cat!ListenFails
    BY <2>1, <2>2, <2>4 DEF Cat!PreviousClosed, Cat!ListenSucceeds, Cat!ListenFails, Versioned
  <2>5. CASE Cat!RemoteDrop \/ Cat!GracefulClose \/ Cat!RetryDue \/ Cat!FilterChanges
    BY <2>2, <2>5 DEF Cat!RemoteDrop, Cat!GracefulClose, Cat!RetryDue, Cat!FilterChanges
  <2>6. QED
    BY <2>3, <2>4, <2>5
<1>3. /\ listen' \in {"active", "not-listening", "dropped", "re-establishing"}
      /\ sub' \in {"none", "open", "remote", "ended"} /\ wanted' \in {0, 1} /\ filter' \in {0, 1}
      /\ halted' \in BOOLEAN /\ stale' \in BOOLEAN /\ waiting' \in BOOLEAN
  <2>1. /\ listen \in {"active", "not-listening", "dropped", "re-establishing"}
        /\ sub \in {"none", "open", "remote", "ended"} /\ wanted \in {0, 1} /\ filter \in {0, 1}
        /\ job.filter \in {0, 1}
        /\ halted \in BOOLEAN /\ stale \in BOOLEAN /\ waiting \in BOOLEAN
    BY DEF Cat!CatalogInv, Cat!TypeOK
  <2>2. CASE Cat!EnsureListen \/ Cat!PreviousClosed
    BY <2>1, <2>2 DEF Cat!EnsureListen, Cat!PreviousClosed
  <2>3. CASE Cat!ListenSucceeds \/ Cat!ListenFails
    BY <2>1, <2>3 DEF Cat!ListenSucceeds, Cat!ListenFails, Cat!subs
  <2>4. CASE Cat!RemoteDrop \/ Cat!GracefulClose \/ Cat!RetryDue
    BY <2>1, <2>4 DEF Cat!RemoteDrop, Cat!GracefulClose, Cat!RetryDue
  <2>5. CASE Cat!FilterChanges
    BY <2>1, <2>5 DEF Cat!FilterChanges
  <2>6. QED
    BY <2>2, <2>3, <2>4, <2>5
<1>4. QED
  BY <1>1, <1>2, <1>3 DEF Cat!CatalogInv, Cat!TypeOK, Cat!ListsFollowServer, Cat!ShownOrOwed

\* The catalog that an attempt fetched takes the place of the list, and a refresh in flight is told.
LEMMA ReconcileKeeps ==
  ASSUME Versioned, Cat!CatalogInv,
         Cat!ToolsFetched \/ \E threw \in BOOLEAN : Cat!CatalogReconciled(threw)
  PROVE  Cat!CatalogInv'
<1>1. /\ server \in 1 .. MaxVersion /\ tools \in 1 .. MaxVersion /\ shown \in 1 .. MaxVersion
      /\ tools <= server /\ shown <= server /\ job.got <= server /\ job.got \in 0 .. MaxVersion
      /\ UNCHANGED <<current, up, server, note, halted, wanted, filter>>
  BY DEF Cat!CatalogInv, Cat!TypeOK, Cat!ListsFollowServer, Cat!Version, Cat!ToolsFetched,
         Cat!CatalogReconciled, Cat!conn, Cat!subs
<1>2. CASE Cat!ToolsFetched
  <2>1. /\ job' \in [at : {"none", "closing", "listening", "fetching", "fetched"}, recover : BOOLEAN,
                   filter : {0, 1}, got : 0 .. MaxVersion]
        /\ job'.got <= server
    <3>1. job \in [at : {"none", "closing", "listening", "fetching", "fetched"}, recover : BOOLEAN,
                  filter : {0, 1}, got : 0 .. MaxVersion]
      BY DEF Cat!CatalogInv, Cat!TypeOK
    <3>2. /\ server \in 0 .. MaxVersion /\ 0 \in 0 .. MaxVersion /\ server <= server /\ 0 <= server
      BY <1>1 DEF Versioned
    <3>3. PICK g \in {server, 0} : job' = [job EXCEPT !.at = "fetched", !.got = g]
      BY <1>2 DEF Cat!ToolsFetched
    <3>4. QED
      BY <3>1, <3>2, <3>3
  <2>2. UNCHANGED <<listen, sub, halted, stale, waiting, tools, shown, owed, unqueued, refresh>>
    BY <1>2 DEF Cat!ToolsFetched, Cat!subs, Cat!list
  <2>3. QED
    BY <1>1, <2>1, <2>2 DEF Cat!CatalogInv, Cat!TypeOK, Cat!ListsFollowServer, Cat!ShownOrOwed
<1>3. ASSUME NEW threw \in BOOLEAN, Cat!CatalogReconciled(threw)
      PROVE  Cat!CatalogInv'
  <2>1. job' = Cat!NoJob
        /\ job' \in [at : {"none", "closing", "listening", "fetching", "fetched"}, recover : BOOLEAN,
                     filter : {0, 1}, got : 0 .. MaxVersion]
        /\ job'.got = 0
    BY <1>3 DEF Cat!CatalogReconciled, Cat!NoJob, Versioned
  <2>2. /\ listen \in {"active", "not-listening", "dropped", "re-establishing"}
        /\ sub \in {"none", "open", "remote", "ended"} /\ stale \in BOOLEAN /\ waiting \in BOOLEAN
        /\ owed \in BOOLEAN /\ unqueued \in BOOLEAN
        /\ refresh \in [at : {"none", "fetching", "fetched"}, got : 0 .. MaxVersion, moved : BOOLEAN]
        /\ refresh.got <= server /\ (refresh.at = "fetched" /\ ~refresh.moved => tools <= refresh.got)
        /\ (current /\ ~unqueued => shown = tools \/ owed)
    BY DEF Cat!CatalogInv, Cat!TypeOK, Cat!ListsFollowServer, Cat!ShownOrOwed
  <2>3. CASE ~current
    <3>1. /\ UNCHANGED <<sub, stale, tools, shown, owed, unqueued, refresh>>
          /\ waiting' = TRUE /\ listen' = "active"
      BY <1>3, <2>3 DEF Cat!CatalogReconciled, Cat!list
    <3>2. QED
      BY <1>1, <2>1, <2>2, <2>3, <3>1
         DEF Cat!CatalogInv, Cat!TypeOK, Cat!ListsFollowServer, Cat!ShownOrOwed, Cat!Version
  <2>4. CASE current
    <3>1. PICK optional \in {up, TRUE} :
            IF threw THEN Cat!ListenerThrew(optional) ELSE Cat!Published(optional)
      BY <1>3, <2>4 DEF Cat!CatalogReconciled
    <3>2. Cat!Applied
      BY <3>1 DEF Cat!ListenerThrew, Cat!Published
    <3>3. /\ tools' = (IF Cat!Changed THEN job.got ELSE tools)
          /\ tools' \in 1 .. MaxVersion /\ tools' <= server
      BY <1>1, <3>2 DEF Cat!Applied, Cat!Changed
    <3>4. /\ refresh' \in [at : {"none", "fetching", "fetched"}, got : 0 .. MaxVersion, moved : BOOLEAN]
          /\ refresh'.got <= server
          /\ refresh'.at = "fetched" /\ ~refresh'.moved => tools' <= refresh'.got
      <4>1. CASE Cat!Changed
        BY <2>2, <3>2, <4>1 DEF Cat!Applied, Cat!Moves
      <4>2. CASE ~Cat!Changed
        BY <2>2, <3>2, <4>2 DEF Cat!Applied
      <4>3. QED
        BY <4>1, <4>2
    <3>5. Cat!Changed \in BOOLEAN /\ (~Cat!Changed => tools' = tools)
      BY <3>3 DEF Cat!Changed
    <3>6. CASE ~threw
      <4>1. /\ shown' = (IF Cat!Changed \/ owed THEN tools' ELSE shown) /\ owed' = FALSE
            /\ unqueued' = unqueued /\ sub' = sub /\ listen' = "active"
            /\ stale' \in BOOLEAN /\ waiting' \in BOOLEAN
        BY <2>2, <3>1, <3>6 DEF Cat!Published
      <4>2. shown' \in {shown, tools'} /\ (current' /\ ~unqueued' => shown' = tools' \/ owed')
        BY <1>1, <2>2, <3>5, <4>1
      <4>3. shown' \in 1 .. MaxVersion /\ shown' <= server /\ owed' \in BOOLEAN /\ unqueued' \in BOOLEAN
        BY <1>1, <2>2, <3>3, <4>1, <4>2
      <4>4. QED
        BY <1>1, <2>1, <2>2, <3>3, <3>4, <4>1, <4>2, <4>3
           DEF Cat!CatalogInv, Cat!TypeOK, Cat!ListsFollowServer, Cat!ShownOrOwed, Cat!Version
    <3>7. CASE threw
      <4>1. /\ unqueued' = (unqueued \/ Cat!Changed) /\ shown' = shown /\ owed' = owed
            /\ sub' \in {sub, "ended"} /\ listen' \in {listen, "dropped"}
            /\ stale' \in BOOLEAN /\ waiting' \in BOOLEAN
        BY <2>2, <3>1, <3>7 DEF Cat!ListenerThrew
      <4>2. unqueued' \in BOOLEAN /\ (current' /\ ~unqueued' => shown' = tools' \/ owed')
        BY <1>1, <2>2, <3>5, <4>1
      <4>3. QED
        BY <1>1, <2>1, <2>2, <3>3, <3>4, <4>1, <4>2
           DEF Cat!CatalogInv, Cat!TypeOK, Cat!ListsFollowServer, Cat!ShownOrOwed, Cat!Version
    <3>8. QED
      BY <3>6, <3>7
  <2>5. QED
    BY <2>3, <2>4
<1>4. QED
  BY <1>2, <1>3

\* A notification and a keep-alive refresh bring the server's list, and a refresh that something
\* moved is dropped.
LEMMA NoticesKeep ==
  ASSUME Versioned, Cat!CatalogInv,
         \/ Cat!NoteFetched \/ Cat!ListChanged \/ Cat!RefreshStarts \/ Cat!RefreshFetched \/ Cat!RefreshReturns
  PROVE  Cat!CatalogInv'
<1>1. UNCHANGED <<current, up, server, listen, sub, halted, stale, waiting, wanted, filter, job>>
  BY DEF Cat!NoteFetched, Cat!ListChanged, Cat!RefreshStarts, Cat!RefreshFetched, Cat!RefreshReturns,
         Cat!conn, Cat!subs
<1>2. /\ server \in 1 .. MaxVersion /\ tools \in 1 .. MaxVersion /\ shown \in 1 .. MaxVersion
      /\ tools <= server /\ shown <= server /\ note \in -1 .. MaxVersion /\ note <= server
      /\ owed \in BOOLEAN /\ unqueued \in BOOLEAN
      /\ refresh \in [at : {"none", "fetching", "fetched"}, got : 0 .. MaxVersion, moved : BOOLEAN]
      /\ refresh.got <= server /\ (refresh.at = "fetched" /\ ~refresh.moved => tools <= refresh.got)
      /\ (current /\ ~unqueued => shown = tools \/ owed)
  BY DEF Cat!CatalogInv, Cat!TypeOK, Cat!ListsFollowServer, Cat!ShownOrOwed, Cat!Version
<1>3. /\ -1 \in -1 .. MaxVersion /\ 0 \in -1 .. MaxVersion /\ server \in -1 .. MaxVersion
      /\ 0 \in 0 .. MaxVersion /\ server \in 0 .. MaxVersion /\ -1 <= server /\ 0 <= server /\ server <= server
  BY <1>2 DEF Versioned
<1>4. /\ tools' \in 1 .. MaxVersion /\ shown' \in 1 .. MaxVersion /\ tools' <= server /\ shown' <= server
      /\ note' \in -1 .. MaxVersion /\ note' <= server /\ owed' \in BOOLEAN /\ unqueued' \in BOOLEAN
      /\ refresh' \in [at : {"none", "fetching", "fetched"}, got : 0 .. MaxVersion, moved : BOOLEAN]
      /\ refresh'.got <= server /\ (refresh'.at = "fetched" /\ ~refresh'.moved => tools' <= refresh'.got)
      /\ (current /\ ~unqueued' => shown' = tools' \/ owed')
  <2>1. CASE Cat!NoteFetched
    <3>1. UNCHANGED <<tools, shown, owed, unqueued, refresh>> /\ note' \in {server, -1}
      BY <2>1 DEF Cat!NoteFetched, Cat!list
    <3>2. QED
      BY <1>2, <1>3, <3>1
  <2>2. CASE Cat!ListChanged /\ ~current
    <3>1. UNCHANGED <<tools, shown, owed, unqueued, refresh>> /\ note' = -1
      BY <2>2 DEF Cat!ListChanged, Cat!list
    <3>2. QED
      BY <1>2, <1>3, <3>1
  <2>3. CASE Cat!ListChanged /\ current
    <3>1. /\ note > 0 /\ note' = -1 /\ tools' = note /\ unqueued' = unqueued
          /\ (shown' = note /\ owed' = FALSE) \/ (owed' = TRUE /\ shown' = shown)
          /\ refresh' = [refresh EXCEPT !.moved = @ \/ refresh.at # "none"]
      BY <2>3 DEF Cat!ListChanged, Cat!Moves
    <3>2. note \in 1 .. MaxVersion
      BY <1>2, <3>1
    <3>3. refresh' \in [at : {"none", "fetching", "fetched"}, got : 0 .. MaxVersion, moved : BOOLEAN]
          /\ refresh'.got = refresh.got /\ (refresh'.at = "fetched" => refresh'.moved)
      BY <1>2, <3>1
    <3>4. tools' <= server /\ shown' <= server /\ note' <= server /\ refresh'.got <= server
      BY <1>2, <1>3, <3>1, <3>3
    <3>5. QED
      BY <1>2, <1>3, <3>1, <3>2, <3>3, <3>4
  <2>4. CASE Cat!RefreshStarts \/ Cat!RefreshFetched
    <3>1. UNCHANGED <<tools, shown, owed, unqueued, note>>
      BY <2>4 DEF Cat!RefreshStarts, Cat!RefreshFetched, Cat!list
    <3>2. \/ refresh' = [Cat!NoRefresh EXCEPT !.at = "fetching"]
          \/ refresh' = Cat!NoRefresh
          \/ refresh' = [refresh EXCEPT !.at = "fetched", !.got = server]
      <4>1. CASE Cat!RefreshStarts
        BY <4>1 DEF Cat!RefreshStarts
      <4>2. CASE Cat!RefreshFetched
        BY <4>2 DEF Cat!RefreshFetched
      <4>3. QED
        BY <2>4, <4>1, <4>2
    <3>3. /\ refresh' \in [at : {"none", "fetching", "fetched"}, got : 0 .. MaxVersion, moved : BOOLEAN]
          /\ refresh'.got \in {0, server} /\ (refresh'.at = "fetched" => refresh'.got = server)
      <4>1. CASE refresh' = [Cat!NoRefresh EXCEPT !.at = "fetching"]
        BY <1>3, <4>1 DEF Cat!NoRefresh
      <4>2. CASE refresh' = Cat!NoRefresh
        BY <1>3, <4>2 DEF Cat!NoRefresh
      <4>3. CASE refresh' = [refresh EXCEPT !.at = "fetched", !.got = server]
        BY <1>2, <1>3, <4>3
      <4>4. QED
        BY <3>2, <4>1, <4>2, <4>3
    <3>4. QED
      BY <1>2, <1>3, <3>1, <3>3
  <2>5. CASE Cat!RefreshReturns
    <3>1. /\ note' = note /\ refresh' = Cat!NoRefresh
          /\ \/ UNCHANGED <<tools, shown, owed, unqueued>>
             \/ /\ refresh.at = "fetched" /\ ~refresh.moved
                /\ tools' = refresh.got /\ shown' = refresh.got /\ owed' = FALSE /\ unqueued' = unqueued
      BY <2>5 DEF Cat!RefreshReturns, Cat!RefreshSuperseded, Cat!list
    <3>2. /\ refresh' \in [at : {"none", "fetching", "fetched"}, got : 0 .. MaxVersion, moved : BOOLEAN]
          /\ refresh'.got = 0 /\ refresh'.at = "none"
      BY <1>3, <3>1 DEF Cat!NoRefresh
    <3>3. refresh.at = "fetched" /\ ~refresh.moved => refresh.got \in 1 .. MaxVersion
      BY <1>2
    <3>4. QED
      BY <1>2, <1>3, <3>1, <3>2, <3>3
  <2>6. QED
    BY <2>1, <2>2, <2>3, <2>4, <2>5
<1>5. QED
  BY <1>1, <1>4 DEF Cat!CatalogInv, Cat!TypeOK, Cat!ListsFollowServer, Cat!ShownOrOwed, Cat!Version

\* So every step keeps the invariant of the catalog.
LEMMA CatalogKeeps ==
  ASSUME Versioned, Cat!CatalogInv, [Cat!Next]_(Cat!vars)
  PROVE  Cat!CatalogInv'
<1>1. CASE Cat!ServerChanges
  <2>1. /\ server' \in 1 .. MaxVersion /\ server <= server' /\ note' \in {note, 0} /\ server \in 1 .. MaxVersion
    BY <1>1 DEF Cat!ServerChanges, Cat!CatalogInv, Cat!TypeOK, Cat!Version, Versioned
  <2>2. UNCHANGED <<current, up, listen, sub, halted, stale, waiting, wanted, filter, job, tools, shown, owed,
                    unqueued, refresh>>
    BY <1>1 DEF Cat!ServerChanges, Cat!subs, Cat!list
  <2>3. /\ tools <= server' /\ shown <= server' /\ job.got <= server' /\ refresh.got <= server'
        /\ note' \in -1 .. MaxVersion /\ note' <= server'
    <3>1. /\ tools \in Int /\ tools <= server /\ shown \in Int /\ shown <= server /\ note \in Int /\ note <= server
          /\ job.got \in Int /\ job.got <= server /\ refresh.got \in Int /\ refresh.got <= server
          /\ note \in -1 .. MaxVersion
      BY DEF Cat!CatalogInv, Cat!TypeOK, Cat!ListsFollowServer, Cat!Version
    <3>2. \A k \in Int : k <= server => k <= server'
      BY <2>1
    <3>3. 0 \in -1 .. MaxVersion /\ 0 <= server'
      BY <2>1 DEF Versioned
    <3>4. QED
      BY <2>1, <3>1, <3>2, <3>3
  <2>4. QED
    BY <2>1, <2>2, <2>3 DEF Cat!CatalogInv, Cat!TypeOK, Cat!ListsFollowServer, Cat!ShownOrOwed, Cat!Version
<1>2. CASE Cat!Replaced \/ Cat!UpDown
  <2>1. /\ current' \in BOOLEAN /\ up' \in BOOLEAN /\ (current' => current)
        /\ UNCHANGED <<server, listen, sub, halted, stale, waiting, wanted, filter, job, tools, shown, owed,
                       unqueued, refresh, note>>
    BY <1>2 DEF Cat!Replaced, Cat!UpDown, Cat!subs, Cat!list, Cat!CatalogInv, Cat!TypeOK
  <2>2. QED
    BY <2>1 DEF Cat!CatalogInv, Cat!TypeOK, Cat!ListsFollowServer, Cat!ShownOrOwed
<1>3. CASE UNCHANGED Cat!vars
  BY <1>3 DEF Cat!vars, Cat!conn, Cat!subs, Cat!list, Cat!CatalogInv, Cat!TypeOK, Cat!ListsFollowServer,
              Cat!ShownOrOwed
<1>4. QED
  BY <1>1, <1>2, <1>3, ListeningKeeps, ReconcileKeeps, NoticesKeep DEF Cat!Next, Cat!JobStep

\* The configuration is as it was loaded.
LEMMA WatchBegins ==
  ASSUME Watch!Init \/ Watch!Rests(Absent), MaxEdits \in Nat
  PROVE  Watch!WatchInv
<1>1. 0 \in 0 .. MaxEdits
  OBVIOUS
<1>2. Watch!Init => Watch!WatchInv
  BY <1>1 DEF Watch!Init, Watch!Starts, Watch!WatchInv, Watch!TypeOK, Watch!BaselineIsLoaded
<1>3. Watch!Rests(Absent) => Watch!WatchInv
  BY <1>1 DEF Watch!Rests, Watch!WatchInv, Watch!TypeOK, Watch!BaselineIsLoaded
<1>4. QED
  BY <1>2, <1>3

\* So every step keeps the invariant of the watch.
LEMMA WatchKeeps ==
  ASSUME Watch!WatchInv, [Watch!Next]_(Watch!vars), MaxEdits \in Nat
  PROVE  Watch!WatchInv'
<1>1. CASE Watch!Start \/ Watch!StartConfigWatch
  BY <1>1 DEF Watch!Start, Watch!StartConfigWatch, Watch!WatchInv, Watch!TypeOK, Watch!BaselineIsLoaded
<1>2. CASE Watch!CheckNow
  <2>1. /\ warnedDrift' \in BOOLEAN /\ process = "running" /\ process' \in {process, "exiting"}
        /\ UNCHANGED <<disk, edits, loadedConfig, baseline, autoRestart, asked, missed>>
    BY <1>2 DEF Watch!CheckNow, Watch!HasDrift
  <2>2. QED
    BY <2>1 DEF Watch!WatchInv, Watch!TypeOK, Watch!BaselineIsLoaded
<1>3. CASE Watch!Reload \/ Watch!Exit
  BY <1>3 DEF Watch!Reload, Watch!Exit, Watch!WatchInv, Watch!TypeOK, Watch!BaselineIsLoaded
<1>4. CASE Watch!Edit
  <2>1. edits' \in 0 .. MaxEdits
    BY <1>4 DEF Watch!Edit, Watch!WatchInv, Watch!TypeOK
  <2>2. /\ disk' \in Content \cup {Absent} /\ missed' \in BOOLEAN
        /\ process = "loaded" /\ disk' # disk => missed' = TRUE
        /\ missed = TRUE => missed' = TRUE
        /\ UNCHANGED <<process, loadedConfig, baseline, autoRestart, warnedDrift, asked>>
    BY <1>4 DEF Watch!Edit, Watch!WatchInv, Watch!TypeOK
  <2>3. QED
    BY <2>1, <2>2 DEF Watch!WatchInv, Watch!TypeOK, Watch!BaselineIsLoaded
<1>5. CASE UNCHANGED Watch!vars
  BY <1>5 DEF Watch!vars, Watch!WatchInv, Watch!TypeOK, Watch!BaselineIsLoaded
<1>6. QED
  BY <1>1, <1>2, <1>3, <1>4, <1>5 DEF Watch!Next

-----------------------------------------------------------------------------
(* All of them: a behaviour follows one, and the others rest. *)

\* The constants of MCUpkeep are as above.
UpkeepParams == Bounded /\ Identities /\ Versioned /\ MaxEdits \in Nat

\* The maps, the pass, the lists, the tasks and the processes stay well typed, and the inductive
\* invariants of the four parts hold in every behaviour of any of them.
THEOREM UpkeepConsistent ==
  ASSUME UpkeepParams
  PROVE  MCSpec => []UpkeepTypeOK
<1>1. MCInit => UpkeepTypeOK
  <2> SUFFICES ASSUME MCInit PROVE UpkeepTypeOK
    OBVIOUS
  <2>1. IF focus = "keep-alive" THEN IInv ELSE TypeOK
    <3>1. focus = "keep-alive" => Init
      BY DEF MCInit
    <3>2. Init => IInv /\ TypeOK
      BY PassesBegin DEF UpkeepParams, IInv
    <3>3. Starts("stopped") => TypeOK
      <4> SUFFICES ASSUME Starts("stopped") PROVE TypeOK
        OBVIOUS
      <4>1. /\ registered = None /\ route = NoRoute /\ retry = NoRetry /\ pending = FALSE /\ pass = Idle
            /\ signingIn = FALSE /\ up = TRUE /\ phase = "stopped"
        BY DEF Starts
      <4>2. QED
        BY <4>1 DEF TypeOK, NoRoute, NoRetry, Idle, Statuses
    <3>4. QED
      BY <3>1, <3>2, <3>3 DEF MCInit
  <2>2. Cat!CatalogInv
    BY CatalogBegins DEF MCInit, UpkeepParams, Cat!Init
  <2>3. TaskInv
    BY TasksBegin DEF MCInit, UpkeepParams
  <2>4. Watch!WatchInv
    BY WatchBegins DEF MCInit, UpkeepParams
  <2>5. QED
    BY <2>1, <2>2, <2>3, <2>4 DEF UpkeepTypeOK
<1>2. UpkeepTypeOK /\ [MCNext]_<<focus, up, keeping, catalog, taskVars, watch>> => UpkeepTypeOK'
  <2> SUFFICES ASSUME UpkeepTypeOK, [MCNext]_<<focus, up, keeping, catalog, taskVars, watch>>
               PROVE  UpkeepTypeOK'
    OBVIOUS
  <2>1. focus' = focus
    BY DEF MCNext
  <2>2. [TaskNext]_taskVars /\ [Watch!Next]_(Watch!vars)
    BY DEF MCNext, watch, Watch!vars
  <2>3. TaskInv' /\ Watch!WatchInv'
    BY <2>2, NextKeeps, WatchKeeps DEF UpkeepParams, UpkeepTypeOK
  <2>4. CASE focus = "keep-alive"
    <3>1. [Next]_vars
      BY <2>4 DEF MCNext, keeping, vars, reg, env
    <3>2. IInv'
      BY <2>4, <3>1, PassesKeep DEF UpkeepParams, UpkeepTypeOK
    <3>3. UNCHANGED catalog
      BY <2>4 DEF MCNext
    <3>4. Cat!CatalogInv'
      BY <3>2, <3>3 DEF UpkeepTypeOK, IInv, TypeOK, catalog, Cat!CatalogInv, Cat!TypeOK, Cat!ListsFollowServer,
                        Cat!ShownOrOwed
    <3>5. QED
      BY <2>1, <2>3, <2>4, <3>2, <3>4 DEF UpkeepTypeOK
  <2>5. CASE focus # "keep-alive"
    <3>1. [Cat!Next]_(Cat!vars)
      BY <2>5 DEF MCNext, catalog, Cat!vars, Cat!conn, Cat!subs, Cat!list
    <3>2. Cat!CatalogInv'
      BY <3>1, CatalogKeeps DEF UpkeepParams, UpkeepTypeOK
    <3>3. UNCHANGED keeping
      BY <2>5 DEF MCNext
    <3>4. TypeOK'
      BY <2>5, <3>2, <3>3 DEF UpkeepTypeOK, TypeOK, keeping, Cat!CatalogInv, Cat!TypeOK
    <3>5. QED
      BY <2>1, <2>3, <2>5, <3>2, <3>4 DEF UpkeepTypeOK
  <2>6. QED
    BY <2>4, <2>5
<1>3. QED
  BY <1>1, <1>2, PTL DEF MCSpec

\* server-manager.ts: a keep-alive refresh never puts an older list in place of a newer one, and
\* what the model is shown is the connection's list or the publication is owed, unless the
\* listener threw while a subscription recovered.
THEOREM CatalogStaysCurrent ==
  ASSUME UpkeepParams
  PROVE  MCSpec => CatalogIsCurrent
<1> DEFINE A == Cat!RefreshReturns => tools' >= tools
<1>1. UpkeepTypeOK => A
  <2> SUFFICES ASSUME UpkeepTypeOK, Cat!RefreshReturns PROVE tools' >= tools
    OBVIOUS
  <2>1. /\ tools \in 1 .. MaxVersion /\ refresh.got \in 0 .. MaxVersion
        /\ refresh.at = "fetched" /\ ~refresh.moved => tools <= refresh.got
    BY DEF UpkeepTypeOK, Cat!CatalogInv, Cat!TypeOK, Cat!ListsFollowServer, Cat!Version
  <2>2. tools' = tools \/ (tools' = refresh.got /\ ~refresh.moved /\ refresh.at = "fetched")
    BY DEF Cat!RefreshReturns, Cat!RefreshSuperseded, Cat!list
  <2>3. QED
    BY <2>1, <2>2 DEF UpkeepParams, Versioned
<1>2. UpkeepTypeOK => [A]_(Cat!vars)
  BY <1>1
<1>3. UpkeepTypeOK => Cat!ShownOrOwed
  BY DEF UpkeepTypeOK, Cat!CatalogInv
<1>4. MCSpec => [][A]_(Cat!vars)
  BY <1>2, UpkeepConsistent, PTL
<1>5. MCSpec => []Cat!ShownOrOwed
  BY <1>3, UpkeepConsistent, PTL
<1>6. QED
  BY <1>4, <1>5 DEF CatalogIsCurrent, Cat!RefreshKeepsNewer

\* config-watch.ts: the process exits because the user asked for it, or because the files were not
\* what it loaded and it may.
THEOREM OnlyEditsRestart ==
  ASSUME UpkeepParams
  PROVE  MCSpec => RestartsFollowEdits
<1> DEFINE A == process = "running" /\ process' = "exiting" =>
                  asked' \/ (autoRestart /\ (disk # loadedConfig \/ missed))
<1>1. UpkeepTypeOK /\ [MCNext]_<<focus, up, keeping, catalog, taskVars, watch>> => A
  <2> SUFFICES ASSUME UpkeepTypeOK, [MCNext]_<<focus, up, keeping, catalog, taskVars, watch>>,
                      process = "running", process' = "exiting"
               PROVE  asked' \/ (autoRestart /\ (disk # loadedConfig \/ missed))
    OBVIOUS
  <2>1. Watch!Next
    BY DEF MCNext, watch
  <2>2. baseline = loadedConfig \/ missed
    BY DEF UpkeepTypeOK, Watch!WatchInv, Watch!BaselineIsLoaded
  <2>3. QED
    BY <2>1, <2>2 DEF Watch!Next, Watch!Start, Watch!StartConfigWatch, Watch!CheckNow, Watch!Reload, Watch!Exit,
       Watch!Edit, Watch!HasDrift
<1>2. UpkeepTypeOK /\ [MCNext]_<<focus, up, keeping, catalog, taskVars, watch>> => [A]_(Watch!vars)
  BY <1>1
<1>3. MCSpec => [][A]_(Watch!vars)
  BY <1>2, UpkeepConsistent, PTL DEF MCSpec
<1>4. QED
  BY <1>3 DEF RestartsFollowEdits, Watch!NoNeedlessRestart
=============================================================================
