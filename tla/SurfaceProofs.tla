---------------------------- MODULE SurfaceProofs ----------------------------
(***************************************************************************)
(* Theorems about the parts of MCSurface, for any values of its constants. *)
(* A part moves only in the behaviours that follow it, so what Init        *)
(* establishes and a part's own steps preserve holds in every behaviour.   *)
(*                                                                         *)
(* Asks!CallsInv and Pause!PauseInv are the invariants of calls and their  *)
(* clocks.  Ui!UiInv adds to the page invariants what they rest on: a call *)
(* that is still starting has no page, window or notice yet, and the       *)
(* runtime's page is served.  Events!EventsInv adds that the ids in the    *)
(* log are consecutive and end with the latest one, and that a page which  *)
(* has seen the latest checkpoint has everything since, or the checkpoint  *)
(* left the log: pruning drops a prefix and leaves an event at least.      *)
(*                                                                         *)
(* Host!HostInv adds that a call is sent only once the definition is       *)
(* frozen, that a transport in the air belongs to an adapter that may      *)
(* still close it, and that a definition which is no longer the server's   *)
(* is on its way to be noticed.  Proto!ProtocolInv adds that an operation  *)
(* is of a visit and that the pins are as many as the operations which     *)
(* hold one: a step moves one operation in or out of that set.             *)
(*                                                                         *)
(* Cache!CacheInv is about entries on their way to the file: each is sound *)
(* as it will be stored, and one that is written without a race holds what *)
(* the file held when it was read.  Npx!NpxInv says that what a process is *)
(* about to save fits what the file says, so entries name what is held.    *)
(*                                                                         *)
(* SurfaceConsistent brings these together with the invariants of          *)
(* ConsentProofs and SecretsProofs.                                        *)
(***************************************************************************)
EXTENDS ConsentProofs, SecretsProofs

-----------------------------------------------------------------------------
(* TaskCalls *)

\* No call has been made yet.
LEMMA CallsBegin == Asks!Init => Asks!CallsInv
BY DEF Asks!Init, Asks!NoCaller, Asks!CallsInv, Asks!TypeOK, Asks!NoTaskForNobody, Asks!Consistent

\* A step of one caller leaves what the others' invariant reads alone.
LEMMA OneCaller ==
  ASSUME Asks!CallsInv, NEW a \in Ask, up' = up, Asks!TypeOK', Asks!Consistent(a)',
         up /\ remote'[a] = "working" /\ wire'[a] = "none" =>
           \/ cancelled'[a] \/ expired'[a] \/ caller'[a].pc = "handed"
           \/ caller'[a].pc \in {"settling", "background"} /\ ~caller'[a].aborted,
         \A b \in Ask \ {a} :
           /\ caller'[b] = caller[b] /\ awaited'[b] = awaited[b] /\ wire'[b] = wire[b]
           /\ remote'[b] = remote[b] /\ cancelled'[b] = cancelled[b] /\ expired'[b] = expired[b]
  PROVE  Asks!CallsInv'
BY DEF Asks!CallsInv, Asks!NoTaskForNobody, Asks!Consistent

\* What Goes, Gives and an abort make of a caller's record.
LEMMA CallerGoes ==
  ASSUME Asks!TypeOK, NEW a \in Ask, Asks!Goes(a, "over") \/ Asks!Goes(a, "handed")
           \/ Asks!Goes(a, "settling") \/ Asks!Goes(a, "background")
  PROVE  /\ caller' \in [Ask -> [pc : {"idle", "calling", "handed", "settling", "background", "over"},
                                 aborted : BOOLEAN, background : BOOLEAN]]
         /\ \A to \in {"over", "handed", "settling", "background"} : Asks!Goes(a, to) => caller'[a].pc = to
         /\ caller'[a].aborted = caller[a].aborted /\ \A b \in Ask \ {a} : caller'[b] = caller[b]
BY DEF Asks!TypeOK, Asks!Goes

\* The caller gets its answer, or goes away.
LEMMA CallerGets ==
  ASSUME Asks!TypeOK, NEW a \in Ask, NEW v \in {"none", "result", "task", "error"}, Asks!Gives(a, v)
  PROVE  gave' \in [Ask -> {"none", "result", "task", "error"}]
BY DEF Asks!TypeOK, Asks!Gives

\* The caller aborts its call.
LEMMA CallerAborts ==
  ASSUME Asks!CallsInv, NEW a \in Ask, Asks!Abort(a)
  PROVE  /\ Asks!TypeOK' /\ caller'[a].aborted = TRUE /\ \A b \in Ask \ {a} : caller'[b] = caller[b]
         /\ caller'[a].pc = IF caller[a].pc = "calling" THEN "over" ELSE caller[a].pc
<1> DEFINE Fields == [pc : {"idle", "calling", "handed", "settling", "background", "over"},
                      aborted : BOOLEAN, background : BOOLEAN]
           now == IF caller[a].pc = "calling" THEN [caller[a] EXCEPT !.aborted = TRUE, !.pc = "over"]
                  ELSE [caller[a] EXCEPT !.aborted = TRUE]
<1>1. caller \in [Ask -> Fields] /\ caller[a] \in Fields
  BY DEF Asks!CallsInv, Asks!TypeOK
<1>2. /\ now \in Fields /\ now.aborted = TRUE
      /\ now.pc = IF caller[a].pc = "calling" THEN "over" ELSE caller[a].pc
  BY <1>1
<1>3. caller' = [caller EXCEPT ![a] = now]
  BY <1>1 DEF Asks!Abort
<1>4. caller' \in [Ask -> Fields] /\ caller'[a] = now /\ \A b \in Ask \ {a} : caller'[b] = caller[b]
  <2> HIDE DEF Fields, now
  <2> QED
    BY <1>1, <1>2, <1>3
<1>5. gave' \in [Ask -> {"none", "result", "task", "error"}]
  <2>1. CASE caller[a].pc = "calling"
    BY <2>1, CallerGets DEF Asks!Abort, Asks!StopWaiting, Asks!CallsInv
  <2>2. CASE caller[a].pc # "calling"
    BY <2>2 DEF Asks!Abort, Asks!CallsInv, Asks!TypeOK
  <2>3. QED
    BY <2>1, <2>2
<1>6. awaited' \in [Ask -> {"none", "pending", "observing"}]
  BY DEF Asks!Abort, Asks!StopWaiting, Asks!CallsInv, Asks!TypeOK
<1>7. cancelled' \in [Ask -> BOOLEAN] /\ UNCHANGED <<up, wire, remote, expired>>
  BY DEF Asks!Abort, Asks!CallsInv, Asks!TypeOK
<1>8. Asks!TypeOK'
  BY <1>4, <1>5, <1>6, <1>7 DEF Asks!CallsInv, Asks!TypeOK
<1>9. QED
  BY <1>2, <1>4, <1>8

\* So every step keeps CallsInv.
LEMMA CallsKeep ==
  ASSUME Asks!CallsInv, Asks!Next \/ UNCHANGED asks
  PROVE  Asks!CallsInv'
<1> DEFINE Fields == [pc : {"idle", "calling", "handed", "settling", "background", "over"},
                      aborted : BOOLEAN, background : BOOLEAN]
<1>0. /\ up \in BOOLEAN /\ caller \in [Ask -> Fields]
      /\ awaited \in [Ask -> {"none", "pending", "observing"}]
      /\ wire \in [Ask -> {"none", "asked", "result", "task"}]
      /\ remote \in [Ask -> {"none", "working", "ended"}]
      /\ cancelled \in [Ask -> BOOLEAN] /\ expired \in [Ask -> BOOLEAN]
      /\ gave \in [Ask -> {"none", "result", "task", "error"}]
      /\ \A a \in Ask : Asks!Consistent(a)
  BY DEF Asks!CallsInv, Asks!TypeOK
<1>a. ASSUME NEW a \in Ask PROVE caller[a].pc \in {"idle", "calling", "handed", "settling", "background", "over"}
                             /\ caller[a].aborted \in BOOLEAN /\ caller[a].background \in BOOLEAN
                             /\ caller[a] \in Fields
  BY <1>0
<1>1. ASSUME NEW a \in Ask, NEW b \in BOOLEAN, Asks!Send(a, b) PROVE Asks!CallsInv'
  <2>1. Asks!TypeOK'
    BY <1>0, <1>1 DEF Asks!Send, Asks!TypeOK
  <2>2. Asks!Consistent(a)'
    BY <1>0, <1>1, <1>a DEF Asks!Send, Asks!Consistent
  <2>3. QED
    BY <1>0, <1>1, <2>1, <2>2, OneCaller DEF Asks!Send
<1>2. ASSUME NEW a \in Ask, Asks!ServerAnswers(a) PROVE Asks!CallsInv'
  <2>1. Asks!TypeOK'
    BY <1>0, <1>2 DEF Asks!ServerAnswers, Asks!TypeOK
  <2>2. Asks!Consistent(a)'
    BY <1>0, <1>2, <1>a DEF Asks!ServerAnswers, Asks!Consistent
  <2>3. QED
    BY <1>0, <1>2, <2>1, <2>2, OneCaller DEF Asks!ServerAnswers
<1>3. ASSUME NEW a \in Ask, Asks!ServerStartsTask(a) PROVE Asks!CallsInv'
  <2>1. Asks!TypeOK'
    BY <1>0, <1>3 DEF Asks!ServerStartsTask, Asks!TypeOK
  <2>2. Asks!Consistent(a)'
    BY <1>0, <1>3, <1>a DEF Asks!ServerStartsTask, Asks!Consistent
  <2>3. QED
    BY <1>0, <1>3, <2>1, <2>2, OneCaller DEF Asks!ServerStartsTask
<1>4. ASSUME NEW a \in Ask, Asks!Arrives(a) PROVE Asks!CallsInv'
  <2>1. /\ wire' \in [Ask -> {"none", "asked", "result", "task"}] /\ wire'[a] = "none"
        /\ awaited' \in [Ask -> {"none", "pending", "observing"}] /\ awaited'[a] = "none"
        /\ cancelled' \in [Ask -> BOOLEAN]
        /\ cancelled'[a] = (cancelled[a] \/ (awaited[a] = "observing" /\ wire[a] = "task"))
        /\ \A b \in Ask \ {a} : /\ wire'[b] = wire[b] /\ awaited'[b] = awaited[b]
                                /\ cancelled'[b] = cancelled[b]
        /\ UNCHANGED <<up, remote, expired>> /\ up /\ wire[a] \in {"result", "task"}
    BY <1>0, <1>4 DEF Asks!Arrives
  <2>2. CASE awaited[a] # "pending"
    <3>1. UNCHANGED <<caller, gave>>
      BY <1>4, <2>2 DEF Asks!Arrives
    <3>2. Asks!TypeOK' /\ Asks!Consistent(a)'
      BY <1>0, <1>a, <2>1, <2>2, <3>1 DEF Asks!TypeOK, Asks!Consistent
    <3>3. QED
      BY <1>0, <1>a, <2>1, <2>2, <3>1, <3>2, OneCaller DEF Asks!Consistent
  <2>3. CASE awaited[a] = "pending" /\ wire[a] = "task"
    <3>1. Asks!Goes(a, "handed") /\ UNCHANGED gave
      BY <1>4, <2>3 DEF Asks!Arrives
    <3>2. /\ caller' \in [Ask -> Fields] /\ caller'[a].pc = "handed"
          /\ \A b \in Ask \ {a} : caller'[b] = caller[b]
      BY <3>1, CallerGoes DEF Asks!CallsInv
    <3>3. Asks!TypeOK' /\ Asks!Consistent(a)'
      BY <1>0, <1>a, <2>1, <2>3, <3>1, <3>2 DEF Asks!TypeOK, Asks!Consistent
    <3>4. QED
      BY <2>1, <3>2, <3>3, OneCaller
  <2>4. CASE awaited[a] = "pending" /\ wire[a] # "task"
    <3>1. Asks!Goes(a, "over") /\ Asks!Gives(a, "result")
      BY <1>4, <2>4 DEF Asks!Arrives
    <3>2. /\ caller' \in [Ask -> Fields] /\ caller'[a].pc = "over"
          /\ \A b \in Ask \ {a} : caller'[b] = caller[b]
          /\ gave' \in [Ask -> {"none", "result", "task", "error"}]
      BY <3>1, CallerGoes, CallerGets DEF Asks!CallsInv
    <3>3. Asks!TypeOK' /\ Asks!Consistent(a)'
      BY <1>0, <1>a, <2>1, <2>4, <3>2 DEF Asks!TypeOK, Asks!Consistent
    <3>4. remote[a] = "none"
      BY <1>0, <2>1, <2>4 DEF Asks!Consistent
    <3>5. QED
      BY <2>1, <3>2, <3>3, <3>4, OneCaller
  <2>5. QED
    BY <2>2, <2>3, <2>4
<1>5. ASSUME NEW a \in Ask, Asks!TimesOut(a) PROVE Asks!CallsInv'
  <2>1. Asks!TypeOK'
    BY <1>0, <1>5, <1>a DEF Asks!TimesOut, Asks!Goes, Asks!Gives, Asks!StopWaiting, Asks!TypeOK
  <2>2. Asks!Consistent(a)'
    BY <1>0, <1>5, <1>a DEF Asks!TimesOut, Asks!Goes, Asks!Gives, Asks!StopWaiting, Asks!Consistent
  <2>3. QED
    BY <1>0, <1>5, <1>a, <2>1, <2>2, OneCaller DEF Asks!TimesOut, Asks!Goes, Asks!Gives, Asks!StopWaiting, Asks!CallsInv, Asks!NoTaskForNobody, Asks!Consistent
<1>6. ASSUME NEW a \in Ask, Asks!Abort(a) PROVE Asks!CallsInv'
  <2>1. /\ Asks!TypeOK' /\ caller'[a].aborted = TRUE /\ \A b \in Ask \ {a} : caller'[b] = caller[b]
        /\ caller'[a].pc = IF caller[a].pc = "calling" THEN "over" ELSE caller[a].pc
    BY <1>6, CallerAborts
  <2>2. /\ awaited'[a] = IF caller[a].pc = "calling" THEN "observing" ELSE awaited[a]
        /\ cancelled'[a] = (cancelled[a] \/ (caller[a].pc = "settling" /\ up))
        /\ \A b \in Ask \ {a} : awaited'[b] = awaited[b] /\ cancelled'[b] = cancelled[b]
        /\ UNCHANGED <<up, wire, remote, expired>> /\ caller[a].pc \in {"calling", "handed", "settling"}
    BY <1>0, <1>6 DEF Asks!Abort, Asks!StopWaiting
  <2>3. Asks!Consistent(a)'
    BY <1>0, <1>a, <2>1, <2>2 DEF Asks!Consistent
  <2>4. QED
    BY <1>0, <1>a, <2>1, <2>2, <2>3, OneCaller DEF Asks!Consistent
<1>7. ASSUME NEW a \in Ask, Asks!GraceEnds(a) PROVE Asks!CallsInv'
  <2>1. Asks!TypeOK'
    BY <1>0, <1>7, <1>a DEF Asks!GraceEnds, Asks!TypeOK
  <2>2. Asks!Consistent(a)'
    BY <1>0, <1>7, <1>a DEF Asks!GraceEnds, Asks!Consistent
  <2>3. QED
    BY <1>0, <1>7, <1>a, <2>1, <2>2, OneCaller DEF Asks!GraceEnds, Asks!CallsInv, Asks!NoTaskForNobody, Asks!Consistent
<1>8. ASSUME NEW a \in Ask, Asks!Continues(a) PROVE Asks!CallsInv'
  <2>1. /\ caller[a].pc = "handed" /\ UNCHANGED <<up, awaited, wire, remote, expired>>
    BY <1>8 DEF Asks!Continues
  <2>2. CASE caller[a].background /\ ~caller[a].aborted
    <3>1. Asks!Goes(a, "background") /\ Asks!Gives(a, "task") /\ UNCHANGED cancelled
      BY <1>8, <2>2 DEF Asks!Continues
    <3>2. /\ caller' \in [Ask -> Fields] /\ caller'[a].pc = "background"
          /\ caller'[a].aborted = caller[a].aborted /\ \A b \in Ask \ {a} : caller'[b] = caller[b]
          /\ gave' \in [Ask -> {"none", "result", "task", "error"}]
      BY <3>1, CallerGoes, CallerGets DEF Asks!CallsInv
    <3>3. Asks!TypeOK' /\ Asks!Consistent(a)'
      BY <1>0, <1>a, <2>1, <2>2, <3>1, <3>2 DEF Asks!TypeOK, Asks!Consistent
    <3>4. QED
      BY <2>1, <2>2, <3>1, <3>2, <3>3, OneCaller
  <2>3. CASE ~(caller[a].background /\ ~caller[a].aborted)
    <3>1. Asks!Goes(a, "settling") /\ UNCHANGED gave
      BY <1>8, <2>3 DEF Asks!Continues
    <3>2. /\ caller' \in [Ask -> Fields] /\ caller'[a].pc = "settling"
          /\ caller'[a].aborted = caller[a].aborted /\ \A b \in Ask \ {a} : caller'[b] = caller[b]
      BY <3>1, CallerGoes DEF Asks!CallsInv
    <3>3. /\ cancelled' \in [Ask -> BOOLEAN] /\ cancelled'[a] = (cancelled[a] \/ (caller[a].aborted /\ up))
          /\ \A b \in Ask \ {a} : cancelled'[b] = cancelled[b]
      BY <1>0, <1>8, <2>3 DEF Asks!Continues
    <3>4. Asks!TypeOK' /\ Asks!Consistent(a)'
      BY <1>0, <1>a, <2>1, <3>1, <3>2, <3>3 DEF Asks!TypeOK, Asks!Consistent
    <3>5. QED
      BY <1>0, <1>a, <2>1, <3>2, <3>3, <3>4, OneCaller DEF Asks!Consistent
  <2>4. QED
    BY <2>2, <2>3
<1>9. ASSUME NEW a \in Ask, Asks!TaskEnds(a) PROVE Asks!CallsInv'
  <2>1. Asks!TypeOK'
    BY <1>0, <1>9, <1>a DEF Asks!TaskEnds, Asks!TypeOK
  <2>2. Asks!Consistent(a)'
    BY <1>0, <1>9, <1>a DEF Asks!TaskEnds, Asks!Consistent
  <2>3. QED
    BY <1>0, <1>9, <1>a, <2>1, <2>2, OneCaller DEF Asks!TaskEnds, Asks!CallsInv, Asks!NoTaskForNobody, Asks!Consistent
<1>10. ASSUME NEW a \in Ask, Asks!Settles(a) PROVE Asks!CallsInv'
  <2>1. /\ caller[a].pc = "settling" /\ UNCHANGED <<up, awaited, wire, remote, cancelled, expired>>
        /\ Asks!Goes(a, "over") /\ (remote[a] = "ended" \/ caller[a].aborted)
        /\ Asks!Gives(a, "result") \/ Asks!Gives(a, "error")
    BY <1>10 DEF Asks!Settles, Asks!Leaves
  <2>2. /\ caller' \in [Ask -> Fields] /\ caller'[a].pc = "over"
        /\ \A b \in Ask \ {a} : caller'[b] = caller[b]
        /\ gave' \in [Ask -> {"none", "result", "task", "error"}]
    BY <2>1, CallerGoes, CallerGets DEF Asks!CallsInv
  <2>3. Asks!TypeOK' /\ Asks!Consistent(a)'
    BY <1>0, <1>a, <2>1, <2>2 DEF Asks!TypeOK, Asks!Consistent
  <2>4. QED
    BY <1>0, <1>a, <2>1, <2>2, <2>3, OneCaller DEF Asks!Consistent
<1>11. ASSUME NEW a \in Ask, Asks!Followed(a) PROVE Asks!CallsInv'
  <2>1. Asks!TypeOK'
    BY <1>0, <1>11, <1>a DEF Asks!Followed, Asks!Goes, Asks!TypeOK
  <2>2. Asks!Consistent(a)'
    BY <1>0, <1>11, <1>a DEF Asks!Followed, Asks!Goes, Asks!Consistent
  <2>3. QED
    BY <1>0, <1>11, <1>a, <2>1, <2>2, OneCaller DEF Asks!Followed, Asks!Goes, Asks!CallsInv, Asks!NoTaskForNobody, Asks!Consistent
<1>12. ASSUME NEW a \in Ask, Asks!Forgotten(a) PROVE Asks!CallsInv'
  <2>1. Asks!TypeOK'
    BY <1>0, <1>12, <1>a DEF Asks!Forgotten, Asks!NoCaller, Asks!TypeOK
  <2>2. Asks!Consistent(a)'
    BY <1>0, <1>12, <1>a DEF Asks!Forgotten, Asks!NoCaller, Asks!Consistent
  <2>3. QED
    BY <1>0, <1>12, <1>a, <2>1, <2>2, OneCaller DEF Asks!Forgotten, Asks!NoCaller, Asks!CallsInv, Asks!NoTaskForNobody, Asks!Consistent
<1>13. ASSUME Asks!Closes PROVE Asks!CallsInv'
  <2> DEFINE left(a) == IF caller[a].pc \in {"idle", "over"} THEN caller[a]
                        ELSE [caller[a] EXCEPT !.pc = "over"]
  <2>1. /\ up' = FALSE /\ awaited' = [a \in Ask |-> "none"] /\ wire' = [a \in Ask |-> "none"]
        /\ caller' = [a \in Ask |-> left(a)] /\ UNCHANGED <<remote, cancelled, expired>>
    BY <1>13 DEF Asks!Closes
  <2>2. gave' \in [Ask -> {"none", "result", "task", "error"}]
    BY <1>0, <1>13 DEF Asks!Closes
  <2>3. ASSUME NEW a \in Ask
        PROVE  /\ left(a) \in Fields /\ left(a).pc \in {"idle", "over"}
               /\ left(a).pc = "idle" => caller[a].pc = "idle"
    BY <1>a
  <2>4. /\ caller' \in [Ask -> Fields]
        /\ \A a \in Ask : /\ caller'[a].pc \in {"idle", "over"}
                         /\ caller'[a].pc = "idle" => caller[a].pc = "idle"
    <3> HIDE DEF left, Fields
    <3> QED
      BY <2>1, <2>3
  <2>5. Asks!TypeOK'
    BY <1>0, <2>1, <2>2, <2>4 DEF Asks!TypeOK
  <2>6. ASSUME NEW a \in Ask PROVE Asks!Consistent(a)'
    BY <1>0, <2>1, <2>4 DEF Asks!Consistent
  <2>7. QED
    BY <2>1, <2>5, <2>6 DEF Asks!CallsInv, Asks!NoTaskForNobody
<1>14. ASSUME Asks!Reopens PROVE Asks!CallsInv'
  BY <1>0, <1>14, <1>a DEF Asks!Reopens, Asks!CallsInv, Asks!TypeOK, Asks!NoTaskForNobody, Asks!Consistent
<1>15. ASSUME UNCHANGED asks PROVE Asks!CallsInv'
  BY <1>15 DEF asks, Asks!CallsInv, Asks!TypeOK, Asks!NoTaskForNobody, Asks!Consistent
<1> QED
  BY <1>1, <1>2, <1>3, <1>4, <1>5, <1>6, <1>7, <1>8, <1>9, <1>10, <1>11, <1>12, <1>13, <1>14, <1>15 DEF Asks!Next

-----------------------------------------------------------------------------
(* PromptPause *)

Clocks == [pc : {"idle", "flight", "expired"}, remaining : 0..Limit, timer : 0..Limit \cup {None}]

\* The clock runs and no prompt is shown.
LEMMA PauseBegins ==
  ASSUME Limit \in Nat, Pause!Init
  PROVE  Pause!PauseInv
BY DEF Pause!Init, Pause!NoClock, Pause!PauseInv, Pause!TypeOK, Pause!Measured

\* The clocks after pause() and resume().
LEMMA ClockPauses ==
  ASSUME NEW k \in Clocks
  PROVE  /\ Pause!Paused(k) \in Clocks /\ Pause!Paused(k).pc = k.pc /\ Pause!Paused(k).timer = None
         /\ Pause!Paused(k).remaining = IF k.timer = None THEN k.remaining ELSE k.timer
<1>1. CASE k.timer = None
  BY <1>1 DEF Pause!Paused, Clocks
<1>2. CASE k.timer # None
  <2>1. Pause!Paused(k) = [k EXCEPT !.timer = None, !.remaining = k.timer]
    BY <1>2 DEF Pause!Paused
  <2>2. k.timer \in 0..Limit
    BY <1>2 DEF Clocks
  <2>3. QED
    BY <1>2, <2>1, <2>2 DEF Clocks
<1>3. QED
  BY <1>1, <1>2

\* The last prompt closes: the clock starts anew.
LEMMA ClockResumes ==
  ASSUME NEW k \in Clocks
  PROVE  /\ Pause!Resumed(k) \in Clocks /\ Pause!Resumed(k).pc = k.pc
         /\ Pause!Resumed(k).timer = k.remaining /\ Pause!Resumed(k).remaining = k.remaining
BY DEF Pause!Resumed, Clocks

\* A step of one call's clock, which the history counts too.
LEMMA OneClock ==
  ASSUME Pause!PauseInv, NEW c \in Call, NEW k \in Clocks, NEW w \in 0..Limit + 1,
         clock' = [clock EXCEPT ![c] = k], waited' = [waited EXCEPT ![c] = w], UNCHANGED showing,
         k.pc = "idle" => k.timer = None /\ w = 0,
         k.pc = "expired" => k.timer = None /\ w = Limit,
         k.pc = "flight" => /\ k.timer = None <=> showing # {}
                            /\ w + (IF k.timer = None THEN k.remaining ELSE k.timer) = Limit
  PROVE  Pause!PauseInv'
<1>1. Pause!TypeOK'
  BY DEF Pause!PauseInv, Pause!TypeOK, Clocks
<1>2. ASSUME NEW d \in Call PROVE Pause!Measured(d)'
  <2>1. CASE d = c
    <3>1. clock'[d] = k /\ waited'[d] = w
      BY <2>1 DEF Pause!PauseInv, Pause!TypeOK
    <3>2. QED
      BY <3>1 DEF Pause!Measured
  <2>2. CASE d # c
    <3>1. clock'[d] = clock[d] /\ waited'[d] = waited[d]
      BY <2>2 DEF Pause!PauseInv, Pause!TypeOK
    <3>2. QED
      BY <3>1 DEF Pause!PauseInv, Pause!Measured
  <2>3. QED
    BY <2>1, <2>2
<1>3. QED
  BY <1>1, <1>2 DEF Pause!PauseInv

\* So every step keeps PauseInv.
LEMMA PauseKeeps ==
  ASSUME Limit \in Nat, None \notin Nat, Pause!PauseInv, Pause!Next \/ UNCHANGED prompts
  PROVE  Pause!PauseInv'
<1>0. /\ clock \in [Call -> Clocks] /\ showing \subseteq Prompt /\ waited \in [Call -> 0..Limit + 1]
      /\ \A c \in Call : Pause!Measured(c)
  BY DEF Pause!PauseInv, Pause!TypeOK, Clocks
<1>a. Pause!NoClock \in Clocks /\ Pause!NoClock.pc = "idle" /\ Pause!NoClock.timer = None
      /\ Pause!NoClock.remaining = Limit
  BY DEF Pause!NoClock, Clocks
<1>b. ASSUME NEW c \in Call
      PROVE  /\ clock[c] \in Clocks /\ clock[c].pc \in {"idle", "flight", "expired"}
             /\ clock[c].remaining \in 0..Limit /\ clock[c].timer \in 0..Limit \cup {None}
             /\ waited[c] \in 0..Limit + 1 /\ Pause!Measured(c)
  BY <1>0 DEF Clocks
<1>c. 0 \in 0..Limit + 1 /\ Limit \in 0..Limit + 1 /\ Limit # None /\ 0 + Limit = Limit
  OBVIOUS
<1>1. ASSUME NEW c \in Call, Pause!Begin(c) PROVE Pause!PauseInv'
  <2> DEFINE k == [Pause!NoClock EXCEPT !.pc = "flight"]
             now == IF showing = {} THEN Pause!Resumed(k) ELSE k
  <2>1. k \in Clocks /\ k.pc = "flight" /\ k.timer = None /\ k.remaining = Limit
    BY DEF Pause!NoClock, Clocks
  <2> HIDE DEF k
  <2>2. now \in Clocks /\ now.pc = "flight" /\ now.remaining = Limit
        /\ now.timer = IF showing = {} THEN Limit ELSE None
    BY <2>1, ClockResumes
  <2>3. clock' = [clock EXCEPT ![c] = now] /\ waited' = [waited EXCEPT ![c] = 0] /\ UNCHANGED showing
    <3>1. waited[c] = 0
      BY <1>1, <1>b DEF Pause!Begin, Pause!Measured
    <3>2. QED
      BY <1>0, <1>1, <3>1 DEF Pause!Begin, k
  <2> HIDE DEF now
  <2>4. QED
    BY <1>c, <2>2, <2>3, OneClock
<1>2. ASSUME NEW c \in Call, Pause!Progress(c) PROVE Pause!PauseInv'
  <2> DEFINE k == [Pause!Paused(clock[c]) EXCEPT !.remaining = Limit]
             now == IF clock[c].timer = None THEN k ELSE Pause!Resumed(k)
  <2>1. k \in Clocks /\ k.pc = "flight" /\ k.timer = None /\ k.remaining = Limit
    <3>1. clock[c] \in Clocks /\ clock[c].pc = "flight"
      BY <1>2, <1>b DEF Pause!Progress, Pause!InFlight
    <3>2. QED
      BY <3>1, ClockPauses DEF Clocks
  <2>2. now \in Clocks /\ now.pc = "flight" /\ now.remaining = Limit
        /\ now.timer = IF clock[c].timer = None THEN None ELSE Limit
    BY <2>1, ClockResumes
  <2>3. clock' = [clock EXCEPT ![c] = now] /\ waited' = [waited EXCEPT ![c] = 0] /\ UNCHANGED showing
    BY <1>2 DEF Pause!Progress
  <2>4. clock[c].timer = None <=> showing # {}
    BY <1>2, <1>b DEF Pause!Progress, Pause!InFlight, Pause!Measured
  <2> HIDE DEF k, now
  <2>5. QED
    BY <1>c, <2>2, <2>3, <2>4, OneClock
<1>3. ASSUME NEW c \in Call, Pause!Settle(c) PROVE Pause!PauseInv'
  BY <1>3, <1>a, <1>c, OneClock DEF Pause!Settle
<1>4. ASSUME NEW c \in Call, Pause!Expire(c) PROVE Pause!PauseInv'
  <2> DEFINE now == [Pause!NoClock EXCEPT !.pc = "expired"]
  <2>1. now \in Clocks /\ now.pc = "expired" /\ now.timer = None
    BY DEF Pause!NoClock, Clocks
  <2>2. waited[c] = Limit
    BY <1>4, <1>b DEF Pause!Expire, Pause!InFlight, Pause!Measured
  <2>3. clock' = [clock EXCEPT ![c] = now] /\ waited' = [waited EXCEPT ![c] = Limit] /\ UNCHANGED showing
    BY <1>0, <1>4, <2>2 DEF Pause!Expire
  <2> HIDE DEF now
  <2>4. QED
    BY <1>c, <2>1, <2>3, OneClock
<1>5. ASSUME NEW p \in Prompt, Pause!Show(p) PROVE Pause!PauseInv'
  <2> DEFINE now(c) == IF clock[c].pc = "flight" /\ showing = {} THEN Pause!Paused(clock[c]) ELSE clock[c]
  <2>1. /\ clock' = [c \in Call |-> now(c)] /\ UNCHANGED waited
        /\ showing' = showing \cup {p} /\ showing' # {} /\ showing' \subseteq Prompt
    BY <1>0, <1>5 DEF Pause!Show, Pause!InFlight
  <2>2. ASSUME NEW c \in Call PROVE now(c) \in Clocks /\ now(c).pc = clock[c].pc /\ Pause!Measured(c)'
    <3>1. CASE clock[c].pc = "flight" /\ showing = {}
      <4>1. /\ now(c) \in Clocks /\ now(c).pc = "flight" /\ now(c).timer = None
            /\ now(c).remaining = IF clock[c].timer = None THEN clock[c].remaining ELSE clock[c].timer
        BY <1>b, <3>1, ClockPauses
      <4>2. clock'[c] = now(c) /\ waited'[c] = waited[c]
        BY <2>1
      <4> HIDE DEF now
      <4>3. QED
        BY <1>b, <2>1, <3>1, <4>1, <4>2 DEF Pause!Measured
    <3>2. CASE ~(clock[c].pc = "flight" /\ showing = {})
      <4>1. now(c) = clock[c] /\ clock'[c] = clock[c] /\ waited'[c] = waited[c]
        BY <2>1, <3>2
      <4> HIDE DEF now
      <4>2. QED
        BY <1>b, <2>1, <3>2, <4>1 DEF Pause!Measured
    <3>3. QED
      BY <3>1, <3>2
  <2> HIDE DEF now
  <2>3. Pause!TypeOK'
    BY <1>0, <2>1, <2>2 DEF Pause!TypeOK, Clocks
  <2>4. QED
    BY <2>2, <2>3 DEF Pause!PauseInv
<1>6. ASSUME NEW p \in Prompt, Pause!Hide(p) PROVE Pause!PauseInv'
  <2> DEFINE now(c) == IF clock[c].pc = "flight" /\ showing \ {p} = {} THEN Pause!Resumed(clock[c])
                       ELSE clock[c]
  <2>1. /\ clock' = [c \in Call |-> now(c)] /\ UNCHANGED waited
        /\ showing' = showing \ {p} /\ showing # {} /\ showing' \subseteq Prompt
    BY <1>0, <1>6 DEF Pause!Hide, Pause!InFlight
  <2>2. ASSUME NEW c \in Call PROVE now(c) \in Clocks /\ now(c).pc = clock[c].pc /\ Pause!Measured(c)'
    <3>1. CASE clock[c].pc = "flight" /\ showing \ {p} = {}
      <4>1. /\ now(c) \in Clocks /\ now(c).pc = "flight" /\ now(c).timer = clock[c].remaining
            /\ now(c).remaining = clock[c].remaining
        BY <1>b, <3>1, ClockResumes
      <4>2. clock'[c] = now(c) /\ waited'[c] = waited[c]
        BY <2>1
      <4>3. clock[c].remaining # None
        BY <1>b
      <4> HIDE DEF now
      <4>4. QED
        BY <1>b, <2>1, <3>1, <4>1, <4>2, <4>3 DEF Pause!Measured
    <3>2. CASE ~(clock[c].pc = "flight" /\ showing \ {p} = {})
      <4>1. now(c) = clock[c] /\ clock'[c] = clock[c] /\ waited'[c] = waited[c]
        BY <2>1, <3>2
      <4> HIDE DEF now
      <4>2. QED
        BY <1>b, <2>1, <3>2, <4>1 DEF Pause!Measured
    <3>3. QED
      BY <3>1, <3>2
  <2> HIDE DEF now
  <2>3. Pause!TypeOK'
    BY <1>0, <2>1, <2>2 DEF Pause!TypeOK, Clocks
  <2>4. QED
    BY <2>2, <2>3 DEF Pause!PauseInv
<1>7. ASSUME Pause!Tick PROVE Pause!PauseInv'
  <2> DEFINE now(c)  == IF clock[c].timer = None THEN clock[c] ELSE [clock[c] EXCEPT !.timer = @ - 1]
             then(c) == IF clock[c].pc = "flight" /\ showing = {} THEN waited[c] + 1 ELSE waited[c]
  <2>1. /\ clock' = [c \in Call |-> now(c)] /\ waited' = [c \in Call |-> then(c)] /\ UNCHANGED showing
    BY <1>7 DEF Pause!Tick, Pause!InFlight
  <2>2. ASSUME NEW c \in Call
        PROVE  now(c) \in Clocks /\ then(c) \in 0..Limit + 1 /\ Pause!Measured(c)'
    <3>1. CASE clock[c].timer = None
      <4>1. then(c) = waited[c]
        BY <1>b, <3>1 DEF Pause!Measured
      <4>2. now(c) = clock[c] /\ clock'[c] = clock[c] /\ waited'[c] = waited[c]
        BY <2>1, <3>1, <4>1
      <4> HIDE DEF now, then
      <4>3. QED
        BY <1>b, <2>1, <4>1, <4>2 DEF Pause!Measured
    <3>2. CASE clock[c].timer # None
      <4>1. /\ clock[c].pc = "flight" /\ showing = {}
            /\ waited[c] + clock[c].timer = Limit /\ clock[c].timer \in 0..Limit
        BY <1>b, <3>2 DEF Pause!Measured
      <4>2. clock[c].timer # 0
        BY <1>7, <4>1 DEF Pause!Tick, Pause!InFlight
      <4>3. clock[c].timer - 1 \in 0..Limit /\ clock[c].timer - 1 # None
        BY <4>1, <4>2
      <4>4. now(c) = [clock[c] EXCEPT !.timer = clock[c].timer - 1] /\ then(c) = waited[c] + 1
        BY <3>2, <4>1
      <4>5. /\ now(c) \in Clocks /\ now(c).pc = "flight" /\ now(c).timer = clock[c].timer - 1
        BY <1>b, <4>1, <4>3, <4>4 DEF Clocks
      <4>6. then(c) \in 0..Limit + 1
        BY <1>b, <4>1, <4>2, <4>4
      <4>7. clock'[c] = now(c) /\ waited'[c] = then(c)
        BY <2>1
      <4>8. then(c) + now(c).timer = Limit
        BY <1>b, <4>1, <4>4, <4>5
      <4> HIDE DEF now, then
      <4>9. Pause!Measured(c)'
        BY <2>1, <4>1, <4>3, <4>5, <4>7, <4>8 DEF Pause!Measured
      <4>10. QED
        BY <4>5, <4>6, <4>9
    <3>3. QED
      BY <3>1, <3>2
  <2> HIDE DEF now, then
  <2>3. Pause!TypeOK'
    BY <1>0, <2>1, <2>2 DEF Pause!TypeOK, Clocks
  <2>4. QED
    BY <2>2, <2>3 DEF Pause!PauseInv
<1>8. ASSUME UNCHANGED prompts PROVE Pause!PauseInv'
  BY <1>8 DEF prompts, Pause!PauseInv, Pause!TypeOK, Pause!Measured
<1> QED
  BY <1>1, <1>2, <1>3, <1>4, <1>5, <1>6, <1>7, <1>8 DEF Pause!Next

-----------------------------------------------------------------------------
(* Calls and their owners *)

\* The parts' invariants hold in every behaviour of the surface.
LEMMA CallsInvariant == Spec => []Asks!CallsInv
<1>1. Init => Asks!CallsInv
  BY CallsBegin DEF Init
<1>2. Asks!CallsInv /\ [Next]_vars => Asks!CallsInv'
  BY CallsKeep DEF Next, vars
<1>3. QED
  BY <1>1, <1>2, PTL DEF Spec

\* PauseInv holds throughout.
LEMMA PauseInvariant == ASSUME Limit \in Nat, None \notin Nat PROVE Spec => []Pause!PauseInv
<1>1. Init => Pause!PauseInv
  BY PauseBegins DEF Init
<1>2. Pause!PauseInv /\ [Next]_vars => Pause!PauseInv'
  BY PauseKeeps DEF Next, vars
<1>3. QED
  BY <1>1, <1>2, PTL DEF Spec

\* Whenever a caller's signal or timeout comes, no task runs on for nobody and none in the
\* background is cancelled by the call that started it; a call times out after its own
\* silence only.
THEOREM CallsAreOwned ==
  ASSUME Limit \in Nat, None \notin Nat
  PROVE  Spec => []CallsHaveOwners
<1>1. Asks!CallsInv => Asks!NoTaskForNobody /\ Asks!BackgroundIsLeftAlone
  BY DEF Asks!CallsInv, Asks!Consistent, Asks!BackgroundIsLeftAlone
<1>2. Pause!PauseInv => Pause!TimeoutIsFair
  <2>1. ASSUME Pause!PauseInv, NEW c \in Call
        PROVE  waited[c] <= Limit /\ (clock[c].pc = "expired" => waited[c] = Limit)
    <3>1. /\ clock[c].pc \in {"idle", "flight", "expired"} /\ clock[c].remaining \in 0..Limit
          /\ clock[c].timer \in 0..Limit \cup {None} /\ waited[c] \in 0..Limit + 1 /\ Pause!Measured(c)
      BY <2>1 DEF Pause!PauseInv, Pause!TypeOK
    <3>2. QED
      BY <3>1 DEF Pause!Measured
  <2>2. QED
    BY <2>1 DEF Pause!TimeoutIsFair
<1>3. Asks!CallsInv /\ Pause!PauseInv => CallsHaveOwners
  BY <1>1, <1>2 DEF CallsHaveOwners
<1>4. QED
  BY <1>3, CallsInvariant, PauseInvariant, PTL

-----------------------------------------------------------------------------
(* UiSession *)

\* MCSurface's assumptions on the constants of UiSession.
Pages == /\ None \notin Call /\ Tool # {}
         /\ MaxCompleted \in Nat \ {0} /\ MaxContexts \in Nat \ {0}

\* What NothingTypedIsLost says of a page that is over.
StaysTyped(h) == h \in Ui!Recorded \cup crossed \/ (h \in shifted /\ Len(saved) = MaxCompleted)

-----------------------------------------------------------------------------
(* UiSession: the records of completed pages *)

\* The records are of calls.
LEMMA RecordsAreOfCalls == ASSUME Ui!UiInv PROVE Ui!Recorded \subseteq Call
BY DEF Ui!UiInv, Ui!TypeOK, Ui!Recorded

\* A record that joins the others pushes the oldest one out of a full list, and no other.
LEMMA RecordJoins ==
  ASSUME Pages, Ui!UiInv, NEW h \in Call
  PROVE  /\ Ui!Pushed(h) \in Seq(Call) /\ Len(Ui!Pushed(h)) <= MaxCompleted
         /\ Ui!Oldest \subseteq Call
         /\ Len(saved) = MaxCompleted => Len(Ui!Pushed(h)) = MaxCompleted
         /\ Ui!Oldest # {} => Len(saved) = MaxCompleted
         /\ \A x \in (Ui!Recorded \cup {h}) \ Ui!Oldest :
              \E i \in 1 .. Len(Ui!Pushed(h)) : Ui!Pushed(h)[i] = x
<1> USE DEF Pages
<1>1. saved \in Seq(Call) /\ Len(saved) \in Nat /\ Len(saved) <= MaxCompleted
  BY DEF Ui!UiInv, Ui!TypeOK
<1>2. CASE Len(saved) = MaxCompleted
  <2>1. /\ saved # <<>> /\ Head(saved) = saved[1] /\ Head(saved) \in Call /\ Tail(saved) \in Seq(Call)
        /\ Len(Tail(saved)) = Len(saved) - 1
        /\ \A i \in 1 .. Len(saved) - 1 : Tail(saved)[i] = saved[i + 1]
    BY <1>1, <1>2
  <2>2. Ui!Pushed(h) = Append(Tail(saved), h) /\ Ui!Oldest = {saved[1]}
    BY <1>2, <2>1 DEF Ui!Pushed, Ui!Oldest
  <2>3. /\ Ui!Pushed(h) \in Seq(Call) /\ Len(Ui!Pushed(h)) = Len(saved) /\ Ui!Pushed(h)[Len(saved)] = h
        /\ \A i \in 1 .. Len(saved) - 1 : Ui!Pushed(h)[i] = saved[i + 1]
    BY <1>1, <2>1, <2>2
  <2>4. ASSUME NEW x \in (Ui!Recorded \cup {h}) \ {saved[1]}
        PROVE  \E i \in 1 .. Len(Ui!Pushed(h)) : Ui!Pushed(h)[i] = x
    <3>1. CASE x = h
      BY <1>1, <1>2, <2>3, <3>1
    <3>2. CASE x \in Ui!Recorded
      <4>1. PICK i \in 2 .. Len(saved) : saved[i] = x
        BY <1>1, <2>4, <3>2 DEF Ui!Recorded
      <4>2. i - 1 \in 1 .. Len(saved) - 1 /\ Ui!Pushed(h)[i - 1] = x
        BY <1>1, <2>3, <4>1
      <4>3. QED
        BY <1>1, <2>3, <4>2
    <3>3. QED
      BY <2>4, <3>1, <3>2
  <2>5. QED
    BY <1>1, <1>2, <2>1, <2>2, <2>3, <2>4
<1>3. CASE Len(saved) # MaxCompleted
  <2>1. Ui!Pushed(h) = Append(saved, h) /\ Ui!Oldest = {}
    BY <1>3 DEF Ui!Pushed, Ui!Oldest
  <2>2. /\ Ui!Pushed(h) \in Seq(Call) /\ Len(Ui!Pushed(h)) = Len(saved) + 1
        /\ Ui!Pushed(h)[Len(saved) + 1] = h
        /\ \A i \in 1 .. Len(saved) : Ui!Pushed(h)[i] = saved[i]
    BY <1>1, <2>1
  <2>3. ASSUME NEW x \in Ui!Recorded \cup {h}
        PROVE  \E i \in 1 .. Len(Ui!Pushed(h)) : Ui!Pushed(h)[i] = x
    BY <1>1, <2>2, <2>3 DEF Ui!Recorded
  <2>4. QED
    BY <1>1, <1>3, <2>1, <2>2, <2>3
<1>4. QED
  BY <1>2, <1>3

\* When a page completes its record joins the others, or they stay.
LEMMA RecordsKept ==
  ASSUME Pages, Ui!UiInv, NEW h \in Call, NEW closed, Ui!Completed(h, closed), UNCHANGED crossed
  PROVE  /\ saved' \in Seq(Call) /\ Len(saved') <= MaxCompleted /\ shifted' \subseteq Call
         /\ \A x \in Call : StaysTyped(x) => StaysTyped(x)'
         /\ uiServer = h /\ h \in typed => StaysTyped(h)'
<1>1. CASE uiServer = h /\ saved' = Ui!Pushed(h) /\ shifted' = shifted \cup Ui!Oldest
  <2>1. ASSUME NEW x \in (Ui!Recorded \cup {h}) \ Ui!Oldest PROVE x \in Ui!Recorded'
    BY <1>1, <2>1, RecordJoins DEF Ui!Recorded
  <2>2. Ui!Oldest # {} => Len(saved') = MaxCompleted
    BY <1>1, RecordJoins
  <2>3. ASSUME NEW x \in Ui!Recorded \cup {h} PROVE StaysTyped(x)'
    BY <1>1, <2>1, <2>2, <2>3 DEF StaysTyped
  <2>4. ASSUME NEW x \in Call, StaysTyped(x) PROVE StaysTyped(x)'
    BY <1>1, <2>3, <2>4, RecordJoins DEF StaysTyped
  <2>5. saved' \in Seq(Call) /\ Len(saved') <= MaxCompleted /\ shifted' \subseteq Call
    BY <1>1, RecordJoins DEF Ui!UiInv, Ui!TypeOK
  <2>6. QED
    BY <2>3, <2>4, <2>5
<1>2. CASE UNCHANGED Ui!records /\ (uiServer = h => h \notin typed)
  BY <1>2 DEF Ui!UiInv, Ui!TypeOK, Ui!records, StaysTyped, Ui!Recorded
<1>3. QED
  BY <1>1, <1>2 DEF Ui!Completed

\* Who keeps the records and what was typed keeps it for the agent, whichever page ends.
LEMMA TypedIsKept ==
  ASSUME Pages, Ui!UiInv, UNCHANGED Ui!texts,
         \A h \in Call : StaysTyped(h) => StaysTyped(h)',
         \A h \in typed : http[h] = "up" => http'[h] = "up" \/ StaysTyped(h)'
  PROVE  Ui!NothingTypedIsLost'
BY DEF Ui!UiInv, Ui!TypeOK, Ui!NothingTypedIsLost, Ui!texts, StaysTyped

\* Records that rest are the same ones.
LEMMA RecordsRest ==
  ASSUME UNCHANGED Ui!records, crossed \subseteq crossed'
  PROVE  \A h \in Call : StaysTyped(h) => StaysTyped(h)'
BY DEF Ui!records, StaysTyped, Ui!Recorded

-----------------------------------------------------------------------------
(* UiSession: one lemma per action *)

\* A call that begins is apart from every page, and updates the runtime's or reads its own.
LEMMA Starting ==
  ASSUME Pages, Ui!UiInv, NEW c \in Call, Ui!Start(c)
  PROVE  /\ pc[c] = "idle" /\ http[c] = "none" /\ c \notin windows \cup Ui!Recorded \cup typed
         /\ tool' \in [Call -> Tool]
         /\ \/ /\ uiServer # None /\ pc' = [pc EXCEPT ![c] = "calling"]
               /\ reusing' = [reusing EXCEPT ![c] = uiServer]
               /\ listening' = listening \/ listening' = listening \cup {c}
            \/ pc' = [pc EXCEPT ![c] = "reading"] /\ UNCHANGED <<reusing, listening>>
         /\ UNCHANGED <<running, http, uiServer, window, windows, Ui!texts, Ui!records, crossed, late>>
<1>1. Ui!Spare(c)
  BY DEF Ui!Start
<1>2. PICK t \in Tool :
        /\ tool' = [tool EXCEPT ![c] = t]
        /\ IF Ui!Reusable(t)
           THEN /\ Ui!Goto(c, "calling") /\ reusing' = [reusing EXCEPT ![c] = uiServer]
                /\ listening' \in {listening, listening \cup {c}}
           ELSE Ui!Goto(c, "reading") /\ UNCHANGED <<reusing, listening>>
  BY DEF Ui!Start
<1>3. tool' \in [Call -> Tool]
  BY <1>2 DEF Ui!UiInv, Ui!TypeOK
<1>4. UNCHANGED <<running, http, uiServer, window, windows, Ui!texts, Ui!records, crossed, late>>
  BY DEF Ui!Start
<1>5. QED
  BY <1>1, <1>2, <1>3, <1>4 DEF Ui!Spare, Ui!Reusable, Ui!Goto

\* maybeStartUiSession() begins.
LEMMA StartKeeps ==
  ASSUME Pages, Ui!UiInv, NEW c \in Call, Ui!Start(c)
  PROVE  Ui!UiInv'
<1>1. /\ pc' \in [Call -> {"idle", "reading", "starting", "opening", "calling"}]
      /\ reusing' \in [Call -> Call \cup {None}] /\ pc'[c] \in {"calling", "reading"}
      /\ \A d \in Call \ {c} : pc'[d] = pc[d] /\ reusing'[d] = reusing[d]
      /\ listening' \ listening \subseteq {c} /\ listening \subseteq listening'
      /\ c \in listening' => pc'[c] = "calling" /\ reusing'[c] # None
  <2>1. pc \in [Call -> {"idle", "reading", "starting", "opening", "calling"}]
        /\ reusing \in [Call -> Call \cup {None}] /\ uiServer \in Call \cup {None}
        /\ (c \in listening => http[c] = "up" \/ (pc[c] = "calling" /\ reusing[c] # None))
    BY DEF Ui!UiInv, Ui!TypeOK, Ui!ListenersAreLive
  <2>2. pc[c] = "idle" /\ http[c] = "none"
    BY Starting
  <2>3. CASE /\ uiServer # None /\ pc' = [pc EXCEPT ![c] = "calling"]
             /\ reusing' = [reusing EXCEPT ![c] = uiServer]
             /\ listening' = listening \/ listening' = listening \cup {c}
    BY <2>1, <2>2, <2>3
  <2>4. CASE pc' = [pc EXCEPT ![c] = "reading"] /\ UNCHANGED <<reusing, listening>>
    BY <2>1, <2>2, <2>4
  <2>5. QED
    BY Starting, <2>3, <2>4
<1>2. /\ tool' \in [Call -> Tool] /\ c \notin windows \cup Ui!Recorded \cup typed
      /\ UNCHANGED <<running, http, uiServer, window, windows, crossed, late>>
      /\ UNCHANGED <<Ui!texts, Ui!records>>
  BY Starting
<1>3. Ui!TypeOK'
  BY <1>1, <1>2 DEF Pages, Ui!UiInv, Ui!TypeOK, Ui!texts, Ui!records
<1>4. Ui!OnePage' /\ Ui!WindowIsLive' /\ Ui!ServerIsUp'
  BY Starting, <1>1, <1>2 DEF Ui!UiInv, Ui!OnePage, Ui!WindowIsLive, Ui!ServerIsUp
<1>5. Ui!NothingTypedIsLost'
  BY <1>2, RecordsRest, TypedIsKept
<1>6. Ui!ListenersAreLive'
  BY <1>1, <1>2 DEF Ui!UiInv, Ui!TypeOK, Ui!ListenersAreLive
<1>7. Ui!StartingIsApart'
  BY Starting, <1>1, <1>2 DEF Pages, Ui!UiInv, Ui!TypeOK, Ui!texts, Ui!StartingIsApart, Ui!ServerIsUp
<1>8. QED
  BY <1>3, <1>4, <1>5, <1>6, <1>7 DEF Ui!UiInv

\* The page cannot be started.
LEMMA StartFailsKeeps ==
  ASSUME Pages, Ui!UiInv, NEW c \in Call, Ui!StartFails(c)
  PROVE  Ui!UiInv'
<1>1. Ui!TypeOK'
  BY DEF Pages, Ui!UiInv, Ui!TypeOK, Ui!StartFails, Ui!Goto, Ui!FirstTool, Ui!texts, Ui!records
<1>2. Ui!OnePage'
  BY DEF Pages, Ui!UiInv, Ui!StartFails, Ui!Goto, Ui!TypeOK, Ui!OnePage, Ui!StartingIsApart
<1>3. Ui!WindowIsLive'
  BY DEF Pages, Ui!UiInv, Ui!StartFails, Ui!Goto, Ui!TypeOK, Ui!OnePage, Ui!WindowIsLive,
     Ui!StartingIsApart, Ui!ServerIsUp
<1>4. Ui!NothingTypedIsLost'
  BY RecordsRest, TypedIsKept DEF Ui!UiInv, Ui!TypeOK, Ui!StartFails, Ui!StartingIsApart
<1>5. Ui!ListenersAreLive'
  BY DEF Pages, Ui!UiInv, Ui!StartFails, Ui!Goto, Ui!TypeOK, Ui!OnePage, Ui!ListenersAreLive,
     Ui!StartingIsApart
<1>6. Ui!StartingIsApart'
  BY DEF Pages, Ui!UiInv, Ui!StartFails, Ui!Goto, Ui!texts, Ui!TypeOK, Ui!ListenersAreLive,
     Ui!StartingIsApart, Ui!ServerIsUp
<1>7. Ui!ServerIsUp'
  BY DEF Pages, Ui!UiInv, Ui!StartFails, Ui!Goto, Ui!TypeOK, Ui!OnePage, Ui!StartingIsApart,
     Ui!ServerIsUp
<1>8. QED
  BY <1>1, <1>2, <1>3, <1>4, <1>5, <1>6, <1>7 DEF Ui!UiInv

\* The resource is read, and the call's own page starts.
LEMMA ResourceReadKeeps ==
  ASSUME Pages, Ui!UiInv, NEW c \in Call, Ui!ResourceRead(c)
  PROVE  Ui!UiInv'
<1>1. /\ saved' \in Seq(Call) /\ Len(saved') <= MaxCompleted /\ shifted' \subseteq Call
      /\ \A h \in Call : StaysTyped(h) => StaysTyped(h)'
      /\ \A h \in typed : h = uiServer => StaysTyped(h)'
  <2>1. CASE uiServer # None
    BY <2>1, RecordsKept DEF Ui!UiInv, Ui!TypeOK, Ui!ResourceRead
  <2>2. CASE uiServer = None
    BY <2>2 DEF Pages, Ui!ResourceRead, Ui!UiInv, Ui!TypeOK, Ui!records, StaysTyped, Ui!Recorded
  <2>3. QED
    BY <2>1, <2>2
<1>2. Ui!TypeOK'
  <2>1. /\ running' \in BOOLEAN /\ tool' \in [Call -> Tool] /\ reusing' \in [Call -> Call \cup {None}]
        /\ pc' \in [Call -> {"idle", "reading", "starting", "opening", "calling"}]
        /\ http' \in [Call -> {"none", "up", "completed"}] /\ contexts' \in [Call -> 0 .. MaxContexts]
    BY <1>1 DEF Pages, Ui!UiInv, Ui!TypeOK, Ui!texts, Ui!ResourceRead, Ui!Goto, Ui!Completed
  <2>2. /\ uiServer' \in Call \cup {None} /\ window' \in Call \cup {None}
        /\ listening' \cup windows' \cup typed' \cup trimmed' \cup crossed' \cup late' \subseteq Call
    BY <1>1 DEF Pages, Ui!UiInv, Ui!TypeOK, Ui!texts, Ui!ResourceRead, Ui!Goto, Ui!Completed
  <2>3. saved' \in Seq(Call) /\ Len(saved') <= MaxCompleted /\ shifted' \subseteq Call
    BY <1>1 DEF Pages, Ui!UiInv, Ui!TypeOK, Ui!texts, Ui!records, Ui!ResourceRead, Ui!Goto, Ui!Completed
  <2>4. QED
    BY <2>1, <2>2, <2>3 DEF Ui!TypeOK
<1>3. Ui!OnePage'
  BY DEF Pages, Ui!UiInv, Ui!ResourceRead, Ui!Goto, Ui!Completed, Ui!TypeOK, Ui!OnePage,
     Ui!StartingIsApart
<1>4. Ui!WindowIsLive'
  BY DEF Pages, Ui!UiInv, Ui!ResourceRead, Ui!Goto, Ui!Completed, Ui!TypeOK, Ui!OnePage,
     Ui!WindowIsLive, Ui!StartingIsApart, Ui!ServerIsUp
<1>5. Ui!NothingTypedIsLost'
  BY <1>1, TypedIsKept DEF Ui!UiInv, Ui!TypeOK, Ui!ResourceRead
<1>6. Ui!ListenersAreLive'
  BY DEF Pages, Ui!UiInv, Ui!ResourceRead, Ui!Goto, Ui!Completed, Ui!TypeOK, Ui!OnePage,
     Ui!ListenersAreLive, Ui!StartingIsApart
<1>7. Ui!StartingIsApart'
  BY DEF Pages, Ui!UiInv, Ui!ResourceRead, Ui!Goto, Ui!Completed, Ui!texts, Ui!TypeOK,
     Ui!ListenersAreLive, Ui!StartingIsApart, Ui!ServerIsUp
<1>8. Ui!ServerIsUp'
  BY DEF Pages, Ui!UiInv, Ui!ResourceRead, Ui!Goto, Ui!Completed, Ui!TypeOK, Ui!OnePage,
     Ui!StartingIsApart, Ui!ServerIsUp
<1>9. QED
  BY <1>1, <1>2, <1>3, <1>4, <1>5, <1>6, <1>7, <1>8 DEF Ui!UiInv

\* The page is served: it replaces the runtime's.
LEMMA StartedKeeps ==
  ASSUME Pages, Ui!UiInv, NEW c \in Call, Ui!Started(c)
  PROVE  Ui!UiInv'
<1>1. Ui!TypeOK'
  <2>1. /\ running' \in BOOLEAN /\ tool' \in [Call -> Tool] /\ reusing' \in [Call -> Call \cup {None}]
        /\ pc' \in [Call -> {"idle", "reading", "starting", "opening", "calling"}]
        /\ http' \in [Call -> {"none", "up", "completed"}] /\ contexts' \in [Call -> 0 .. MaxContexts]
    BY DEF Pages, Ui!UiInv, Ui!TypeOK, Ui!texts, Ui!Started, Ui!Goto
  <2>2. /\ uiServer' \in Call \cup {None} /\ window' \in Call \cup {None}
        /\ listening' \cup windows' \cup typed' \cup trimmed' \cup crossed' \cup late' \subseteq Call
    BY DEF Pages, Ui!UiInv, Ui!TypeOK, Ui!texts, Ui!Started, Ui!Goto
  <2>3. saved' \in Seq(Call) /\ Len(saved') <= MaxCompleted /\ shifted' \subseteq Call
    BY DEF Pages, Ui!UiInv, Ui!TypeOK, Ui!texts, Ui!records, Ui!Started, Ui!Goto
  <2>4. QED
    BY <2>1, <2>2, <2>3 DEF Ui!TypeOK
<1>2. Ui!OnePage'
  BY DEF Pages, Ui!UiInv, Ui!Started, Ui!Goto, Ui!TypeOK, Ui!OnePage, Ui!StartingIsApart
<1>3. Ui!WindowIsLive'
  BY DEF Pages, Ui!UiInv, Ui!Started, Ui!Goto, Ui!TypeOK, Ui!OnePage, Ui!WindowIsLive,
     Ui!StartingIsApart, Ui!ServerIsUp
<1>4. Ui!NothingTypedIsLost'
  BY RecordsRest, TypedIsKept DEF Ui!UiInv, Ui!TypeOK, Ui!Started, Ui!StartingIsApart
<1>5. Ui!ListenersAreLive'
  BY DEF Pages, Ui!UiInv, Ui!Started, Ui!Goto, Ui!TypeOK, Ui!OnePage, Ui!ListenersAreLive,
     Ui!StartingIsApart
<1>6. Ui!StartingIsApart'
  BY DEF Pages, Ui!UiInv, Ui!Started, Ui!Goto, Ui!texts, Ui!TypeOK, Ui!ListenersAreLive,
     Ui!StartingIsApart, Ui!ServerIsUp
<1>7. Ui!ServerIsUp'
  BY DEF Pages, Ui!UiInv, Ui!Started, Ui!Goto, Ui!TypeOK, Ui!OnePage, Ui!StartingIsApart,
     Ui!ServerIsUp
<1>8. QED
  BY <1>1, <1>2, <1>3, <1>4, <1>5, <1>6, <1>7 DEF Ui!UiInv

\* The window or the browser shows the page.
LEMMA OpenedKeeps ==
  ASSUME Pages, Ui!UiInv, NEW c \in Call, Ui!Opened(c)
  PROVE  Ui!UiInv'
<1>1. Ui!TypeOK'
  BY DEF Pages, Ui!UiInv, Ui!TypeOK, Ui!Opened, Ui!Goto, Ui!FirstTool, Ui!texts, Ui!records
<1>2. Ui!OnePage'
  BY DEF Pages, Ui!UiInv, Ui!Opened, Ui!Goto, Ui!TypeOK, Ui!OnePage, Ui!StartingIsApart
<1>3. Ui!WindowIsLive'
  BY DEF Pages, Ui!UiInv, Ui!Opened, Ui!Goto, Ui!TypeOK, Ui!OnePage, Ui!WindowIsLive,
     Ui!StartingIsApart, Ui!ServerIsUp
<1>4. Ui!NothingTypedIsLost'
  BY RecordsRest, TypedIsKept DEF Ui!UiInv, Ui!TypeOK, Ui!Opened
<1>5. Ui!ListenersAreLive'
  BY DEF Pages, Ui!UiInv, Ui!Opened, Ui!Goto, Ui!TypeOK, Ui!OnePage, Ui!ListenersAreLive,
     Ui!StartingIsApart
<1>6. Ui!StartingIsApart'
  BY DEF Pages, Ui!UiInv, Ui!Opened, Ui!Goto, Ui!texts, Ui!TypeOK, Ui!ListenersAreLive,
     Ui!StartingIsApart, Ui!ServerIsUp
<1>7. Ui!ServerIsUp'
  BY DEF Pages, Ui!UiInv, Ui!Opened, Ui!Goto, Ui!TypeOK, Ui!OnePage, Ui!StartingIsApart,
     Ui!ServerIsUp
<1>8. QED
  BY <1>1, <1>2, <1>3, <1>4, <1>5, <1>6, <1>7 DEF Ui!UiInv

\* The call is cancelled while its page opens.
LEMMA OpeningCancelledKeeps ==
  ASSUME Pages, Ui!UiInv, NEW c \in Call, Ui!OpeningCancelled(c)
  PROVE  Ui!UiInv'
<1>1. Ui!TypeOK'
  BY DEF Pages, Ui!UiInv, Ui!TypeOK, Ui!OpeningCancelled, Ui!Goto, Ui!FirstTool, Ui!texts,
     Ui!records
<1>2. Ui!OnePage'
  BY DEF Pages, Ui!UiInv, Ui!OpeningCancelled, Ui!Goto, Ui!TypeOK, Ui!OnePage, Ui!StartingIsApart
<1>3. Ui!WindowIsLive'
  BY DEF Pages, Ui!UiInv, Ui!OpeningCancelled, Ui!Goto, Ui!TypeOK, Ui!OnePage, Ui!WindowIsLive,
     Ui!StartingIsApart, Ui!ServerIsUp
<1>4. Ui!NothingTypedIsLost'
  BY RecordsRest, TypedIsKept DEF Ui!UiInv, Ui!TypeOK, Ui!OpeningCancelled
<1>5. Ui!ListenersAreLive'
  BY DEF Pages, Ui!UiInv, Ui!OpeningCancelled, Ui!Goto, Ui!TypeOK, Ui!OnePage,
     Ui!ListenersAreLive, Ui!StartingIsApart
<1>6. Ui!StartingIsApart'
  BY DEF Pages, Ui!UiInv, Ui!OpeningCancelled, Ui!Goto, Ui!texts, Ui!TypeOK, Ui!ListenersAreLive,
     Ui!StartingIsApart, Ui!ServerIsUp
<1>7. Ui!ServerIsUp'
  BY DEF Pages, Ui!UiInv, Ui!OpeningCancelled, Ui!Goto, Ui!TypeOK, Ui!OnePage, Ui!StartingIsApart,
     Ui!ServerIsUp
<1>8. QED
  BY <1>1, <1>2, <1>3, <1>4, <1>5, <1>6, <1>7 DEF Ui!UiInv

\* The call returns.
LEMMA ReturnsKeeps ==
  ASSUME Pages, Ui!UiInv, NEW c \in Call, Ui!Returns(c)
  PROVE  Ui!UiInv'
<1>1. Ui!TypeOK'
  BY DEF Pages, Ui!UiInv, Ui!TypeOK, Ui!Returns, Ui!Goto, Ui!FirstTool, Ui!texts, Ui!records
<1>2. Ui!OnePage'
  BY DEF Pages, Ui!UiInv, Ui!Returns, Ui!Goto, Ui!TypeOK, Ui!OnePage, Ui!StartingIsApart
<1>3. Ui!WindowIsLive'
  BY DEF Pages, Ui!UiInv, Ui!Returns, Ui!Goto, Ui!TypeOK, Ui!OnePage, Ui!WindowIsLive,
     Ui!StartingIsApart, Ui!ServerIsUp
<1>4. Ui!NothingTypedIsLost'
  BY RecordsRest, TypedIsKept DEF Ui!UiInv, Ui!TypeOK, Ui!Returns
<1>5. Ui!ListenersAreLive'
  BY DEF Pages, Ui!UiInv, Ui!Returns, Ui!Goto, Ui!TypeOK, Ui!OnePage, Ui!ListenersAreLive,
     Ui!StartingIsApart
<1>6. Ui!StartingIsApart'
  BY DEF Pages, Ui!UiInv, Ui!Returns, Ui!Goto, Ui!texts, Ui!TypeOK, Ui!ListenersAreLive,
     Ui!StartingIsApart, Ui!ServerIsUp
<1>7. Ui!ServerIsUp'
  BY DEF Pages, Ui!UiInv, Ui!Returns, Ui!Goto, Ui!TypeOK, Ui!OnePage, Ui!StartingIsApart,
     Ui!ServerIsUp
<1>8. QED
  BY <1>1, <1>2, <1>3, <1>4, <1>5, <1>6, <1>7 DEF Ui!UiInv

\* The user is done with the page.
LEMMA PageCompletesKeeps ==
  ASSUME Pages, Ui!UiInv, NEW c \in Call, Ui!PageCompletes(c)
  PROVE  Ui!UiInv'
<1>1. /\ saved' \in Seq(Call) /\ Len(saved') <= MaxCompleted /\ shifted' \subseteq Call
      /\ \A h \in Call : StaysTyped(h) => StaysTyped(h)'
      /\ c \in typed => StaysTyped(c)'
  BY RecordsKept DEF Ui!UiInv, Ui!PageCompletes, Ui!OnePage, StaysTyped
<1>2. Ui!TypeOK'
  BY <1>1 DEF Pages, Ui!UiInv, Ui!TypeOK, Ui!PageCompletes, Ui!Completed, Ui!FirstTool, Ui!texts
<1>3. Ui!OnePage'
  BY DEF Pages, Ui!UiInv, Ui!PageCompletes, Ui!Completed, Ui!TypeOK, Ui!OnePage,
     Ui!StartingIsApart
<1>4. Ui!WindowIsLive'
  BY DEF Pages, Ui!UiInv, Ui!PageCompletes, Ui!Completed, Ui!TypeOK, Ui!OnePage, Ui!WindowIsLive,
     Ui!StartingIsApart, Ui!ServerIsUp
<1>5. Ui!NothingTypedIsLost'
  BY <1>1, TypedIsKept DEF Ui!UiInv, Ui!TypeOK, Ui!PageCompletes
<1>6. Ui!ListenersAreLive'
  BY DEF Pages, Ui!UiInv, Ui!PageCompletes, Ui!Completed, Ui!TypeOK, Ui!OnePage,
     Ui!ListenersAreLive, Ui!StartingIsApart
<1>7. Ui!StartingIsApart'
  BY DEF Pages, Ui!UiInv, Ui!PageCompletes, Ui!Completed, Ui!texts, Ui!TypeOK,
     Ui!ListenersAreLive, Ui!StartingIsApart, Ui!ServerIsUp
<1>8. Ui!ServerIsUp'
  BY DEF Pages, Ui!UiInv, Ui!PageCompletes, Ui!Completed, Ui!TypeOK, Ui!OnePage,
     Ui!StartingIsApart, Ui!ServerIsUp
<1>9. QED
  BY <1>1, <1>2, <1>3, <1>4, <1>5, <1>6, <1>7, <1>8 DEF Ui!UiInv

\* A native window closes.
LEMMA WindowClosesKeeps ==
  ASSUME Pages, Ui!UiInv, NEW c \in Call, Ui!WindowCloses(c)
  PROVE  Ui!UiInv'
<1>1. /\ saved' \in Seq(Call) /\ Len(saved') <= MaxCompleted /\ shifted' \subseteq Call
      /\ \A h \in Call : StaysTyped(h) => StaysTyped(h)'
      /\ http[c] = "up" /\ c \in typed => StaysTyped(c)'
  <2>1. CASE http[c] = "up"
    BY <2>1, RecordsKept DEF Ui!WindowCloses, Ui!UiInv, Ui!OnePage, Ui!StartingIsApart, StaysTyped
  <2>2. CASE http[c] # "up"
    BY <2>2 DEF Ui!WindowCloses, Ui!UiInv, Ui!TypeOK, Ui!records, StaysTyped, Ui!Recorded
  <2>3. QED
    BY <2>1, <2>2
<1>2. Ui!TypeOK'
  <2>1. /\ running' \in BOOLEAN /\ tool' \in [Call -> Tool] /\ reusing' \in [Call -> Call \cup {None}]
        /\ pc' \in [Call -> {"idle", "reading", "starting", "opening", "calling"}]
        /\ http' \in [Call -> {"none", "up", "completed"}] /\ contexts' \in [Call -> 0 .. MaxContexts]
    BY <1>1 DEF Pages, Ui!UiInv, Ui!TypeOK, Ui!texts, Ui!WindowCloses, Ui!Completed
  <2>2. /\ uiServer' \in Call \cup {None} /\ window' \in Call \cup {None}
        /\ listening' \cup windows' \cup typed' \cup trimmed' \cup crossed' \cup late' \subseteq Call
    BY <1>1 DEF Pages, Ui!UiInv, Ui!TypeOK, Ui!texts, Ui!WindowCloses, Ui!Completed
  <2>3. saved' \in Seq(Call) /\ Len(saved') <= MaxCompleted /\ shifted' \subseteq Call
    BY <1>1 DEF Pages, Ui!UiInv, Ui!TypeOK, Ui!texts, Ui!records, Ui!WindowCloses, Ui!Completed
  <2>4. QED
    BY <2>1, <2>2, <2>3 DEF Ui!TypeOK
<1>3. Ui!OnePage'
  BY DEF Pages, Ui!UiInv, Ui!WindowCloses, Ui!Completed, Ui!TypeOK, Ui!OnePage, Ui!StartingIsApart
<1>4. Ui!WindowIsLive'
  BY DEF Pages, Ui!UiInv, Ui!WindowCloses, Ui!Completed, Ui!TypeOK, Ui!OnePage, Ui!WindowIsLive,
     Ui!StartingIsApart, Ui!ServerIsUp
<1>5. Ui!NothingTypedIsLost'
  BY <1>1, TypedIsKept DEF Ui!UiInv, Ui!TypeOK, Ui!WindowCloses
<1>6. Ui!ListenersAreLive'
  BY DEF Pages, Ui!UiInv, Ui!WindowCloses, Ui!Completed, Ui!TypeOK, Ui!OnePage,
     Ui!ListenersAreLive, Ui!StartingIsApart
<1>7. Ui!StartingIsApart'
  BY DEF Pages, Ui!UiInv, Ui!WindowCloses, Ui!Completed, Ui!texts, Ui!TypeOK, Ui!ListenersAreLive,
     Ui!StartingIsApart, Ui!ServerIsUp
<1>8. Ui!ServerIsUp'
  BY DEF Pages, Ui!UiInv, Ui!WindowCloses, Ui!Completed, Ui!TypeOK, Ui!OnePage,
     Ui!StartingIsApart, Ui!ServerIsUp
<1>9. QED
  BY <1>1, <1>2, <1>3, <1>4, <1>5, <1>6, <1>7, <1>8 DEF Ui!UiInv

\* A server that was closed stops listening.
LEMMA ListenersCloseKeeps ==
  ASSUME Pages, Ui!UiInv, NEW c \in Call, Ui!ListenersClose(c)
  PROVE  Ui!UiInv'
<1>1. Ui!TypeOK'
  BY DEF Pages, Ui!UiInv, Ui!TypeOK, Ui!ListenersClose, Ui!Forgotten, Ui!FirstTool, Ui!texts,
     Ui!records
<1>2. Ui!OnePage'
  BY DEF Pages, Ui!UiInv, Ui!ListenersClose, Ui!Forgotten, Ui!TypeOK, Ui!OnePage,
     Ui!StartingIsApart
<1>3. Ui!WindowIsLive'
  BY DEF Pages, Ui!UiInv, Ui!ListenersClose, Ui!Forgotten, Ui!TypeOK, Ui!OnePage, Ui!WindowIsLive,
     Ui!StartingIsApart, Ui!ServerIsUp
<1>4. Ui!NothingTypedIsLost'
  BY DEF Ui!UiInv, Ui!TypeOK, Ui!ListenersClose, Ui!Forgotten, Ui!NothingTypedIsLost, Ui!Recorded,
     Ui!records
<1>5. Ui!ListenersAreLive'
  BY DEF Pages, Ui!UiInv, Ui!ListenersClose, Ui!Forgotten, Ui!TypeOK, Ui!OnePage,
     Ui!ListenersAreLive, Ui!StartingIsApart
<1>6. Ui!StartingIsApart'
  BY DEF Pages, Ui!UiInv, Ui!ListenersClose, Ui!Forgotten, Ui!texts, Ui!TypeOK,
     Ui!ListenersAreLive, Ui!StartingIsApart, Ui!ServerIsUp
<1>7. Ui!ServerIsUp'
  BY DEF Pages, Ui!UiInv, Ui!ListenersClose, Ui!Forgotten, Ui!TypeOK, Ui!OnePage,
     Ui!StartingIsApart, Ui!ServerIsUp
<1>8. QED
  BY <1>1, <1>2, <1>3, <1>4, <1>5, <1>6, <1>7 DEF Ui!UiInv

\* The user types a message to the agent.
LEMMA UserTypesKeeps ==
  ASSUME Pages, Ui!UiInv, NEW c \in Call, Ui!UserTypes(c)
  PROVE  Ui!UiInv'
<1>1. Ui!TypeOK'
  <2>1. /\ running' \in BOOLEAN /\ tool' \in [Call -> Tool] /\ reusing' \in [Call -> Call \cup {None}]
        /\ pc' \in [Call -> {"idle", "reading", "starting", "opening", "calling"}]
        /\ http' \in [Call -> {"none", "up", "completed"}] /\ contexts' \in [Call -> 0 .. MaxContexts]
    <3>1. contexts \in [Call -> 0 .. MaxContexts] /\ contexts[c] \in 0 .. MaxContexts
      BY DEF Ui!UiInv, Ui!TypeOK
    <3>2. contexts' \in [Call -> 0 .. MaxContexts]
      BY <3>1 DEF Pages, Ui!UserTypes
    <3>3. QED
      BY <3>2 DEF Ui!UiInv, Ui!TypeOK, Ui!UserTypes
  <2>2. /\ uiServer' \in Call \cup {None} /\ window' \in Call \cup {None}
        /\ listening' \cup windows' \cup typed' \cup trimmed' \cup crossed' \cup late' \subseteq Call
    BY DEF Pages, Ui!UiInv, Ui!TypeOK, Ui!texts, Ui!UserTypes
  <2>3. saved' \in Seq(Call) /\ Len(saved') <= MaxCompleted /\ shifted' \subseteq Call
    BY DEF Pages, Ui!UiInv, Ui!TypeOK, Ui!texts, Ui!records, Ui!UserTypes
  <2>4. QED
    BY <2>1, <2>2, <2>3 DEF Ui!TypeOK
<1>2. Ui!OnePage'
  BY DEF Pages, Ui!UiInv, Ui!UserTypes, Ui!TypeOK, Ui!OnePage, Ui!StartingIsApart
<1>3. Ui!WindowIsLive'
  BY DEF Pages, Ui!UiInv, Ui!UserTypes, Ui!TypeOK, Ui!OnePage, Ui!WindowIsLive,
     Ui!StartingIsApart, Ui!ServerIsUp
<1>4. Ui!NothingTypedIsLost'
  BY DEF Ui!UiInv, Ui!TypeOK, Ui!UserTypes, Ui!NothingTypedIsLost, Ui!Recorded, Ui!records
<1>5. Ui!ListenersAreLive'
  BY DEF Pages, Ui!UiInv, Ui!UserTypes, Ui!TypeOK, Ui!OnePage, Ui!ListenersAreLive,
     Ui!StartingIsApart
<1>6. Ui!StartingIsApart'
  BY DEF Pages, Ui!UiInv, Ui!UserTypes, Ui!texts, Ui!TypeOK, Ui!ListenersAreLive,
     Ui!StartingIsApart, Ui!ServerIsUp
<1>7. Ui!ServerIsUp'
  BY DEF Pages, Ui!UiInv, Ui!UserTypes, Ui!TypeOK, Ui!OnePage, Ui!StartingIsApart, Ui!ServerIsUp
<1>8. QED
  BY <1>1, <1>2, <1>3, <1>4, <1>5, <1>6, <1>7 DEF Ui!UiInv

\* The agent reads the messages that were typed.
LEMMA AgentReadsKeeps ==
  ASSUME Pages, Ui!UiInv, Ui!AgentReads
  PROVE  Ui!UiInv'
<1>1. Ui!TypeOK'
  BY DEF Pages, Ui!UiInv, Ui!TypeOK, Ui!AgentReads, Ui!Forgotten, Ui!FirstTool, Ui!texts,
     Ui!records
<1>2. Ui!OnePage'
  BY DEF Pages, Ui!UiInv, Ui!AgentReads, Ui!Forgotten, Ui!TypeOK, Ui!OnePage, Ui!StartingIsApart
<1>3. Ui!WindowIsLive'
  BY DEF Pages, Ui!UiInv, Ui!AgentReads, Ui!Forgotten, Ui!TypeOK, Ui!OnePage, Ui!WindowIsLive,
     Ui!StartingIsApart, Ui!ServerIsUp
<1>4. Ui!NothingTypedIsLost'
  BY DEF Ui!UiInv, Ui!TypeOK, Ui!AgentReads, Ui!Forgotten, Ui!NothingTypedIsLost
<1>5. Ui!ListenersAreLive'
  BY DEF Pages, Ui!UiInv, Ui!AgentReads, Ui!Forgotten, Ui!TypeOK, Ui!OnePage, Ui!ListenersAreLive,
     Ui!StartingIsApart
<1>6. Ui!StartingIsApart'
  BY DEF Pages, Ui!UiInv, Ui!AgentReads, Ui!Forgotten, Ui!texts, Ui!TypeOK, Ui!ListenersAreLive,
     Ui!StartingIsApart, Ui!ServerIsUp
<1>7. Ui!ServerIsUp'
  BY DEF Pages, Ui!UiInv, Ui!AgentReads, Ui!Forgotten, Ui!TypeOK, Ui!OnePage, Ui!StartingIsApart,
     Ui!ServerIsUp
<1>8. QED
  BY <1>1, <1>2, <1>3, <1>4, <1>5, <1>6, <1>7 DEF Ui!UiInv

\* The runtime stops: its page is closed.
LEMMA RuntimeStopsKeeps ==
  ASSUME Pages, Ui!UiInv, Ui!RuntimeStops
  PROVE  Ui!UiInv'
<1>1. /\ saved' \in Seq(Call) /\ Len(saved') <= MaxCompleted /\ shifted' \subseteq Call
      /\ \A h \in Call : StaysTyped(h) => StaysTyped(h)'
      /\ \A h \in typed : h = uiServer => StaysTyped(h)'
  <2>1. CASE uiServer # None
    BY <2>1, RecordsKept DEF Ui!UiInv, Ui!TypeOK, Ui!RuntimeStops
  <2>2. CASE uiServer = None
    BY <2>2 DEF Pages, Ui!RuntimeStops, Ui!UiInv, Ui!TypeOK, Ui!records, StaysTyped, Ui!Recorded
  <2>3. QED
    BY <2>1, <2>2
<1>2. Ui!TypeOK'
  <2>1. /\ running' \in BOOLEAN /\ tool' \in [Call -> Tool] /\ reusing' \in [Call -> Call \cup {None}]
        /\ pc' \in [Call -> {"idle", "reading", "starting", "opening", "calling"}]
        /\ http' \in [Call -> {"none", "up", "completed"}] /\ contexts' \in [Call -> 0 .. MaxContexts]
    BY <1>1 DEF Pages, Ui!UiInv, Ui!TypeOK, Ui!texts, Ui!RuntimeStops, Ui!Completed
  <2>2. /\ uiServer' \in Call \cup {None} /\ window' \in Call \cup {None}
        /\ listening' \cup windows' \cup typed' \cup trimmed' \cup crossed' \cup late' \subseteq Call
    BY <1>1 DEF Pages, Ui!UiInv, Ui!TypeOK, Ui!texts, Ui!RuntimeStops, Ui!Completed
  <2>3. saved' \in Seq(Call) /\ Len(saved') <= MaxCompleted /\ shifted' \subseteq Call
    BY <1>1 DEF Pages, Ui!UiInv, Ui!TypeOK, Ui!texts, Ui!records, Ui!RuntimeStops, Ui!Completed
  <2>4. QED
    BY <2>1, <2>2, <2>3 DEF Ui!TypeOK
<1>3. Ui!OnePage'
  BY DEF Pages, Ui!UiInv, Ui!RuntimeStops, Ui!Completed, Ui!TypeOK, Ui!OnePage, Ui!StartingIsApart
<1>4. Ui!WindowIsLive'
  BY DEF Pages, Ui!UiInv, Ui!RuntimeStops, Ui!Completed, Ui!TypeOK, Ui!OnePage, Ui!WindowIsLive,
     Ui!StartingIsApart, Ui!ServerIsUp
<1>5. Ui!NothingTypedIsLost'
  BY <1>1, TypedIsKept DEF Ui!UiInv, Ui!TypeOK, Ui!RuntimeStops
<1>6. Ui!ListenersAreLive'
  BY DEF Pages, Ui!UiInv, Ui!RuntimeStops, Ui!Completed, Ui!TypeOK, Ui!OnePage,
     Ui!ListenersAreLive, Ui!StartingIsApart
<1>7. Ui!StartingIsApart'
  BY DEF Pages, Ui!UiInv, Ui!RuntimeStops, Ui!Completed, Ui!texts, Ui!TypeOK, Ui!ListenersAreLive,
     Ui!StartingIsApart, Ui!ServerIsUp
<1>8. Ui!ServerIsUp'
  BY DEF Pages, Ui!UiInv, Ui!RuntimeStops, Ui!Completed, Ui!TypeOK, Ui!OnePage,
     Ui!StartingIsApart, Ui!ServerIsUp
<1>9. QED
  BY <1>1, <1>2, <1>3, <1>4, <1>5, <1>6, <1>7, <1>8 DEF Ui!UiInv

\* The manager forgets its listeners.
LEMMA ManagerClosesKeeps ==
  ASSUME Pages, Ui!UiInv, Ui!ManagerCloses
  PROVE  Ui!UiInv'
<1>1. Ui!TypeOK'
  BY DEF Pages, Ui!UiInv, Ui!TypeOK, Ui!ManagerCloses, Ui!FirstTool, Ui!texts, Ui!records
<1>2. Ui!OnePage'
  BY DEF Pages, Ui!UiInv, Ui!ManagerCloses, Ui!TypeOK, Ui!OnePage, Ui!StartingIsApart
<1>3. Ui!WindowIsLive'
  BY DEF Pages, Ui!UiInv, Ui!ManagerCloses, Ui!TypeOK, Ui!OnePage, Ui!WindowIsLive,
     Ui!StartingIsApart, Ui!ServerIsUp
<1>4. Ui!NothingTypedIsLost'
  BY RecordsRest, TypedIsKept DEF Ui!UiInv, Ui!TypeOK, Ui!ManagerCloses
<1>5. Ui!ListenersAreLive'
  BY DEF Pages, Ui!UiInv, Ui!ManagerCloses, Ui!TypeOK, Ui!OnePage, Ui!ListenersAreLive,
     Ui!StartingIsApart
<1>6. Ui!StartingIsApart'
  BY DEF Pages, Ui!UiInv, Ui!ManagerCloses, Ui!texts, Ui!TypeOK, Ui!ListenersAreLive,
     Ui!StartingIsApart, Ui!ServerIsUp
<1>7. Ui!ServerIsUp'
  BY DEF Pages, Ui!UiInv, Ui!ManagerCloses, Ui!TypeOK, Ui!OnePage, Ui!StartingIsApart,
     Ui!ServerIsUp
<1>8. QED
  BY <1>1, <1>2, <1>3, <1>4, <1>5, <1>6, <1>7 DEF Ui!UiInv

-----------------------------------------------------------------------------
(* UiEventLog: the ids of a log, and its actions *)

\* A log keeps one event at least, and the events end somewhere.
LogParams == MaxLog \in Nat \ {0} /\ MaxEvents \in Nat

\* The ids in the log are consecutive and end with the latest one.
Ends(log, latest) == \A i \in 1..Len(log) : log[i] = latest - Len(log) + i

\* What is in the range of a sequence is one of its elements.
LEMMA InSeq ==
  ASSUME NEW S, NEW s \in Seq(S), NEW i \in 1..Len(s)
  PROVE  s[i] \in S
OBVIOUS

\* The ids of a log are event numbers.
LEMMA IdsAreNumbers ==
  ASSUME MaxEvents \in Nat, NEW log \in Seq(1..MaxEvents)
  PROVE  Events!Range(log) \subseteq Nat
<1> SUFFICES ASSUME NEW id \in Events!Range(log) PROVE id \in Nat
  OBVIOUS
<1>1. PICK i \in 1..Len(log) : id = log[i]
  BY DEF Events!Range
<1>2. QED
  BY <1>1, InSeq

\* Dropping from a sequence renumbers what stays.
LEMMA DropIsSuffix ==
  ASSUME MaxEvents \in Nat, NEW log \in Seq(1..MaxEvents), NEW n \in 0..Len(log), NEW latest \in Nat,
         Ends(log, latest)
  PROVE  /\ Events!Drop(log, n) \in Seq(1..MaxEvents) /\ Len(Events!Drop(log, n)) = Len(log) - n
         /\ Ends(Events!Drop(log, n), latest)
<1> DEFINE d == Events!Drop(log, n)
<1>1. d \in Seq(1..MaxEvents) /\ Len(d) = Len(log) - n /\ \A i \in 1..Len(log) - n : d[i] = log[n + i]
  BY DEF Events!Drop
<1> HIDE DEF d
<1>2. ASSUME NEW i \in 1..Len(d) PROVE d[i] = latest - Len(d) + i
  <2>1. n + i \in 1..Len(log) /\ d[i] = log[n + i]
    BY <1>1
  <2>2. log[n + i] = latest - Len(log) + (n + i)
    BY <2>1 DEF Ends
  <2>3. QED
    BY <1>1, <2>1, <2>2
<1>3. QED
  BY <1>1, <1>2 DEF d, Ends

\* pruneEventLog() drops a prefix: what stays is the end of the log, and not empty.
LEMMA PruneKeepsEnd ==
  ASSUME LogParams, NEW log \in Seq(1..MaxEvents), Len(log) \in 1..MaxLog + 1, NEW latest \in Nat,
         Ends(log, latest), NEW cp \in 0..latest
  PROVE  /\ Events!Pruned(log, cp) \in Seq(1..MaxEvents) /\ Len(Events!Pruned(log, cp)) \in 1..MaxLog
         /\ Ends(Events!Pruned(log, cp), latest) /\ Events!Pruned(log, cp)[1] >= log[1]
<1> DEFINE i == Events!CheckpointIndex(log, cp)
           a == IF i # Events!NoIndex /\ i > 0 THEN i ELSE 0
           cut == IF i # Events!NoIndex /\ i > 0 THEN Events!Drop(log, i) ELSE log
           b == IF Len(cut) > MaxLog THEN Len(cut) - MaxLog ELSE 0
           rest == Events!Drop(cut, b)
<1>1. log[1] \in 1..MaxEvents /\ log[1] = latest - Len(log) + 1 /\ Len(log) \in Nat
  <2>1. Len(log) \in Nat /\ 1 \in 1..Len(log)
    BY DEF LogParams
  <2>2. log[1] \in 1..MaxEvents
    BY <2>1, InSeq
  <2>3. log[1] = latest - Len(log) + 1
    BY <2>1, Zenon DEF Ends
  <2>4. QED
    BY <2>1, <2>2, <2>3
<1>2. CASE Len(log) <= MaxLog
  BY <1>1, <1>2 DEF Events!Pruned
<1>3. CASE Len(log) > MaxLog
  <2>1. i # Events!NoIndex /\ i > 0 => i \in 1..Len(log) - 1
    BY <1>1 DEF Events!CheckpointIndex
  <2> HIDE DEF i
  <2>2. /\ cut \in Seq(1..MaxEvents) /\ Len(cut) \in 1..MaxLog + 1 /\ Ends(cut, latest) /\ Len(cut) <= Len(log)
    <3>1. CASE i # Events!NoIndex /\ i > 0
      <4>1. i \in 0..Len(log)
        BY <1>1, <2>1, <3>1
      <4>2. /\ Events!Drop(log, i) \in Seq(1..MaxEvents) /\ Len(Events!Drop(log, i)) = Len(log) - i
            /\ Ends(Events!Drop(log, i), latest)
        BY <4>1, DropIsSuffix DEF LogParams
      <4>3. cut = Events!Drop(log, i)
        BY <3>1
      <4> HIDE DEF cut
      <4>4. QED
        BY <1>1, <2>1, <3>1, <4>2, <4>3 DEF LogParams
    <3>2. CASE ~(i # Events!NoIndex /\ i > 0)
      BY <1>1, <3>2
    <3>3. QED
      BY <3>1, <3>2
  <2> HIDE DEF cut
  <2>3. b \in 0..Len(cut) /\ Len(cut) - b \in 1..MaxLog /\ Len(cut) \in Nat
    BY <2>2 DEF LogParams
  <2> HIDE DEF b
  <2>4. rest \in Seq(1..MaxEvents) /\ Len(rest) = Len(cut) - b /\ Ends(rest, latest)
    BY <2>2, <2>3, DropIsSuffix DEF LogParams
  <2>5. Events!Pruned(log, cp) = rest
    BY <1>1, <1>3 DEF Events!Pruned, LogParams, i, cut, b
  <2> HIDE DEF rest
  <2>6. rest[1] = latest - Len(rest) + 1 /\ Len(rest) <= Len(log) /\ Len(rest) \in 1..MaxLog
    BY <1>1, <2>2, <2>3, <2>4 DEF Ends
  <2>7. QED
    BY <1>1, <2>4, <2>5, <2>6
<1>4. QED
  BY <1>1, <1>2, <1>3 DEF LogParams

\* An event: it is logged, and the pages that are connected get it.
LEMMA LoggedKeeps ==
  ASSUME LogParams, Events!EventsInv, NEW isCheckpoint \in BOOLEAN, Events!Logged(isCheckpoint),
         completed' \in BOOLEAN, UNCHANGED sseClients
  PROVE  Events!EventsInv'
<1> DEFINE n == nextEventId
           cp == IF isCheckpoint THEN n ELSE checkpoint
           log == Append(eventLog, n)
<1>1. /\ n \in 1..MaxEvents /\ n \in Nat /\ cp \in 0..MaxEvents /\ cp \in 0..n /\ checkpoint \in 0..n - 1
      /\ eventLog \in Seq(1..MaxEvents) /\ Len(eventLog) \in 0..MaxLog
      /\ sseClients \subseteq Page /\ based \subseteq Page /\ lastId \in [Page -> 0..MaxEvents]
  BY DEF LogParams, Events!EventsInv, Events!TypeOK, Events!SeenIsBased, Events!Logged
<1>2. /\ nextEventId' = n + 1 /\ checkpoint' = cp /\ eventLog' = Events!Pruned(log, cp)
      /\ lastId' = [p \in Page |-> IF p \in sseClients THEN n ELSE lastId[p]]
      /\ based' = IF isCheckpoint THEN based \cup sseClients ELSE based
  BY DEF Events!Logged
<1>3. /\ log \in Seq(1..MaxEvents) /\ Len(log) = Len(eventLog) + 1 /\ log[Len(log)] = n
      /\ \A i \in 1..Len(eventLog) : log[i] = eventLog[i]
  BY <1>1
<1> HIDE DEF log
<1>4. Ends(log, n) /\ Len(log) \in 1..MaxLog + 1
  <2>1. ASSUME NEW i \in 1..Len(log) PROVE log[i] = n - Len(log) + i
    <3>1. CASE i = Len(log)
      BY <1>1, <1>3, <3>1
    <3>2. CASE i # Len(log)
      <4>1. i \in 1..Len(eventLog) /\ log[i] = eventLog[i]
        BY <1>1, <1>3, <3>2
      <4>2. eventLog[i] = n - 1 - Len(eventLog) + i
        BY <4>1 DEF Events!EventsInv, Events!LogIsContiguous
      <4>3. QED
        BY <1>1, <1>3, <4>1, <4>2
    <3>3. QED
      BY <3>1, <3>2
  <2>2. QED
    BY <1>1, <1>3, <2>1 DEF Ends, LogParams
<1> HIDE DEF cp, n
<1>5. /\ eventLog' \in Seq(1..MaxEvents) /\ Len(eventLog') \in 1..MaxLog /\ Ends(eventLog', n)
      /\ eventLog'[1] >= log[1]
  BY <1>1, <1>2, <1>3, <1>4, PruneKeepsEnd
<1>6. Events!TypeOK'
  <2>1. nextEventId' \in 1..MaxEvents + 1 /\ lastId' \in [Page -> 0..MaxEvents] /\ based' \subseteq Page
    BY <1>1, <1>2 DEF LogParams
  <2>2. QED
    BY <1>1, <1>2, <1>5, <2>1 DEF Events!TypeOK, LogParams
<1>7. Events!LogIsContiguous'
  <2>1. ASSUME NEW i \in 1..Len(eventLog') PROVE eventLog'[i] = nextEventId' - 1 - Len(eventLog') + i
    <3>1. eventLog'[i] = n - Len(eventLog') + i
      BY <1>5 DEF Ends
    <3>2. QED
      BY <1>1, <1>2, <1>5, <3>1
  <2>2. eventLog' # <<>>
    BY <1>5
  <2>3. QED
    BY <2>1, <2>2 DEF Events!LogIsContiguous
<1>8. Events!SeenIsBased'
  <2>1. checkpoint' < nextEventId'
    BY <1>1, <1>2
  <2>2. ASSUME NEW p \in Page
        PROVE  /\ lastId'[p] < nextEventId' /\ (p \in sseClients => lastId'[p] = nextEventId' - 1)
               /\ lastId'[p] >= checkpoint' =>
                    p \in based' \/ (eventLog' # <<>> /\ eventLog'[1] > checkpoint')
    <3>1. /\ lastId[p] \in Nat /\ lastId[p] < n /\ (p \in sseClients => lastId[p] = n - 1)
          /\ lastId[p] >= checkpoint => p \in based \/ (eventLog # <<>> /\ eventLog[1] > checkpoint)
      BY <1>1 DEF Events!EventsInv, Events!SeenIsBased, n
    <3>2. lastId'[p] = IF p \in sseClients THEN n ELSE lastId[p]
      BY <1>2
    <3>3. lastId'[p] < nextEventId' /\ (p \in sseClients => lastId'[p] = nextEventId' - 1)
      BY <1>1, <1>2, <3>1, <3>2
    <3>4. CASE isCheckpoint
      BY <1>1, <1>2, <3>1, <3>2, <3>3, <3>4 DEF cp
    <3>5. CASE ~isCheckpoint
      <4>1. cp = checkpoint /\ based' = based
        BY <1>2, <3>5 DEF cp
      <4>2. lastId'[p] >= checkpoint' => lastId[p] >= checkpoint
        BY <1>1, <1>2, <3>1, <3>2, <4>1
      <4>3. eventLog # <<>> /\ eventLog[1] > checkpoint => eventLog'[1] > checkpoint'
        <5>1. eventLog # <<>> => Len(eventLog) \in 1..MaxLog /\ log[1] = eventLog[1] /\ eventLog[1] \in 1..MaxEvents
          <6>1. eventLog # <<>> => Len(eventLog) \in 1..MaxLog /\ 1 \in 1..Len(eventLog)
            BY <1>1
          <6>2. QED
            BY <1>1, <1>3, <6>1, InSeq
        <5>2. eventLog'[1] \in 1..MaxEvents
          <6>1. 1 \in 1..Len(eventLog')
            BY <1>5 DEF LogParams
          <6>2. QED
            BY <1>5, <6>1, InSeq
        <5>3. QED
          BY <1>1, <1>2, <1>5, <4>1, <5>1, <5>2
      <4>4. eventLog' # <<>>
        BY <1>5
      <4>5. QED
        BY <3>1, <3>3, <4>1, <4>2, <4>3, <4>4
    <3>6. QED
      BY <3>4, <3>5
  <2>3. QED
    BY <2>1, <2>2 DEF Events!SeenIsBased
<1>9. QED
  BY <1>6, <1>7, <1>8 DEF Events!EventsInv

\* A page connects: it gets what follows its last event, or the log from the latest checkpoint on.
LEMMA ConnectKeeps ==
  ASSUME LogParams, Events!EventsInv, NEW p \in Page, Events!Connect(p)
  PROVE  Events!EventsInv'
<1> DEFINE n == nextEventId - 1
<1>1. /\ nextEventId \in 1..MaxEvents + 1 /\ n \in 0..MaxEvents /\ checkpoint \in 0..n
      /\ eventLog \in Seq(1..MaxEvents) /\ Len(eventLog) \in 0..MaxLog /\ completed \in BOOLEAN
      /\ sseClients \subseteq Page /\ based \subseteq Page /\ lastId \in [Page -> 0..MaxEvents]
      /\ lastId[p] \in 0..n /\ Ends(eventLog, n) /\ (n > 0 => eventLog # <<>>)
      /\ sseClients' = sseClients \cup {p} /\ UNCHANGED <<nextEventId, eventLog, checkpoint, completed>>
  BY DEF LogParams, Events!EventsInv, Events!TypeOK, Events!SeenIsBased, Events!LogIsContiguous, Events!Connect, Ends
<1>2. PICK known \in BOOLEAN :
        /\ known => lastId[p] # 0
        /\ LET got == Events!Replayed(p, known)
               from == IF known THEN lastId[p] ELSE 0
               gapless == IF got = {} THEN from = nextEventId - 1 ELSE from + 1 \in got
           IN /\ lastId' = [lastId EXCEPT ![p] = IF got = {} THEN from ELSE Events!Max(got)]
              /\ based' = IF \/ gapless /\ (known => p \in based)
                             \/ checkpoint # 0 /\ checkpoint \in got
                          THEN based \cup {p} ELSE based \ {p}
  BY DEF Events!Connect
<1> DEFINE got == Events!Replayed(p, known)
           from == IF known THEN lastId[p] ELSE 0
           first == eventLog[1]
<1>3. eventLog # <<>> => Len(eventLog) \in 1..MaxLog /\ first = n - Len(eventLog) + 1 /\ first \in 1..n /\ first \in Nat
  <2> SUFFICES ASSUME eventLog # <<>>
               PROVE  Len(eventLog) \in 1..MaxLog /\ first = n - Len(eventLog) + 1 /\ first \in 1..n /\ first \in Nat
    OBVIOUS
  <2>1. Len(eventLog) \in 1..MaxLog /\ 1 \in 1..Len(eventLog)
    BY <1>1
  <2>2. first = n - Len(eventLog) + 1
    BY <1>1, <2>1 DEF Ends
  <2>3. first \in 1..MaxEvents
    BY <1>1, <2>1, InSeq
  <2>4. QED
    BY <1>1, <2>1, <2>2, <2>3
\* The log holds the ids from its first one to the latest.
<1>4. ASSUME NEW log \in Seq(1..MaxEvents), Ends(log, n), log # <<>>
      PROVE  \A id \in Nat : id \in Events!Range(log) <=> n - Len(log) < id /\ id <= n
  <2>1. ASSUME NEW id \in Nat, id \in Events!Range(log) PROVE n - Len(log) < id /\ id <= n
    <3>1. PICK i \in 1..Len(log) : id = log[i]
      BY <2>1 DEF Events!Range
    <3>2. QED
      BY <1>1, <1>4, <3>1 DEF Ends
  <2>2. ASSUME NEW id \in Nat, n - Len(log) < id, id <= n PROVE id \in Events!Range(log)
    <3>1. id - (n - Len(log)) \in 1..Len(log)
      BY <1>1, <2>2
    <3>2. log[id - (n - Len(log))] = id
      BY <1>1, <1>4, <3>1 DEF Ends
    <3>3. QED
      BY <3>1, <3>2 DEF Events!Range
  <2>3. QED
    BY <2>1, <2>2
<1>5. /\ got \subseteq Nat /\ (\A id \in got : id <= n) /\ (got # {} => n \in got) /\ (got = {} => from = n)
      /\ \/ eventLog # <<>> /\ first > checkpoint
         \/ from + 1 \in got /\ (known => p \in based)
         \/ got = {} /\ (known => p \in based)
         \/ checkpoint # 0 /\ checkpoint \in got
  <2>1. CASE known
    <3>1. eventLog # <<>> /\ lastId[p] \in 1..n
      BY <1>1, <1>2, <2>1
    <3>2. \A id \in Nat : id \in Events!Range(eventLog) <=> first <= id /\ id <= n
      <4>1. \A id \in Nat : id \in Events!Range(eventLog) <=> n - Len(eventLog) < id /\ id <= n
        BY <1>1, <1>4, <3>1
      <4>2. QED
        BY <1>1, <1>3, <3>1, <4>1
    <3>3. Events!Range(eventLog) \subseteq Nat
      BY <1>1, IdsAreNumbers DEF LogParams
    <3>4. got = {id \in Events!Range(eventLog) : id > lastId[p]} /\ from = lastId[p]
      BY <2>1 DEF Events!Replayed
    <3> HIDE DEF got, from
    <3>5. \A id \in Nat : id \in got <=> first <= id /\ id <= n /\ id > lastId[p]
      BY <3>2, <3>4
    <3>6. got \subseteq Nat /\ (\A id \in got : id <= n)
      BY <3>3, <3>4, <3>5
    <3>7. (lastId[p] < n => n \in got) /\ (lastId[p] = n => got = {})
      BY <1>1, <1>3, <3>1, <3>5, <3>6
    <3>8. CASE first > checkpoint
      BY <1>1, <3>1, <3>4, <3>6, <3>7, <3>8
    <3>9. CASE first <= checkpoint /\ lastId[p] < checkpoint
      <4>1. checkpoint \in got /\ checkpoint # 0
        BY <1>1, <1>3, <3>1, <3>5, <3>9
      <4>2. QED
        BY <1>1, <3>1, <3>4, <3>6, <3>7, <4>1
    <3>10. CASE first <= checkpoint /\ lastId[p] >= checkpoint
      <4>1. p \in based
        BY <1>1, <1>3, <3>1, <3>10 DEF Events!EventsInv, Events!SeenIsBased
      <4>2. CASE lastId[p] < n
        <5>1. from + 1 \in got
          BY <1>1, <1>3, <3>1, <3>4, <3>5, <3>10, <4>2
        <5>2. QED
          BY <1>1, <3>1, <3>4, <3>6, <3>7, <4>1, <4>2, <5>1
      <4>3. CASE lastId[p] = n
        BY <3>4, <3>6, <3>7, <4>1, <4>3
      <4>4. QED
        BY <1>1, <3>1, <4>2, <4>3
    <3>11. QED
      BY <1>1, <1>3, <3>1, <3>8, <3>9, <3>10
  <2>2. CASE ~known
    <3> DEFINE i == Events!CheckpointIndex(eventLog, checkpoint)
    <3>1. got = Events!Range(IF i # Events!NoIndex THEN Events!Drop(eventLog, i) ELSE eventLog) /\ from = 0
      BY <2>2 DEF Events!Replayed
    <3>2. CASE eventLog = <<>>
      <4>1. i = Events!NoIndex /\ n = 0
        BY <1>1, <3>2 DEF Events!CheckpointIndex
      <4>2. got = {}
        BY <3>1, <3>2, <4>1 DEF Events!Range
      <4> HIDE DEF got, from
      <4>3. QED
        BY <2>2, <3>1, <4>1, <4>2
    <3>3. CASE eventLog # <<>> /\ first > checkpoint
      <4>1. i = Events!NoIndex
        BY <1>1, <1>3, <3>3 DEF Events!CheckpointIndex
      <4>2. got = Events!Range(eventLog)
        BY <3>1, <4>1
      <4>3. Events!Range(eventLog) \subseteq Nat
        BY <1>1, IdsAreNumbers DEF LogParams
      <4> HIDE DEF got, from, i
      <4>4. \A id \in Nat : id \in got <=> n - Len(eventLog) < id /\ id <= n
        BY <1>1, <1>4, <3>3, <4>2
      <4>5. n \in got /\ got \subseteq Nat /\ \A id \in got : id <= n
        BY <1>1, <1>3, <3>3, <4>2, <4>3, <4>4
      <4>6. QED
        BY <3>3, <4>5
    <3>4. CASE eventLog # <<>> /\ first <= checkpoint
      <4>1. i = checkpoint - first /\ i \in 0..Len(eventLog) - 1 /\ i # Events!NoIndex /\ checkpoint # 0
        <5>1. checkpoint # 0 /\ ~(checkpoint < first)
          BY <1>1, <1>3, <3>4
        <5>2. i = checkpoint - first
          BY <3>4, <5>1 DEF Events!CheckpointIndex
        <5>3. QED
          BY <1>1, <1>3, <3>4, <5>1, <5>2 DEF Events!NoIndex, LogParams
      <4> DEFINE log == Events!Drop(eventLog, i)
      <4>2. got = Events!Range(log)
        BY <3>1, <4>1
      <4> HIDE DEF got, from, i
      <4>3. log \in Seq(1..MaxEvents) /\ Len(log) = Len(eventLog) - i /\ Ends(log, n)
        <5>1. i \in 0..Len(eventLog)
          BY <1>1, <4>1
        <5>2. QED
          BY <1>1, <5>1, DropIsSuffix DEF LogParams
      <4> HIDE DEF log
      <4>4. log # <<>> /\ Events!Range(log) \subseteq Nat
        <5>1. Events!Range(log) \subseteq Nat
          BY <4>3, IdsAreNumbers DEF LogParams
        <5>2. Len(log) # 0
          BY <1>1, <4>1, <4>3
        <5>3. QED
          BY <5>1, <5>2
      <4>5. \A id \in Nat : id \in got <=> n - Len(log) < id /\ id <= n
        BY <1>4, <4>2, <4>3, <4>4
      <4>6. n \in got /\ checkpoint \in got /\ got \subseteq Nat /\ \A id \in got : id <= n
        <5>1. n - Len(log) = checkpoint - 1
          BY <1>1, <1>3, <3>4, <4>1, <4>3
        <5>2. QED
          BY <1>1, <4>2, <4>4, <4>5, <5>1
      <4>7. QED
        BY <4>1, <4>6
    <3>5. QED
      BY <1>1, <1>3, <3>2, <3>3, <3>4
  <2>3. QED
    BY <2>1, <2>2
<1>6. /\ lastId' = [lastId EXCEPT ![p] = IF got = {} THEN from ELSE Events!Max(got)]
      /\ based' = IF \/ (IF got = {} THEN from = n ELSE from + 1 \in got) /\ (known => p \in based)
                     \/ checkpoint # 0 /\ checkpoint \in got
                  THEN based \cup {p} ELSE based \ {p}
  BY <1>2
<1> HIDE DEF got, from, n
<1>7. got # {} => Events!Max(got) = n
  <2>1. got # {} => n \in got /\ \A id \in got : n >= id
    BY <1>1, <1>5
  <2>2. got # {} => Events!Max(got) \in got /\ \A id \in got : Events!Max(got) >= id
    BY <2>1 DEF Events!Max
  <2> DEFINE m == Events!Max(got)
  <2>3. got # {} => m \in Nat /\ m <= n /\ m >= n
    BY <1>5, <2>1, <2>2
  <2> HIDE DEF m
  <2>4. got # {} => m = n
    BY <1>1, <2>3
  <2>5. QED
    BY <2>4 DEF m
<1>8. /\ lastId' \in [Page -> 0..MaxEvents] /\ lastId'[p] = n /\ (\A q \in Page \ {p} : lastId'[q] = lastId[q])
  BY <1>1, <1>5, <1>6, <1>7
<1>9. /\ based' \subseteq Page /\ (\A q \in Page \ {p} : q \in based' <=> q \in based)
      /\ p \in based' \/ (eventLog # <<>> /\ first > checkpoint)
  BY <1>1, <1>5, <1>6
<1>10. Events!TypeOK' /\ Events!LogIsContiguous'
  BY <1>1, <1>8, <1>9 DEF Events!EventsInv, Events!TypeOK, Events!LogIsContiguous
<1>11. Events!SeenIsBased'
  <2>1. checkpoint' < nextEventId'
    BY <1>1 DEF n
  <2>2. ASSUME NEW q \in Page
        PROVE  /\ lastId'[q] < nextEventId' /\ (q \in sseClients' => lastId'[q] = nextEventId' - 1)
               /\ lastId'[q] >= checkpoint' =>
                    q \in based' \/ (eventLog' # <<>> /\ eventLog'[1] > checkpoint')
    <3>1. CASE q = p
      <4>1. n < nextEventId
        BY <1>1 DEF n
      <4>2. QED
        BY <1>1, <1>8, <1>9, <3>1, <4>1 DEF n
    <3>2. CASE q # p
      <4>1. /\ lastId[q] < nextEventId /\ (q \in sseClients => lastId[q] = nextEventId - 1)
            /\ lastId[q] >= checkpoint => q \in based \/ (eventLog # <<>> /\ eventLog[1] > checkpoint)
        BY DEF Events!EventsInv, Events!SeenIsBased
      <4>2. QED
        BY <1>1, <1>8, <1>9, <3>2, <4>1
    <3>3. QED
      BY <3>1, <3>2
  <2>3. QED
    BY <2>1, <2>2 DEF Events!SeenIsBased
<1>12. QED
  BY <1>10, <1>11 DEF Events!EventsInv

-----------------------------------------------------------------------------
(* The theorem *)

\* Before the first event nothing is logged, and nobody connected.
LEMMA EventsBegin == LogParams /\ Events!Init => Events!EventsInv
<1> SUFFICES ASSUME LogParams, Events!Init PROVE Events!EventsInv
  OBVIOUS
<1>1. /\ nextEventId = 1 /\ eventLog = <<>> /\ Len(eventLog) = 0 /\ checkpoint = 0 /\ completed = FALSE
      /\ sseClients = {} /\ based = Page /\ lastId = [p \in Page |-> 0]
      /\ 0 \in 0..MaxEvents /\ 1 \in 1..MaxEvents + 1 /\ eventLog \in Seq(1..MaxEvents) /\ 0 <= MaxLog
  BY DEF Events!Init, LogParams
<1>2. Events!TypeOK
  BY <1>1 DEF Events!TypeOK
<1>3. Events!LogIsContiguous /\ Events!SeenIsBased
  BY <1>1 DEF Events!LogIsContiguous, Events!SeenIsBased
<1>4. QED
  BY <1>2, <1>3 DEF Events!EventsInv

\* So every step keeps EventsInv.
LEMMA EventsKeep ==
  ASSUME LogParams, Events!EventsInv, Events!Next \/ UNCHANGED events
  PROVE  Events!EventsInv'
<1>1. CASE Events!Push
  <2>1. completed' \in BOOLEAN /\ UNCHANGED sseClients
    BY <1>1 DEF Events!Push, Events!EventsInv, Events!TypeOK
  <2>2. QED
    BY <1>1, <2>1, LoggedKeeps DEF Events!Push
<1>2. CASE Events!Complete
  <2>1. completed' \in BOOLEAN /\ UNCHANGED sseClients /\ Events!Logged(FALSE)
    BY <1>2 DEF Events!Complete
  <2>2. QED
    BY <2>1, LoggedKeeps
<1>3. ASSUME NEW p \in Page, Events!Disconnect(p) PROVE Events!EventsInv'
  <2>1. /\ sseClients' \subseteq sseClients
        /\ UNCHANGED <<nextEventId, eventLog, checkpoint, completed, lastId, based>>
    BY <1>3 DEF Events!Disconnect
  <2>2. QED
    BY <2>1 DEF Events!EventsInv, Events!TypeOK, Events!LogIsContiguous, Events!SeenIsBased
<1>4. ASSUME UNCHANGED events PROVE Events!EventsInv'
  BY <1>4 DEF events, Events!EventsInv, Events!TypeOK, Events!LogIsContiguous, Events!SeenIsBased
<1>5. QED
  BY <1>1, <1>2, <1>3, <1>4, ConnectKeeps DEF Events!Next

-----------------------------------------------------------------------------
(* The pages and their events *)

\* Before the first call there is no page.
LEMMA UiBegins == Pages /\ Ui!Init => Ui!UiInv
<1> SUFFICES ASSUME Pages, Ui!Init PROVE Ui!UiInv
  OBVIOUS
<1>1. Ui!FirstTool \in Tool
  BY DEF Pages, Ui!FirstTool
<1>2. Ui!TypeOK
  BY <1>1 DEF Ui!Init, Ui!TypeOK, Pages
<1>3. QED
  BY <1>2 DEF Ui!Init, Ui!UiInv, Ui!OnePage, Ui!WindowIsLive, Ui!NothingTypedIsLost, Ui!ListenersAreLive,
              Ui!StartingIsApart, Ui!ServerIsUp

\* So every step keeps UiInv.
LEMMA UiKeeps ==
  ASSUME Pages, Ui!UiInv, Ui!Next \/ UNCHANGED ui
  PROVE  Ui!UiInv'
<1>1. ASSUME UNCHANGED ui PROVE Ui!UiInv'
  BY <1>1 DEF ui, Ui!UiInv, Ui!TypeOK, Ui!OnePage, Ui!WindowIsLive, Ui!NothingTypedIsLost,
              Ui!Recorded, Ui!ListenersAreLive, Ui!StartingIsApart, Ui!ServerIsUp
<1>2. QED
  BY <1>1, StartKeeps, StartFailsKeeps, ResourceReadKeeps, StartedKeeps, OpenedKeeps, OpeningCancelledKeeps,
     ReturnsKeeps, PageCompletesKeeps, WindowClosesKeeps, ListenersCloseKeeps, UserTypesKeeps, AgentReadsKeeps,
     RuntimeStopsKeeps, ManagerClosesKeeps DEF Ui!Next

\* UiInv and EventsInv hold in every behaviour.
LEMMA PagesInvariant ==
  ASSUME Pages, LogParams
  PROVE  Spec => [](Ui!UiInv /\ Events!EventsInv)
<1>1. Init => Ui!UiInv /\ Events!EventsInv
  BY UiBegins, EventsBegin DEF Init
<1>2. Ui!UiInv /\ Events!EventsInv /\ [Next]_vars => Ui!UiInv' /\ Events!EventsInv'
  <2> SUFFICES ASSUME Ui!UiInv, Events!EventsInv, [Next]_vars PROVE Ui!UiInv' /\ Events!EventsInv'
    OBVIOUS
  <2>1. Ui!Next \/ UNCHANGED ui
    BY DEF Next, vars
  <2>2. Events!Next \/ UNCHANGED events
    BY DEF Next, vars
  <2>3. QED
    BY <2>1, <2>2, UiKeeps, EventsKeep
<1>3. QED
  BY <1>1, <1>2, PTL DEF Spec

\* One page is the runtime's, windows live no longer than theirs and listeners no longer than their
\* page or call, and what was typed is kept until the agent reads it, but for the oldest beyond the
\* limits, whatever these are (ui-session.ts); the log is contiguous and a connected page has
\* everything since the latest checkpoint that is still in it (ui-server.ts).
THEOREM PagesServed ==
  ASSUME Pages, LogParams
  PROVE  Spec => []PagesAreServed
<1>1. Ui!UiInv /\ Events!EventsInv => PagesAreServed
  <2> SUFFICES ASSUME Ui!UiInv, Events!EventsInv PROVE PagesAreServed
    OBVIOUS
  <2>1. Events!PagesAreBased
    BY DEF Events!EventsInv, Events!TypeOK, Events!SeenIsBased, Events!PagesAreBased
  <2>2. QED
    BY <2>1 DEF Ui!UiInv, Events!EventsInv, PagesAreServed
<1>2. QED
  BY <1>1, PagesInvariant, PTL

-----------------------------------------------------------------------------
(* HostManaged *)

\* The versions of a definition are none of the marks of a re-list, and there is one.
Versions == Version # {} /\ Version \cap {"none", "asked", None} = {}

CallRow == [pc : {"idle", "approving", "checking", "host", "settled"},
            dispatch : {"none", "checking", "waiting", "done", "failed"},
            sent : BOOLEAN, ran : BOOLEAN, aborted : BOOLEAN]

\* The parts of HostInv that speak of one call.
CallHolds(row, said) ==
  /\ row.pc \in {"idle", "approving", "checking"} => row.dispatch = "none"
  /\ row.dispatch = "none" => ~row.sent
  /\ row.ran => row.sent
  /\ row.pc # "idle" => frozen
  /\ said = "not run" => row.pc = "settled" /\ ~row.sent /\ ~row.ran

\* A step of one call that leaves it sound keeps HostInv.
LEMMA OneHostCall ==
  ASSUME Host!HostInv, UNCHANGED <<Host!startVars, Host!listVars>>, NEW c \in HostCall,
         NEW row \in CallRow, call' = [call EXCEPT ![c] = row],
         NEW said \in {"none", "not run", "other"}, told' = [told EXCEPT ![c] = said],
         CallHolds(row, said)
  PROVE  Host!HostInv'
<1> USE DEF Host!HostInv, Host!startVars, Host!listVars
<1>1. /\ call' \in [HostCall -> CallRow] /\ told' \in [HostCall -> {"none", "not run", "other"}]
      /\ call'[c] = row /\ told'[c] = said
      /\ \A d \in HostCall : d # c => call'[d] = call[d] /\ told'[d] = told[d]
  BY DEF Host!TypeOK, CallRow
<1>2. Host!TypeOK'
  BY <1>1 DEF Host!TypeOK, CallRow
<1>3. Host!CallsAreOrdered' /\ Host!NotRunIsTrue'
  BY <1>1 DEF Host!CallsAreOrdered, Host!NotRunIsTrue, CallHolds
<1>4. Host!TransportIsOwned' /\ Host!ChangeIsOnItsWay'
  BY DEF Host!TransportIsOwned, Host!ChangeIsOnItsWay, Host!Closed
<1>5. QED
  BY <1>2, <1>3, <1>4

\* What HostInv says of one call.
LEMMA HostCallHolds ==
  ASSUME Host!HostInv, NEW c \in HostCall
  PROVE  call[c] \in CallRow /\ told[c] \in {"none", "not run", "other"} /\ CallHolds(call[c], told[c])
BY DEF Host!HostInv, Host!TypeOK, Host!CallsAreOrdered, Host!NotRunIsTrue, CallRow, CallHolds

\* Every call keeps its record, but that it is aborted.
LEMMA AllAborted ==
  ASSUME Host!HostInv, call' = [c \in HostCall |-> [call[c] EXCEPT !.aborted = TRUE]],
         frozen' = frozen, told' = told
  PROVE  /\ call' \in [HostCall -> CallRow]
         /\ Host!CallsAreOrdered' /\ Host!NotRunIsTrue'
<1> USE DEF Host!HostInv
<1>1. call \in [HostCall -> CallRow]
  BY DEF Host!TypeOK, CallRow
<1>2. \A c \in HostCall :
        /\ call'[c].pc = call[c].pc /\ call'[c].dispatch = call[c].dispatch
        /\ call'[c].sent = call[c].sent /\ call'[c].ran = call[c].ran /\ call'[c] \in CallRow
  BY <1>1 DEF CallRow
<1>3. QED
  BY <1>1, <1>2 DEF Host!CallsAreOrdered, Host!NotRunIsTrue

\* A call goes on, with what else it is.
LEMMA CallMoves ==
  ASSUME Host!HostInv, UNCHANGED <<Host!startVars, Host!listVars>>, NEW c \in HostCall,
         \/ Host!Execute(c) \/ Host!Checked(c) \/ Host!Dispatch(c) \/ Host!Send(c) \/ Host!Runs(c)
         \/ Host!HostReturns(c) \/ Host!HostThrows(c) \/ Host!AbortCall(c) \/ Host!Over(c)
         \/ \E yes \in BOOLEAN : Host!Approved(c, yes) \/ Host!Answered(c, yes)
  PROVE  Host!HostInv'
<1>1. /\ call[c] \in CallRow /\ CallHolds(call[c], told[c])
      /\ told[c] \in {"none", "not run", "other"} /\ told = [told EXCEPT ![c] = told[c]]
  BY HostCallHolds DEF Host!HostInv, Host!TypeOK
<1> DEFINE Changed(row, said) ==
      /\ row \in CallRow /\ said \in {"none", "not run", "other"} /\ CallHolds(row, said)
      /\ call' = [call EXCEPT ![c] = row] /\ told' = [told EXCEPT ![c] = said]
<1>2. ASSUME NEW said \in {"not run", "other"}, Host!Settle(c, said), frozen,
             said = "not run" => ~call[c].sent
      PROVE  Changed([call[c] EXCEPT !.pc = "settled"], said)
  BY <1>1, <1>2 DEF Host!Settle, CallRow, CallHolds
<1>3. CASE Host!Execute(c)
  <2>1. CASE Host!Settle(c, "not run")
    <3>1. frozen /\ ~call[c].sent
      BY <1>1, <1>3 DEF Host!Execute, CallHolds
    <3>2. QED
      BY <1>2, <2>1, <3>1, OneHostCall
  <2>2. CASE call' = [call EXCEPT ![c].pc = "approving"] /\ UNCHANGED told
    <3>1. Changed([call[c] EXCEPT !.pc = "approving"], told[c])
      BY <1>1, <1>3, <2>2 DEF Host!Execute, CallRow, CallHolds
    <3>2. QED
      BY <3>1, OneHostCall
  <2>3. QED
    BY <1>3, <2>1, <2>2 DEF Host!Execute
<1>4. CASE Host!Checked(c)
  <2>1. CASE Host!Settle(c, "not run")
    <3>1. frozen /\ ~call[c].sent
      BY <1>1, <1>4 DEF Host!Checked, CallHolds
    <3>2. QED
      BY <1>2, <2>1, <3>1, OneHostCall
  <2>2. CASE call' = [call EXCEPT ![c].pc = "host"] /\ UNCHANGED told
    <3>1. Changed([call[c] EXCEPT !.pc = "host"], told[c])
      BY <1>1, <1>4, <2>2 DEF Host!Checked, CallRow, CallHolds
    <3>2. QED
      BY <3>1, OneHostCall
  <2>3. QED
    BY <1>4, <2>1, <2>2 DEF Host!Checked
<1>5. CASE Host!Dispatch(c)
  <2>1. Changed([call[c] EXCEPT !.dispatch = "checking"], told[c])
    BY <1>1, <1>5 DEF Host!Dispatch, CallRow, CallHolds
  <2>2. QED
    BY <2>1, OneHostCall
<1>6. CASE Host!Send(c)
  <2> DEFINE going == [call[c] EXCEPT !.dispatch = "waiting"]
             gone  == [going EXCEPT !.sent = TRUE]
  <2>1. CASE call' = [call EXCEPT ![c].dispatch = "failed"]
    <3>1. Changed([call[c] EXCEPT !.dispatch = "failed"], told[c])
      BY <1>1, <1>6, <2>1 DEF Host!Send, CallRow, CallHolds
    <3>2. QED
      BY <3>1, OneHostCall
  <2>2. CASE call[c].pc # "settled" /\ call' = [call EXCEPT ![c].dispatch = "waiting", ![c].sent = TRUE]
    <3>1. call' = [call EXCEPT ![c] = gone]
      BY <1>1, <2>2 DEF CallRow, Host!HostInv, Host!TypeOK
    <3>2. gone \in CallRow /\ CallHolds(gone, told[c])
      BY <1>1, <1>6, <2>2 DEF Host!Send, CallRow, CallHolds
    <3>3. told' = [told EXCEPT ![c] = told[c]]
      BY <1>1, <1>6 DEF Host!Send
    <3>4. QED
      BY <1>1, <3>1, <3>2, <3>3, OneHostCall
  <2>3. QED
    BY <1>6, <2>1, <2>2 DEF Host!Send, Host!Unavailable
<1>7. CASE Host!Runs(c)
  <2>1. Changed([call[c] EXCEPT !.ran = TRUE], told[c])
    BY <1>1, <1>7 DEF Host!Runs, CallRow, CallHolds
  <2>2. QED
    BY <2>1, OneHostCall
<1>8. CASE Host!HostReturns(c)
  <2>1. frozen
    BY <1>1, <1>8 DEF Host!HostReturns, CallHolds
  <2>2. QED
    BY <1>2, <1>8, <2>1, OneHostCall DEF Host!HostReturns
<1>9. CASE Host!HostThrows(c)
  <2>1. frozen
    BY <1>1, <1>9 DEF Host!HostThrows, CallHolds
  <2>2. QED
    BY <1>2, <1>9, <2>1, OneHostCall DEF Host!HostThrows
<1>10. CASE Host!AbortCall(c)
  <2>1. Changed([call[c] EXCEPT !.aborted = TRUE], told[c])
    BY <1>1, <1>10 DEF Host!AbortCall, CallRow, CallHolds
  <2>2. QED
    BY <2>1, OneHostCall
<1>11. CASE Host!Over(c)
  <2>1. Changed(Host!Fresh, "none")
    BY <1>1, <1>11 DEF Host!Over, Host!Fresh, CallRow, CallHolds
  <2>2. QED
    BY <2>1, OneHostCall
<1>12. ASSUME NEW yes \in BOOLEAN, Host!Approved(c, yes) PROVE Host!HostInv'
  <2>1. CASE Host!Settle(c, "not run")
    <3>1. frozen /\ ~call[c].sent
      BY <1>1, <1>12 DEF Host!Approved, CallHolds
    <3>2. QED
      BY <1>2, <2>1, <3>1, OneHostCall
  <2>2. CASE call' = [call EXCEPT ![c].pc = "checking"] /\ UNCHANGED told
    <3>1. Changed([call[c] EXCEPT !.pc = "checking"], told[c])
      BY <1>1, <1>12, <2>2 DEF Host!Approved, CallRow, CallHolds
    <3>2. QED
      BY <3>1, OneHostCall
  <2>3. QED
    BY <1>12, <2>1, <2>2 DEF Host!Approved
<1>13. ASSUME NEW yes \in BOOLEAN, Host!Answered(c, yes) PROVE Host!HostInv'
  <2>1. PICK to \in {"done", "failed"} : call' = [call EXCEPT ![c].dispatch = to]
    BY <1>13 DEF Host!Answered
  <2>2. Changed([call[c] EXCEPT !.dispatch = to], told[c])
    BY <1>1, <1>13, <2>1 DEF Host!Answered, CallRow, CallHolds
  <2>3. QED
    BY <2>2, OneHostCall
<1>14. QED
  BY <1>3, <1>4, <1>5, <1>6, <1>7, <1>8, <1>9, <1>10, <1>11, <1>12, <1>13

\* The connection's start and end, and its list of tools: no call is touched, or all are aborted.
LEMMA ConnectionMoves ==
  ASSUME Versions, Host!HostInv,
         \/ Host!Ready \/ Host!Delivered \/ Host!GivesUp \/ Host!Adopt \/ Host!FirstListing
         \/ Host!Selected \/ Host!StartFails \/ (\E v \in Version : Host!Change(v)) \/ Host!ListChanged
         \/ Host!ServerLists \/ (\E ok \in BOOLEAN : Host!Relisted(ok))
         \/ Host!Close \/ Host!Drained \/ Host!Swept \/ Host!Disconnects
  PROVE  Host!HostInv'
<1> USE DEF Host!HostInv
<1>1. call' \in [HostCall -> CallRow] /\ Host!CallsAreOrdered' /\ Host!NotRunIsTrue'
  <2>1. CASE Host!StartFails \/ Host!Close
    BY <2>1, AllAborted DEF Host!StartFails, Host!Close, Host!listVars
  <2>2. CASE UNCHANGED <<call, told>> /\ (frozen => frozen')
    BY <2>2 DEF Host!TypeOK, CallRow, Host!CallsAreOrdered, Host!NotRunIsTrue
  <2>3. QED
    BY <2>1, <2>2 DEF Host!Ready, Host!Delivered, Host!GivesUp, Host!Adopt, Host!FirstListing,
       Host!Selected, Host!Change, Host!ListChanged, Host!ServerLists, Host!Relisted,
       Host!Drained, Host!Swept, Host!Disconnects, Host!listVars, Host!startVars
<1>2. told' = told
  BY DEF Host!Ready, Host!Delivered, Host!GivesUp, Host!Adopt, Host!FirstListing,
       Host!Selected, Host!StartFails, Host!Change, Host!ListChanged, Host!ServerLists, Host!Relisted,
       Host!Close, Host!Drained, Host!Swept, Host!Disconnects, Host!listVars, Host!startVars
<1>3. call' \in [HostCall -> [pc : {"idle", "approving", "checking", "host", "settled"},
                            dispatch : {"none", "checking", "waiting", "done", "failed"},
                            sent : BOOLEAN, ran : BOOLEAN, aborted : BOOLEAN]]
  BY <1>1 DEF CallRow
<1> USE <1>2, <1>3 DEF Host!startVars, Host!listVars, Host!TypeOK, Host!TransportIsOwned, Host!ChangeIsOnItsWay,
                       Host!Closed
<1> DEFINE Kept == Host!TypeOK' /\ Host!TransportIsOwned' /\ Host!ChangeIsOnItsWay'
<1>4. ASSUME Host!Ready PROVE Kept
  BY <1>4 DEF Host!Ready, Versions
<1>5. ASSUME Host!Delivered PROVE Kept
  BY <1>5 DEF Host!Delivered, Versions
<1>6. ASSUME Host!GivesUp PROVE Kept
  BY <1>6 DEF Host!GivesUp, Versions
<1>7. ASSUME Host!Adopt PROVE Kept
  BY <1>7 DEF Host!Adopt, Versions
<1>8. ASSUME Host!FirstListing PROVE Kept
  BY <1>8 DEF Host!FirstListing, Versions
<1>9. ASSUME Host!Selected PROVE Kept
  BY <1>9 DEF Host!Selected, Versions
<1>10. ASSUME Host!StartFails PROVE Kept
  BY <1>10 DEF Host!StartFails, Versions
<1>11. ASSUME NEW v \in Version, Host!Change(v) PROVE Kept
  BY <1>11 DEF Host!Change, Versions
<1>12. ASSUME Host!ListChanged PROVE Kept
  BY <1>12 DEF Host!ListChanged, Versions
<1>13. ASSUME Host!ServerLists PROVE Kept
  BY <1>13 DEF Host!ServerLists, Versions
<1>14. ASSUME NEW ok \in BOOLEAN, Host!Relisted(ok) PROVE Kept
  BY <1>14 DEF Host!Relisted, Versions
<1>15. ASSUME Host!Close PROVE Kept
  BY <1>15 DEF Host!Close, Versions
<1>16. ASSUME Host!Drained PROVE Kept
  BY <1>16 DEF Host!Drained, Versions
<1>17. ASSUME Host!Swept PROVE Kept
  BY <1>17 DEF Host!Swept, Versions
<1>18. ASSUME Host!Disconnects PROVE Kept
  BY <1>18 DEF Host!Disconnects, Versions
<1>19. QED
  BY <1>1, <1>4, <1>5, <1>6, <1>7, <1>8, <1>9, <1>10, <1>11, <1>12, <1>13, <1>14, <1>15, <1>16, <1>17, <1>18

\* Nothing has begun.
LEMMA HostBegins == Versions /\ Host!Init => Host!HostInv
<1> SUFFICES ASSUME Versions, Host!Init PROVE Host!HostInv
  OBVIOUS
<1> USE DEF Host!Init
<1>1. offered \in Version
  BY DEF Versions
<1>2. call \in [HostCall -> CallRow] /\ \A c \in HostCall : call[c] = Host!Fresh
  BY DEF Host!Fresh, CallRow
<1>3. Host!TypeOK
  BY <1>1, <1>2 DEF Host!TypeOK, CallRow
<1>4. Host!CallsAreOrdered /\ Host!NotRunIsTrue
  BY <1>2 DEF Host!Fresh, Host!CallsAreOrdered, Host!NotRunIsTrue
<1>5. QED
  BY <1>3, <1>4 DEF Host!HostInv, Host!TransportIsOwned, Host!ChangeIsOnItsWay

\* So every step keeps HostInv.
LEMMA HostKeeps ==
  ASSUME Versions, Host!HostInv, Host!Next \/ UNCHANGED host
  PROVE  Host!HostInv'
<1>1. ASSUME UNCHANGED host PROVE Host!HostInv'
  BY <1>1 DEF host, Host!HostInv, Host!TypeOK, Host!CallsAreOrdered, Host!NotRunIsTrue,
              Host!TransportIsOwned, Host!ChangeIsOnItsWay, Host!Closed
<1>2. ASSUME NEW c \in HostCall,
         \/ Host!Execute(c) \/ Host!Checked(c) \/ Host!Dispatch(c) \/ Host!Send(c) \/ Host!Runs(c)
         \/ Host!HostReturns(c) \/ Host!HostThrows(c) \/ Host!AbortCall(c) \/ Host!Over(c)
         \/ \E yes \in BOOLEAN : Host!Approved(c, yes) \/ Host!Answered(c, yes)
      PROVE Host!HostInv'
  <2>1. UNCHANGED <<Host!startVars, Host!listVars>>
    BY <1>2 DEF Host!Execute, Host!Checked, Host!Dispatch, Host!Send, Host!Runs, Host!HostReturns,
                Host!HostThrows, Host!AbortCall, Host!Over, Host!Approved, Host!Answered
  <2>2. QED
    BY <1>2, <2>1, CallMoves
<1>3. QED
  BY <1>1, <1>2, ConnectionMoves DEF Host!Next

\* No request goes out under a definition known to be another than the frozen one.
LEMMA SentIsCurrent ==
  ASSUME Versions, Host!HostInv, Host!Next \/ UNCHANGED host
  PROVE  [\A c \in HostCall : ~call[c].sent /\ call'[c].sent => offered = listed \/ noted]_Host!hostVars
<1> SUFFICES ASSUME NEW c \in HostCall, ~call[c].sent, call'[c].sent
             PROVE  offered = listed \/ noted
  OBVIOUS
<1>1. call \in [HostCall -> CallRow]
  BY DEF Host!HostInv, Host!TypeOK, CallRow
<1>2. ASSUME NEW d \in HostCall, Host!Send(d) PROVE offered = listed \/ noted
  <2>1. /\ frozen /\ relist = "none"
        /\ call' = IF Host!Unavailable(d) \/ retired THEN [call EXCEPT ![d].dispatch = "failed"]
                   ELSE [call EXCEPT ![d].dispatch = "waiting", ![d].sent = TRUE]
    BY <1>2 DEF Host!HostInv, Host!CallsAreOrdered, Host!Send
  <2>2. CASE call' = [call EXCEPT ![d].dispatch = "failed"]
    BY <1>1, <2>2 DEF CallRow
  <2>3. CASE ~retired
    BY <2>1, <2>3 DEF Host!HostInv, Host!ChangeIsOnItsWay, Versions
  <2>4. QED
    BY <2>1, <2>2, <2>3
<1>3. ASSUME NEW d \in HostCall,
         \/ Host!Execute(d) \/ Host!Checked(d) \/ Host!Dispatch(d) \/ Host!Runs(d)
         \/ Host!HostReturns(d) \/ Host!HostThrows(d) \/ Host!AbortCall(d)
         \/ \E yes \in BOOLEAN : Host!Approved(d, yes) \/ Host!Answered(d, yes)
      PROVE FALSE
  <2> DEFINE Goal == call'[d].sent = call[d].sent /\ \A e \in HostCall \ {d} : call'[e] = call[e]
  <2>1. CASE Host!Execute(d) \/ Host!Checked(d)
    <3>1. Goal
      BY <1>1, <2>1 DEF CallRow, Host!Settle, Host!Execute, Host!Checked
    <3>2. QED
      BY <3>1
  <2>2. CASE Host!Dispatch(d) \/ Host!Runs(d) \/ Host!AbortCall(d)
    <3>1. Goal
      BY <1>1, <2>2 DEF CallRow, Host!Dispatch, Host!Runs, Host!AbortCall
    <3>2. QED
      BY <3>1
  <2>3. CASE Host!HostReturns(d) \/ Host!HostThrows(d)
    <3>1. Goal
      BY <1>1, <2>3 DEF CallRow, Host!Settle, Host!HostReturns, Host!HostThrows
    <3>2. QED
      BY <3>1
  <2>4. CASE \E yes \in BOOLEAN : Host!Approved(d, yes) \/ Host!Answered(d, yes)
    <3>1. Goal
      BY <1>1, <2>4 DEF CallRow, Host!Settle, Host!Approved, Host!Answered
    <3>2. QED
      BY <3>1
  <2>5. QED
    BY <1>3, <2>1, <2>2, <2>3, <2>4
<1>4. ASSUME NEW d \in HostCall, Host!Over(d) PROVE FALSE
  BY <1>1, <1>4 DEF Host!Over, Host!Fresh
<1>5. CASE Host!StartFails \/ Host!Close
  BY <1>1, <1>5 DEF CallRow, Host!StartFails, Host!Close
<1>6. CASE call' = call
  BY <1>6
<1>7. QED
  BY <1>2, <1>3, <1>4, <1>5, <1>6 DEF Host!Next, host, Host!Ready, Host!Delivered, Host!GivesUp, Host!Adopt,
     Host!FirstListing, Host!Selected, Host!Change, Host!ListChanged, Host!ServerLists, Host!Relisted,
     Host!Drained, Host!Swept, Host!Disconnects, Host!listVars, Host!startVars

-----------------------------------------------------------------------------
(* ProtocolSession *)

OperationRow == [kind : {"none", "stream", "watch", "request"}, of : Visit \cup {None},
                 pc : {"none", "open", "sending", "ending", "finished"}, dispatched : BOOLEAN]

\* The instance counts as everybody does.
LEMMA SameCount == \A S : Proto!Cardinality(S) = Cardinality(S)
BY DEF Proto!Cardinality, Cardinality

\* An operation begins, ends or goes on: the pins count them.
LEMMA PinsFollow ==
  ASSUME IsFiniteSet(Operation), pins = Cardinality(Proto!Pinning), NEW o \in Operation,
         \/ o \notin Proto!Pinning /\ Proto!Pinning' = Proto!Pinning \cup {o} /\ pins' = pins + 1
         \/ o \in Proto!Pinning /\ Proto!Pinning' = Proto!Pinning \ {o} /\ pins' = pins - 1
         \/ Proto!Pinning' = Proto!Pinning /\ pins' = pins
  PROVE  pins' = Cardinality(Proto!Pinning') /\ pins' \in 0..Cardinality(Operation)
<1>1. IsFiniteSet(Proto!Pinning)
  BY FS_Subset DEF Proto!Pinning
<1>2. pins' = Cardinality(Proto!Pinning')
  BY <1>1, FS_AddElement, FS_RemoveElement
<1>3. Proto!Pinning' \in SUBSET Operation
  BY DEF Proto!Pinning
<1>4. IsFiniteSet(Proto!Pinning') /\ Cardinality(Proto!Pinning') <= Cardinality(Operation)
  BY <1>3, FS_Subset
<1>5. QED
  BY <1>2, <1>4, FS_CardinalityType

\* Some operations end at once: each that is no request gives its pin back.
LEMMA PinsReturn ==
  ASSUME IsFiniteSet(Operation), pins = Cardinality(Proto!Pinning), NEW S \in SUBSET Proto!Pinning,
         Proto!Pinning' = Proto!Pinning \ S, pins' = pins - Cardinality(S)
  PROVE  pins' = Cardinality(Proto!Pinning') /\ pins' \in 0..Cardinality(Operation)
<1>1. Proto!Pinning \in SUBSET Operation
  BY DEF Proto!Pinning
<1>2. IsFiniteSet(Proto!Pinning) /\ Cardinality(Proto!Pinning) <= Cardinality(Operation)
  BY <1>1, FS_Subset
<1>3. /\ IsFiniteSet(S) /\ IsFiniteSet(Proto!Pinning \ S)
      /\ S \cup (Proto!Pinning \ S) = Proto!Pinning /\ S \cap (Proto!Pinning \ S) = {}
  BY <1>2, FS_Subset
<1>4. Cardinality(Proto!Pinning) = Cardinality(S) + Cardinality(Proto!Pinning \ S)
  <2>1. Cardinality(Proto!Pinning) = Cardinality(S) + Cardinality(Proto!Pinning \ S) - Cardinality({})
    BY <1>3, FS_Union
  <2>2. QED
    BY <2>1, <1>2, <1>3, FS_EmptySet, FS_CardinalityType
<1>5. /\ Cardinality(S) \in Nat /\ Cardinality(Proto!Pinning \ S) \in Nat
      /\ Cardinality(Proto!Pinning) \in Nat /\ Cardinality(Operation) \in Nat
  BY <1>2, <1>3, FS_CardinalityType
<1>6. QED
  BY <1>2, <1>4, <1>5

\* ProtocolInv with its parts named for a step.
LEMMA ProtocolParts ==
  ASSUME Proto!ProtocolInv
  PROVE  /\ operation \in [Operation -> OperationRow] /\ pins = Cardinality(Proto!Pinning)
         /\ visit \in [Visit -> {"idle", "resolving", "orphan", "open"}]
         /\ Proto!RecordsFit /\ Proto!NothingOutlivesItsOwner /\ Proto!ServerIsInformed
         /\ {connected, owned, enrolled} \subseteq BOOLEAN
         /\ serves \subseteq Operation /\ informed \subseteq serves
<1>1. pins = Cardinality(Proto!Pinning)
  BY SameCount DEF Proto!ProtocolInv, Proto!PinsAreOperations
<1>2. operation \in [Operation -> OperationRow]
  BY DEF Proto!ProtocolInv, Proto!TypeOK, OperationRow
<1>3. QED
  BY <1>1, <1>2 DEF Proto!ProtocolInv, Proto!TypeOK

\* finish() of the operations of sessions that end.
LEMMA EndedKeeps ==
  ASSUME IsFiniteSet(Operation), Proto!ProtocolInv, NEW ops \in SUBSET Operation,
         \A o \in ops : Proto!Active(o), Proto!Ended(ops, TRUE), serves' = serves,
         {connected, owned, enrolled}' \subseteq BOOLEAN, connected' => connected,
         visit' \in [Visit -> {"idle", "resolving", "orphan", "open"}],
         \A s \in Visit : visit'[s] = "open" => enrolled' /\ connected' /\ owned',
         \A s \in Visit : visit'[s] = "resolving" => enrolled',
         \A o \in Operation \ ops : Proto!Active(o) => visit'[operation[o].of] = "open"
  PROVE  Proto!ProtocolInv'
<1> DEFINE streams == {o \in ops : operation[o].kind # "request"}
<1>0. /\ operation \in [Operation -> OperationRow] /\ pins = Cardinality(Proto!Pinning)
      /\ visit \in [Visit -> {"idle", "resolving", "orphan", "open"}]
      /\ Proto!RecordsFit /\ Proto!NothingOutlivesItsOwner /\ Proto!ServerIsInformed
      /\ {connected, owned, enrolled} \subseteq BOOLEAN
      /\ serves \subseteq Operation /\ informed \subseteq serves
  BY ProtocolParts
<1> USE <1>0
<1>1. \A o \in Operation : operation[o] \in OperationRow
  OBVIOUS
<1>2. operation' = [o \in Operation |->
        IF o \notin ops THEN operation[o]
        ELSE [operation[o] EXCEPT !.pc = IF operation[o].kind = "request" THEN "ending" ELSE "finished"]]
  BY DEF Proto!Ended
<1>3. \A o \in Operation :
        /\ operation'[o] \in OperationRow
        /\ o \notin ops => operation'[o] = operation[o]
        /\ operation'[o].kind = operation[o].kind /\ operation'[o].of = operation[o].of
        /\ operation'[o].dispatched = operation[o].dispatched
        /\ o \in ops => operation'[o].pc = IF operation[o].kind = "request" THEN "ending" ELSE "finished"
  BY <1>1, <1>2 DEF OperationRow
<1>4. operation' \in [Operation -> OperationRow]
  BY <1>2, <1>3
<1>5. \A o \in ops : operation[o].pc \in {"open", "sending"}
  BY DEF Proto!Active
<1>6. Proto!Pinning' = Proto!Pinning \ streams /\ streams \in SUBSET Proto!Pinning
  BY <1>3, <1>5 DEF Proto!Pinning, Proto!Active
<1>7. pins' = pins - Cardinality(streams)
  BY SameCount DEF Proto!Ended
<1>8. pins' = Cardinality(Proto!Pinning') /\ pins' \in 0..Cardinality(Operation)
  BY <1>6, <1>7, PinsReturn
<1>9. informed' = informed \cup {o \in ops \cap serves : TRUE /\ connected' /\ operation[o].dispatched}
  BY DEF Proto!Ended
<1>10. Proto!TypeOK'
  BY <1>4, <1>8, <1>9, SameCount DEF Proto!TypeOK, OperationRow
<1>11. Proto!RecordsFit'
  BY <1>3, <1>5 DEF Proto!RecordsFit
<1>12. Proto!NothingOutlivesItsOwner'
  BY <1>3, <1>5 DEF Proto!NothingOutlivesItsOwner, Proto!Active
<1>13. Proto!ServerIsInformed'
  BY <1>3, <1>9 DEF Proto!ServerIsInformed, Proto!RecordsFit
<1>14. QED
  BY <1>8, <1>10, <1>11, <1>12, <1>13, SameCount DEF Proto!ProtocolInv, Proto!PinsAreOperations

\* A registration, a session or their owner ends.
LEMMA SessionsEndKeeps ==
  ASSUME IsFiniteSet(Operation), Proto!ProtocolInv,
         \/ Proto!Dispose \/ Proto!ConnectionCloses \/ Proto!OwnerAborts
         \/ (\E s \in Visit : Proto!CloseSession(s)) \/ (\E o \in Operation : Proto!Cancel(o))
  PROVE  Proto!ProtocolInv'
<1>0. /\ operation \in [Operation -> OperationRow] /\ pins = Cardinality(Proto!Pinning)
      /\ visit \in [Visit -> {"idle", "resolving", "orphan", "open"}]
      /\ Proto!RecordsFit /\ Proto!NothingOutlivesItsOwner /\ Proto!ServerIsInformed
      /\ {connected, owned, enrolled} \subseteq BOOLEAN
      /\ serves \subseteq Operation /\ informed \subseteq serves
  BY ProtocolParts
<1> USE <1>0
<1>1. CASE Proto!Dispose
  <2> DEFINE ops == UNION {Proto!Of(s) : s \in {s \in Visit : visit[s] = "open"}}
  <2>1. \A o \in Operation : Proto!Active(o) => o \in ops
    BY DEF Proto!Of, Proto!NothingOutlivesItsOwner, Proto!Active, Proto!RecordsFit
  <2>2. ops \in SUBSET Operation /\ \A o \in ops : Proto!Active(o)
    BY DEF Proto!Of
  <2>3. /\ visit' \in [Visit -> {"idle", "resolving", "orphan", "open"}]
        /\ \A s \in Visit : visit'[s] \notin {"open", "resolving"}
    BY <1>1 DEF Proto!Dispose
  <2>4. Proto!Ended(ops, TRUE) /\ serves' = serves /\ connected' = connected
        /\ owned' = owned /\ enrolled' = FALSE
    BY <1>1 DEF Proto!Dispose
  <2> HIDE DEF ops
  <2>5. QED
    BY <2>1, <2>2, <2>3, <2>4, EndedKeeps
<1>2. CASE Proto!AllEnd /\ serves' = serves /\ {connected, owned, enrolled}' \subseteq BOOLEAN
           /\ (connected' => connected) /\ enrolled' = enrolled
  <2> DEFINE ops == {o \in Operation : Proto!Active(o)}
  <2>1. /\ visit' \in [Visit -> {"idle", "resolving", "orphan", "open"}]
        /\ \A s \in Visit : visit'[s] # "open" /\ (visit'[s] = "resolving" => visit[s] = "resolving")
    BY <1>2 DEF Proto!AllEnd
  <2>2. Proto!Ended(ops, TRUE)
    BY <1>2 DEF Proto!AllEnd
  <2>3. QED
    BY <1>2, <2>1, <2>2, EndedKeeps DEF Proto!RecordsFit
<1>3. ASSUME NEW s \in Visit, Proto!CloseSession(s) PROVE Proto!ProtocolInv'
  <2>1. Proto!Of(s) \in SUBSET Operation /\ \A o \in Proto!Of(s) : Proto!Active(o)
    BY DEF Proto!Of
  <2>2. /\ visit' \in [Visit -> {"idle", "resolving", "orphan", "open"}]
        /\ visit'[s] = "idle" /\ \A t \in Visit \ {s} : visit'[t] = visit[t]
    BY <1>3 DEF Proto!CloseSession
  <2>3. \A o \in Operation \ Proto!Of(s) : Proto!Active(o) => visit'[operation[o].of] = "open"
    BY <2>2 DEF Proto!Of, Proto!NothingOutlivesItsOwner, Proto!RecordsFit, Proto!Active
  <2>4. Proto!Ended(Proto!Of(s), TRUE) /\ UNCHANGED <<connected, owned, enrolled, serves>>
    BY <1>3 DEF Proto!CloseSession, Proto!outside
  <2>5. /\ {connected, owned, enrolled}' \subseteq BOOLEAN /\ (connected' => connected)
        /\ \A t \in Visit : visit'[t] = "open" => enrolled' /\ connected' /\ owned'
        /\ \A t \in Visit : visit'[t] = "resolving" => enrolled'
    BY <2>2, <2>4 DEF Proto!NothingOutlivesItsOwner, Proto!RecordsFit
  <2>6. QED
    BY <2>1, <2>2, <2>3, <2>4, <2>5, EndedKeeps
<1>4. ASSUME NEW o \in Operation, Proto!Cancel(o) PROVE Proto!ProtocolInv'
  <2>1. Proto!Ended({o}, TRUE) /\ UNCHANGED <<connected, owned, enrolled, visit, serves>> /\ Proto!Active(o)
    BY <1>4 DEF Proto!Cancel, Proto!outside
  <2>2. QED
    BY <2>1, EndedKeeps DEF Proto!NothingOutlivesItsOwner, Proto!RecordsFit
<1>5. ASSUME Proto!ConnectionCloses \/ Proto!OwnerAborts PROVE Proto!ProtocolInv'
  <2>1. \/ connected' = FALSE /\ owned' = owned /\ enrolled' = enrolled
        \/ connected' = connected /\ owned' = FALSE /\ enrolled' = enrolled
    BY <1>5 DEF Proto!ConnectionCloses, Proto!OwnerAborts
  <2>2. Proto!AllEnd /\ serves' = serves
    BY <1>5 DEF Proto!ConnectionCloses, Proto!OwnerAborts
  <2>3. QED
    BY <1>2, <2>1, <2>2
<1>6. QED
  BY <1>1, <1>3, <1>4, <1>5

\* The row that operation o gets fits the session it is of and what the server knows.
OperationHolds(o, row) ==
  /\ row \in OperationRow /\ (row.pc = "none" <=> row.kind = "none")
  /\ row.kind # "none" => row.of \in Visit
  /\ row.pc = "sending" => row.kind = "stream" /\ row.dispatched
  /\ row.pc = "ending" => row.kind = "request"
  /\ row.pc \in {"open", "sending"} => visit[row.of] = "open"
  /\ o \in serves' => row.kind = "stream" /\ row.dispatched /\ row.pc \in {"sending", "finished"}
  /\ connected /\ o \in serves' /\ row.pc = "finished" => o \in informed'

\* What the server knows of the other operations stays.
OthersServed(o) ==
  /\ serves' \subseteq Operation /\ informed' \subseteq serves'
  /\ \A p \in Operation \ {o} : (p \in serves' <=> p \in serves) /\ (p \in informed' <=> p \in informed)

\* The pin of operation o is taken or given back with its row.
PinMoves(o, row) ==
  \/ /\ row.pc \in {"open", "sending", "ending"} <=> operation[o].pc \in {"open", "sending", "ending"}
     /\ pins' = pins
  \/ /\ row.pc \in {"open", "sending", "ending"} /\ operation[o].pc \notin {"open", "sending", "ending"}
     /\ pins' = pins + 1
  \/ /\ row.pc \notin {"open", "sending", "ending"} /\ operation[o].pc \in {"open", "sending", "ending"}
     /\ pins' = pins - 1

\* One operation goes on.
LEMMA OneOperation ==
  ASSUME IsFiniteSet(Operation), Proto!ProtocolInv, UNCHANGED <<connected, owned, enrolled, visit>>,
         NEW o \in Operation, NEW row, operation' = [operation EXCEPT ![o] = row],
         OperationHolds(o, row), OthersServed(o), PinMoves(o, row)
  PROVE  Proto!ProtocolInv'
<1>0. /\ operation \in [Operation -> OperationRow] /\ pins = Cardinality(Proto!Pinning)
      /\ visit \in [Visit -> {"idle", "resolving", "orphan", "open"}]
      /\ Proto!RecordsFit /\ Proto!NothingOutlivesItsOwner /\ Proto!ServerIsInformed
      /\ {connected, owned, enrolled} \subseteq BOOLEAN
      /\ serves \subseteq Operation /\ informed \subseteq serves
  BY ProtocolParts
<1>1. /\ operation' \in [Operation -> OperationRow] /\ operation'[o] = row
      /\ \A p \in Operation \ {o} : operation'[p] = operation[p]
  BY <1>0 DEF OperationHolds
<1>3. \/ o \notin Proto!Pinning /\ Proto!Pinning' = Proto!Pinning \cup {o} /\ pins' = pins + 1
      \/ o \in Proto!Pinning /\ Proto!Pinning' = Proto!Pinning \ {o} /\ pins' = pins - 1
      \/ Proto!Pinning' = Proto!Pinning /\ pins' = pins
  <2>1. /\ o \in Proto!Pinning <=> operation[o].pc \in {"open", "sending", "ending"}
        /\ o \in Proto!Pinning' <=> row.pc \in {"open", "sending", "ending"}
        /\ \A p \in Operation \ {o} : p \in Proto!Pinning' <=> p \in Proto!Pinning
        /\ Proto!Pinning \subseteq Operation /\ Proto!Pinning' \subseteq Operation
    BY <1>1 DEF Proto!Pinning
  <2>2. QED
    BY <2>1 DEF PinMoves
<1>4. pins' = Cardinality(Proto!Pinning') /\ pins' \in 0..Cardinality(Operation)
  BY <1>0, <1>3, PinsFollow
<1>5. Proto!TypeOK'
  BY <1>0, <1>1, <1>4, SameCount DEF Proto!TypeOK, OperationRow, OthersServed
<1>6. Proto!RecordsFit'
  BY <1>0, <1>1 DEF Proto!RecordsFit, OperationHolds, OthersServed
<1>7. Proto!NothingOutlivesItsOwner' /\ Proto!ServerIsInformed'
  BY <1>0, <1>1 DEF Proto!NothingOutlivesItsOwner, Proto!Active, Proto!ServerIsInformed, OperationHolds, OthersServed
<1>8. Proto!PinsAreOperations'
  BY <1>4, SameCount DEF Proto!PinsAreOperations
<1>9. QED
  BY <1>5, <1>6, <1>7, <1>8 DEF Proto!ProtocolInv

\* Operations begin, are sent, and end by the server's doing.
LEMMA OperationsKeep ==
  ASSUME IsFiniteSet(Operation), None \notin Visit, Proto!ProtocolInv, NEW o \in Operation,
         \/ \E s \in Visit, kind \in {"stream", "watch", "request"} : Proto!Opens(o, s, kind)
         \/ Proto!Dispatch(o) \/ Proto!ServerEnds(o) \/ Proto!RequestSettles(o) \/ Proto!Forgotten(o)
  PROVE  Proto!ProtocolInv'
<1>0. /\ operation \in [Operation -> OperationRow] /\ pins = Cardinality(Proto!Pinning)
      /\ visit \in [Visit -> {"idle", "resolving", "orphan", "open"}]
      /\ Proto!RecordsFit /\ Proto!NothingOutlivesItsOwner /\ Proto!ServerIsInformed
      /\ {connected, owned, enrolled} \subseteq BOOLEAN
      /\ serves \subseteq Operation /\ informed \subseteq serves
  BY ProtocolParts
<1> USE <1>0
<1>1. operation[o] \in OperationRow
  OBVIOUS
<1> DEFINE finished == [operation[o] EXCEPT !.pc = "finished"]
<1>2. /\ finished \in OperationRow /\ finished.kind = operation[o].kind /\ finished.pc = "finished"
      /\ finished.of = operation[o].of /\ finished.dispatched = operation[o].dispatched
  BY <1>1 DEF OperationRow
<1>3. pins \in Nat
  <2>1. Proto!Pinning \in SUBSET Operation
    BY DEF Proto!Pinning
  <2>2. QED
    BY <2>1, FS_Subset, FS_CardinalityType
<1>4. ASSUME NEW s \in Visit, NEW kind \in {"stream", "watch", "request"}, Proto!Opens(o, s, kind)
      PROVE  Proto!ProtocolInv'
  <2> DEFINE row == [kind |-> kind, of |-> s, pc |-> "open", dispatched |-> FALSE]
  <2>1. row \in OperationRow
    BY DEF OperationRow
  <2>2. /\ operation' = [operation EXCEPT ![o] = row] /\ visit[s] = "open" /\ operation[o].pc = "none"
        /\ o \notin serves /\ pins' = pins + 1
        /\ UNCHANGED <<connected, owned, enrolled, visit, serves, informed>>
    BY <1>4 DEF Proto!Opens, Proto!RecordsFit, Proto!outside
  <2>3. OperationHolds(o, row) /\ OthersServed(o) /\ PinMoves(o, row)
    BY <1>0, <1>3, <2>1, <2>2
       DEF OperationHolds, OthersServed, PinMoves
  <2>4. QED
    BY <2>3, <2>1, <2>2, OneOperation
<1>5. CASE Proto!Dispatch(o)
  <2> DEFINE sending == [operation[o] EXCEPT !.pc = "sending"]
             row == [sending EXCEPT !.dispatched = TRUE]
  <2>1. /\ row \in OperationRow /\ row.kind = operation[o].kind /\ row.pc = "sending"
        /\ row.of = operation[o].of /\ row.dispatched = TRUE
    BY <1>1 DEF OperationRow
  <2>2. /\ operation' = [operation EXCEPT ![o] = row] /\ serves' = serves \cup {o}
        /\ operation[o].kind = "stream" /\ operation[o].pc = "open"
        /\ UNCHANGED <<connected, owned, enrolled, visit, informed, pins>>
    BY <1>1, <1>5 DEF Proto!Dispatch, Proto!outside, OperationRow
  <2>3. visit[operation[o].of] = "open" /\ operation[o].of \in Visit
    BY <2>2 DEF Proto!NothingOutlivesItsOwner, Proto!Active, Proto!RecordsFit
  <2> HIDE DEF row
  <2>4. OperationHolds(o, row) /\ OthersServed(o) /\ PinMoves(o, row)
    BY <1>0, <1>3, <2>1, <2>2, <2>3
       DEF OperationHolds, OthersServed, PinMoves
  <2>5. QED
    BY <2>4, <2>1, <2>2, OneOperation
<1>6. CASE Proto!ServerEnds(o)
  <2>1. /\ o \in serves /\ serves' = serves \ {o} /\ informed' = informed \ {o}
        /\ UNCHANGED <<connected, owned, enrolled, visit>>
    BY <1>6 DEF Proto!ServerEnds, Proto!outside
  <2>2. CASE Proto!Active(o)
    <3>1. operation' = [operation EXCEPT ![o] = finished] /\ pins' = pins - 1
      BY <1>6, <2>2 DEF Proto!ServerEnds
    <3>2. operation[o].pc \in {"open", "sending"} /\ operation[o].kind = "stream"
          /\ operation[o].of \in Visit
      BY <2>1, <2>2 DEF Proto!Active, Proto!RecordsFit
    <3> HIDE DEF finished
    <3>3. OperationHolds(o, finished) /\ OthersServed(o) /\ PinMoves(o, finished)
      BY <1>0, <1>2, <1>3, <2>1, <3>1, <3>2
         DEF OperationHolds, OthersServed, PinMoves
    <3>4. QED
      BY <3>3, <2>1, <3>1, OneOperation
  <2>3. CASE ~Proto!Active(o)
    <3>1. operation' = [operation EXCEPT ![o] = operation[o]] /\ pins' = pins
      BY <1>6, <2>3 DEF Proto!ServerEnds
    <3>2. operation[o].pc = "finished" /\ operation[o].kind = "stream" /\ operation[o].of \in Visit
      BY <2>1, <2>3 DEF Proto!Active, Proto!RecordsFit
    <3>3. OperationHolds(o, operation[o]) /\ OthersServed(o) /\ PinMoves(o, operation[o])
      BY <1>0, <1>1, <1>3, <2>1, <3>1, <3>2
         DEF OperationHolds, OthersServed, PinMoves
    <3>4. QED
      BY <3>3, <2>1, <3>1, OneOperation
  <2>4. QED
    BY <2>2, <2>3
<1>7. CASE Proto!RequestSettles(o)
  <2>1. /\ operation' = [operation EXCEPT ![o] = finished] /\ pins' = pins - 1
        /\ operation[o].kind = "request" /\ operation[o].pc \in {"open", "ending"}
        /\ UNCHANGED <<connected, owned, enrolled, visit, serves, informed>>
    BY <1>7 DEF Proto!RequestSettles, Proto!outside
  <2>2. operation[o].of \in Visit /\ o \notin serves
    BY <2>1 DEF Proto!RecordsFit
  <2> HIDE DEF finished
  <2>3. OperationHolds(o, finished) /\ OthersServed(o) /\ PinMoves(o, finished)
    BY <1>0, <1>2, <1>3, <2>1, <2>2
       DEF OperationHolds, OthersServed, PinMoves
  <2>4. QED
    BY <2>3, <2>1, <2>2, OneOperation
<1>8. CASE Proto!Forgotten(o)
  <2>1. /\ operation' = [operation EXCEPT ![o] = Proto!NoOperation] /\ pins' = pins
        /\ operation[o].pc = "finished" /\ serves' = serves \ {o} /\ informed' = informed \ {o}
        /\ UNCHANGED <<connected, owned, enrolled, visit>>
    BY <1>8 DEF Proto!Forgotten, Proto!outside
  <2>2. /\ Proto!NoOperation \in OperationRow /\ Proto!NoOperation.pc = "none"
        /\ Proto!NoOperation.kind = "none"
    BY DEF Proto!NoOperation, OperationRow
  <2>3. OperationHolds(o, Proto!NoOperation) /\ OthersServed(o) /\ PinMoves(o, Proto!NoOperation)
    BY <1>0, <1>3, <2>1, <2>2
       DEF OperationHolds, OthersServed, PinMoves
  <2>4. QED
    BY <2>3, <2>1, <2>2, OneOperation
<1>9. QED
  BY <1>4, <1>5, <1>6, <1>7, <1>8

\* A session is resolved, a namespace registered.
LEMMA SessionsBeginKeeps ==
  ASSUME IsFiniteSet(Operation), Proto!ProtocolInv,
         Proto!Register \/ \E s \in Visit : Proto!Connect(s) \/ Proto!Connected(s)
  PROVE  Proto!ProtocolInv'
<1>0. /\ operation \in [Operation -> OperationRow] /\ pins = Cardinality(Proto!Pinning)
      /\ visit \in [Visit -> {"idle", "resolving", "orphan", "open"}]
      /\ Proto!RecordsFit /\ Proto!NothingOutlivesItsOwner /\ Proto!ServerIsInformed
      /\ {connected, owned, enrolled} \subseteq BOOLEAN
      /\ serves \subseteq Operation /\ informed \subseteq serves
  BY ProtocolParts
<1>1. UNCHANGED <<connected, owned, operation, pins, serves, informed>>
  BY DEF Proto!Register, Proto!Connect, Proto!Connected, Proto!outside
<1>2. ASSUME Proto!Register PROVE visit' = visit /\ enrolled'
  BY <1>2 DEF Proto!Register
<1>3. ASSUME NEW s \in Visit, Proto!Connect(s)
      PROVE  enrolled' = enrolled /\ enrolled /\ visit[s] = "idle" /\ visit' = [visit EXCEPT ![s] = "resolving"]
  BY <1>3 DEF Proto!Connect, Proto!outside
<1>4. ASSUME NEW s \in Visit, Proto!Connected(s)
      PROVE  /\ enrolled' = enrolled /\ visit[s] \in {"resolving", "orphan"}
             /\ \/ visit' = [visit EXCEPT ![s] = "idle"]
                \/ enrolled /\ connected /\ owned /\ visit' = [visit EXCEPT ![s] = "open"]
  BY <1>0, <1>4 DEF Proto!Connected, Proto!RecordsFit, Proto!outside
<1>5. enrolled' \in BOOLEAN /\ (enrolled => enrolled')
  <2>1. ASSUME Proto!Register PROVE enrolled' = TRUE
    BY <2>1 DEF Proto!Register
  <2>2. CASE Proto!Register
    BY <2>1, <2>2
  <2>3. CASE enrolled' = enrolled
    BY <1>0, <2>3
  <2>4. QED
    BY <1>3, <1>4, <2>2, <2>3
<1>6. /\ visit' \in [Visit -> {"idle", "resolving", "orphan", "open"}]
      /\ \A s \in Visit : visit[s] = "open" => visit'[s] = "open"
      /\ \A s \in Visit : visit'[s] = "open" => visit[s] = "open" \/ (enrolled /\ connected /\ owned)
      /\ \A s \in Visit : visit'[s] = "resolving" => visit[s] = "resolving" \/ enrolled
  BY <1>0, <1>2, <1>3, <1>4
<1>7. Proto!TypeOK' /\ Proto!PinsAreOperations'
  BY <1>0, <1>1, <1>5, <1>6 DEF Proto!ProtocolInv, Proto!TypeOK, Proto!PinsAreOperations, Proto!Pinning
<1>8. Proto!RecordsFit'
  BY <1>0, <1>1, <1>5, <1>6 DEF Proto!RecordsFit
<1>9. Proto!ServerIsInformed'
  BY <1>0, <1>1 DEF Proto!ServerIsInformed
<1>10. Proto!NothingOutlivesItsOwner'
  <2>1. \A s \in Visit : visit'[s] = "open" => enrolled' /\ connected' /\ owned'
    BY <1>0, <1>1, <1>5, <1>6 DEF Proto!NothingOutlivesItsOwner
  <2>2. \A o \in Operation : operation'[o] = operation[o] /\ (operation[o].pc # "none" => operation[o].of \in Visit)
    BY <1>0, <1>1 DEF Proto!RecordsFit
  <2>3. QED
    BY <1>0, <1>6, <2>1, <2>2 DEF Proto!NothingOutlivesItsOwner, Proto!Active
<1>11. QED
  BY <1>7, <1>8, <1>9, <1>10 DEF Proto!ProtocolInv

\* Nobody is connected.
LEMMA ProtocolBegins == IsFiniteSet(Operation) /\ Proto!Init => Proto!ProtocolInv
<1> SUFFICES ASSUME IsFiniteSet(Operation), Proto!Init PROVE Proto!ProtocolInv
  OBVIOUS
<1> USE DEF Proto!Init
<1>1. operation \in [Operation -> OperationRow] /\ \A o \in Operation : operation[o] = Proto!NoOperation
  BY DEF Proto!NoOperation, OperationRow
<1>2. pins = Cardinality(Proto!Pinning) /\ pins \in 0..Cardinality(Operation)
  <2>1. Proto!Pinning = {}
    BY <1>1 DEF Proto!Pinning, Proto!NoOperation
  <2>2. QED
    BY <2>1, FS_EmptySet, FS_CardinalityType
<1>3. Proto!TypeOK
  BY <1>1, <1>2, SameCount DEF Proto!TypeOK, OperationRow
<1>4. Proto!RecordsFit /\ Proto!NothingOutlivesItsOwner /\ Proto!ServerIsInformed
  BY <1>1 DEF Proto!RecordsFit, Proto!NoOperation, Proto!NothingOutlivesItsOwner, Proto!Active,
              Proto!ServerIsInformed
<1>5. QED
  BY <1>2, <1>3, <1>4, SameCount DEF Proto!ProtocolInv, Proto!PinsAreOperations

\* So every step keeps ProtocolInv.
LEMMA ProtocolKeeps ==
  ASSUME IsFiniteSet(Operation), None \notin Visit, Proto!ProtocolInv, Proto!Next \/ UNCHANGED proto
  PROVE  Proto!ProtocolInv'
<1>1. ASSUME UNCHANGED proto PROVE Proto!ProtocolInv'
  BY <1>1 DEF proto, Proto!ProtocolInv, Proto!TypeOK, Proto!RecordsFit, Proto!PinsAreOperations, Proto!Pinning,
              Proto!NothingOutlivesItsOwner, Proto!ServerIsInformed, Proto!Active
<1>2. QED
  BY <1>1, SessionsBeginKeeps, SessionsEndKeeps, OperationsKeep DEF Proto!Next

-----------------------------------------------------------------------------
(* Hosts and extensions that embed the adapter *)

\* HostInv holds in every behaviour, and no step sends what is known to be stale.
LEMMA HostInvariant ==
  ASSUME Versions
  PROVE  Spec => []Host!HostInv /\ Host!NothingStaleIsSent
<1>1. Init => Host!HostInv
  BY HostBegins DEF Init
<1>2. Host!HostInv /\ [Next]_vars => Host!HostInv'
  BY HostKeeps DEF Next, vars
<1>3. Host!HostInv /\ [Next]_vars
      => [\A c \in HostCall : ~call[c].sent /\ call'[c].sent => offered = listed \/ noted]_Host!hostVars
  BY SentIsCurrent DEF Next, vars
<1>4. QED
  BY <1>1, <1>2, <1>3, PTL DEF Spec, Host!NothingStaleIsSent

\* ProtocolInv does, too.
LEMMA ProtocolInvariant ==
  ASSUME IsFiniteSet(Operation), None \notin Visit
  PROVE  Spec => []Proto!ProtocolInv
<1>1. Init => Proto!ProtocolInv
  BY ProtocolBegins DEF Init
<1>2. Proto!ProtocolInv /\ [Next]_vars => Proto!ProtocolInv'
  BY ProtocolKeeps DEF Next, vars
<1>3. QED
  BY <1>1, <1>2, PTL DEF Spec

\* No request of a host goes out under a definition known to be stale, a call it is told not to
\* have run has not run, and no transport is left without an adapter (host-managed.ts); for an
\* extension, the pins are those of its operations, none of them outlives its visit, and the server
\* is told of every one that was cut short (runtime-protocol.ts).
THEOREM EmbeddersServed ==
  ASSUME Versions, IsFiniteSet(Operation), None \notin Visit
  PROVE  Spec => EmbeddersAreServed
<1>1. Host!HostInv => (focus = "host" => Host!NotRunIsTrue /\ Host!NoTransportIsLeft)
  BY DEF Host!HostInv, Host!TypeOK, Host!TransportIsOwned, Host!NoTransportIsLeft
<1>2. Proto!ProtocolInv => (focus = "protocol" => /\ Proto!PinsAreOperations /\ Proto!NothingOutlivesItsOwner
                                                  /\ Proto!ServerIsInformed)
  BY DEF Proto!ProtocolInv
<1>3. QED
  BY <1>1, <1>2, HostInvariant, ProtocolInvariant, PTL DEF EmbeddersAreServed

-----------------------------------------------------------------------------
(* MetadataCache *)

Kinds == {"startup", "listing", "shape", "apps", "signature"}
WriteRow == [kind : Kinds, entry : Cache!Entries \cup {None}]

\* Listings may be shared or private, and None is no entry, no update and no configuration.
Listings == /\ {"shared", "private"} \subseteq Scopes /\ MaxTime \in Nat
            /\ None \notin Cache!Entries /\ None \notin WriteRow /\ None \notin Hash

\* An entry has its fields.
LEMMA EntryFields ==
  ASSUME NEW e \in Cache!Entries
  PROVE  /\ e.hash \in Hash /\ e.at \in 1..MaxTime /\ e.failed \in BOOLEAN /\ e.scope \in Scopes
         /\ e.tool \in 0..2 /\ e.shape \in 0..2 /\ e.res \in Scopes \cup {"none"} /\ e.apps \in 0..MaxTime
         /\ e.signed \in BOOLEAN
BY DEF Cache!Entries

\* An entry with new shape, catalog and signature is the same otherwise.
LEMMA Narrow ==
  ASSUME NEW e \in Cache!Entries, NEW f \in Cache!Entries,
         f.hash = e.hash, f.at = e.at, f.failed = e.failed, f.scope = e.scope, f.tool = e.tool, f.res = e.res
  PROVE  [f EXCEPT !.shape = 0, !.apps = 0, !.signed = FALSE]
           = [e EXCEPT !.shape = 0, !.apps = 0, !.signed = FALSE]
BY DEF Cache!Entries

\* The file keeps no catalog of a private listing.
LEMMA PersistedIsSound ==
  ASSUME MaxTime \in Nat, NEW e \in Cache!Entries, e.shape # 0 => e.shape = e.tool, e.scope # "private" => e.res # "private"
  PROVE  /\ Cache!Persisted(e) \in Cache!Entries /\ Cache!Sound(Cache!Persisted(e))
         /\ Cache!Persisted(e).at = e.at /\ Cache!Persisted(e).hash = e.hash /\ Cache!Persisted(e).failed = e.failed
         /\ Cache!Persisted(e).scope = e.scope /\ Cache!Persisted(e).tool = e.tool
         /\ Cache!Persisted(e).shape = e.shape
         /\ e.scope = "shared" => Cache!Persisted(e) = e
<1>1. CASE e.scope = "shared"
  BY <1>1 DEF Cache!Persisted, Cache!Sound
<1>2. CASE e.scope # "shared"
  <2>1. Cache!Persisted(e) = [e EXCEPT !.apps = 0, !.signed = FALSE]
    BY <1>2 DEF Cache!Persisted
  <2>2. Cache!Persisted(e) \in Cache!Entries
    <3>1. 0 \in 0..MaxTime
      BY DEF Cache!Entries
    <3>2. QED
      BY <2>1, <3>1 DEF Cache!Entries
  <2>3. QED
    BY <1>2, <2>1, <2>2 DEF Cache!Entries, Cache!Sound
<1>3. QED
  BY <1>1, <1>2

\* A shape that is kept was learned against the tool that is listed.
LEMMA KeptFits ==
  ASSUME NEW previous \in Cache!Entries \cup {None}, Cache!Sound(previous), NEW h \in Hash, NEW t \in 0..2
  PROVE  LET still == Cache!KeptShape(previous, h, t) IN
         /\ still \in 0..2 /\ (still # 0 => still = t)
         /\ previous # None /\ previous.hash = h /\ previous.tool = t /\ previous.scope # "private"
            => still = previous.shape
BY DEF Cache!KeptShape, Cache!Sound, Cache!Entries

\* An entry m that a startup pass may put in the place of what is in the file, if it began with the
\* file as it was earlier.
Faithful(file, m, earlier) ==
  /\ m \in Cache!Entries \cup {None} /\ Cache!Sound(m)
  /\ file # None /\ m # file =>
       \/ m.failed /\ file = earlier
       \/ ~m.failed /\ (file.failed \/ file.hash # m.hash)
       \/ /\ ~m.failed /\ file.hash = m.hash /\ file.at <= m.at
          /\ file.shape = 0 \/ file.tool # m.tool \/ file.scope = "private" \/ m.shape # 0
          /\ file.apps = 0 \/ m.apps # 0 \/ m.scope # "shared"

\* What a startup pass makes of the file is sound, and loses nothing of it.
LEMMA MergedKeeps ==
  ASSUME Listings, NEW file \in Cache!Entries \cup {None}, Cache!Sound(file), NEW e \in Cache!Entries, Cache!Sound(e),
         NEW earlier \in Cache!Entries \cup {None}
  PROVE  Faithful(file, Cache!StartupMerged(file, e, earlier), earlier)
<1> DEFINE m == Cache!StartupMerged(file, e, earlier)
<1> SUFFICES Faithful(file, m, earlier)
  OBVIOUS
<1> HIDE DEF m
<1>1. CASE e.failed
  <2>1. m = IF file = earlier THEN e ELSE file
    BY <1>1 DEF m, Cache!StartupMerged
  <2>2. QED
    BY <1>1, <2>1 DEF Faithful, Listings
<1>2. CASE ~e.failed /\ file # None /\ ~file.failed /\ file.hash = e.hash /\ file.at > e.at
  <2>1. m = file
    BY <1>2 DEF m, Cache!StartupMerged
  <2>2. QED
    BY <1>2, <2>1 DEF Faithful
<1>3. CASE ~e.failed /\ file # None /\ ~file.failed /\ file.hash = e.hash /\ ~(file.at > e.at)
  <2> DEFINE still == Cache!KeptShape(file, e.hash, e.tool)
             joined == [e EXCEPT !.shape = IF still = 0 THEN e.shape ELSE still]
             full == [joined EXCEPT !.apps = file.apps, !.signed = file.signed]
  <2>1. m = IF joined.apps = 0 /\ file.apps # 0 THEN Cache!Persisted(full) ELSE joined
    BY <1>3 DEF m, Cache!StartupMerged
  <2>2. /\ still \in 0..2 /\ (still # 0 => still = e.tool)
        /\ file.tool = e.tool /\ file.scope # "private" => still = file.shape
    BY <1>3, KeptFits, EntryFields
  <2> HIDE DEF still
  <2>3. /\ joined \in Cache!Entries /\ joined.hash = e.hash /\ joined.at = e.at /\ joined.failed = e.failed
        /\ joined.scope = e.scope /\ joined.tool = e.tool /\ joined.res = e.res /\ joined.apps = e.apps
        /\ joined.shape = IF still = 0 THEN e.shape ELSE still
    BY <2>2 DEF Cache!Entries
  <2> HIDE DEF joined
  <2>4. /\ full \in Cache!Entries /\ full.hash = e.hash /\ full.at = e.at /\ full.failed = e.failed
        /\ full.scope = e.scope /\ full.tool = e.tool /\ full.res = e.res /\ full.apps = file.apps
        /\ full.shape = joined.shape
    BY <1>3, <2>3 DEF Cache!Entries
  <2> HIDE DEF full
  <2>5. /\ joined.shape # 0 => joined.shape = e.tool
        /\ file.shape = 0 \/ file.tool # e.tool \/ file.scope = "private" \/ joined.shape # 0
    BY <2>2, <2>3, <1>3 DEF Cache!Sound, Listings
  <2>6. e.scope # "private" => e.res # "private"
    BY DEF Cache!Sound, Listings
  <2>7. file.at <= e.at
    BY <1>3, EntryFields
  <2>8. CASE e.apps = 0 /\ file.apps # 0
    <3>1. m = Cache!Persisted(full)
      BY <2>1, <2>3, <2>8
    <3>2. /\ Cache!Persisted(full) \in Cache!Entries /\ Cache!Sound(Cache!Persisted(full))
          /\ Cache!Persisted(full).at = e.at /\ Cache!Persisted(full).hash = e.hash
          /\ Cache!Persisted(full).failed = e.failed
          /\ Cache!Persisted(full).scope = e.scope /\ Cache!Persisted(full).tool = e.tool
          /\ Cache!Persisted(full).shape = joined.shape
          /\ e.scope = "shared" => Cache!Persisted(full).apps = file.apps
      BY <2>3, <2>4, <2>5, <2>6, PersistedIsSound DEF Listings
    <3>3. QED
      BY <1>3, <2>5, <2>7, <2>8, <3>1, <3>2 DEF Faithful
  <2>9. CASE ~(e.apps = 0 /\ file.apps # 0)
    <3>1. m = joined
      BY <2>1, <2>3, <2>9
    <3>2. Cache!Sound(joined)
      BY <2>3, <2>5 DEF Cache!Sound, Listings
    <3>3. QED
      BY <1>3, <2>3, <2>5, <2>7, <2>9, <3>1, <3>2 DEF Faithful
  <2>10. QED
    BY <2>8, <2>9
<1>4. CASE ~e.failed /\ ~(file # None /\ ~file.failed /\ file.hash = e.hash)
  <2>1. m = e
    BY <1>4 DEF m, Cache!StartupMerged
  <2>2. QED
    BY <1>4, <2>1 DEF Faithful, Listings
<1>5. QED
  BY <1>1, <1>2, <1>3, <1>4

\* What EntriesAreSound says of one session.
RowIsSound(s) ==
  /\ Cache!Sound(snapshot[s]) /\ Cache!Sound(draft[s])
  /\ own[s] # None => own[s].shape = 0 /\ (own[s].scope # "private" => own[s].res # "private")
  /\ write[s] # None => Cache!Sound(write[s].entry)
  /\ step[s] # "off" => hash[s] # None
  /\ step[s] \in {"startup", "listed"} => draft[s] # None
  /\ step[s] = "writing" => write[s] # None

\* CacheInv with its parts named for a step.
LEMMA CacheParts ==
  ASSUME Cache!CacheInv
  PROVE  /\ entry \in Cache!Entries \cup {None} /\ time \in 0..MaxTime
         /\ step \in [Session -> {"off", "starting", "startup", "running", "listed", "writing"}]
         /\ hash \in [Session -> Hash \cup {None}] /\ raced \subseteq Session
         /\ snapshot \in [Session -> Cache!Entries \cup {None}] /\ own \in [Session -> Cache!Entries \cup {None}]
         /\ draft \in [Session -> Cache!Entries \cup {None}] /\ write \in [Session -> {None} \cup WriteRow]
         /\ Cache!Sound(entry) /\ (\A s \in Session : RowIsSound(s)) /\ Cache!UnracedKeep
BY DEF Cache!CacheInv, Cache!TypeOK, Cache!EntriesAreSound, RowIsSound, WriteRow, Kinds

\* A session has neither time nor output shape of an entry.
LEMMA OwnedIsSound ==
  ASSUME MaxTime \in Nat \ {0}, NEW e \in Cache!Entries
  PROVE  /\ Cache!Owned(e) \in Cache!Entries /\ Cache!Owned(e).shape = 0
         /\ Cache!Owned(e).scope = e.scope /\ Cache!Owned(e).res = e.res
<1> DEFINE later == [e EXCEPT !.at = 1]
<1>1. 1 \in 1..MaxTime
  OBVIOUS
<1>2. later \in Cache!Entries /\ later.scope = e.scope /\ later.res = e.res
  BY <1>1 DEF Cache!Entries
<1>3. Cache!Owned(e) = [later EXCEPT !.shape = 0]
  BY DEF Cache!Owned
<1> HIDE DEF later
<1>4. QED
  BY <1>2, <1>3 DEF Cache!Entries

\* A step of one session that leaves the file alone, and what it makes of the session's rows.
Moves(s, st, h, shot, mine, drawn, w) ==
  /\ entry' = entry /\ time' \in 0..MaxTime /\ raced' \subseteq Session
  /\ st \in {"off", "starting", "startup", "running", "listed", "writing"} /\ h \in Hash \cup {None}
  /\ shot \in Cache!Entries \cup {None} /\ mine \in Cache!Entries \cup {None}
  /\ drawn \in Cache!Entries \cup {None} /\ w \in {None} \cup WriteRow
  /\ step' = [step EXCEPT ![s] = st] /\ hash' = [hash EXCEPT ![s] = h]
  /\ snapshot' = [snapshot EXCEPT ![s] = shot] /\ own' = [own EXCEPT ![s] = mine]
  /\ draft' = [draft EXCEPT ![s] = drawn] /\ write' = [write EXCEPT ![s] = w]
  /\ \A q \in Session \ {s} : q \in raced' <=> q \in raced

\* If these are sound, the others still are.
LEMMA OneSession ==
  ASSUME Cache!CacheInv, NEW s \in Session, NEW st, NEW h, NEW shot, NEW mine, NEW drawn, NEW w,
         Moves(s, st, h, shot, mine, drawn, w), RowIsSound(s)', st = "writing" => Cache!Keeps(s, w.entry)'
  PROVE  Cache!CacheInv'
<1> USE DEF Moves
<1>1. /\ entry' \in Cache!Entries \cup {None}
      /\ step' \in [Session -> {"off", "starting", "startup", "running", "listed", "writing"}]
      /\ hash' \in [Session -> Hash \cup {None}]
      /\ snapshot' \in [Session -> Cache!Entries \cup {None}] /\ own' \in [Session -> Cache!Entries \cup {None}]
      /\ draft' \in [Session -> Cache!Entries \cup {None}] /\ write' \in [Session -> {None} \cup WriteRow]
  BY CacheParts
<1>2. Cache!TypeOK'
  BY <1>1 DEF Cache!TypeOK, WriteRow, Kinds, Cache!Entries
<1>3. \A q \in Session \ {s} : /\ step'[q] = step[q] /\ hash'[q] = hash[q] /\ snapshot'[q] = snapshot[q]
                               /\ own'[q] = own[q] /\ draft'[q] = draft[q] /\ write'[q] = write[q]
  BY CacheParts
<1>4. step'[s] = st /\ write'[s] = w
  BY CacheParts
<1>5. \A q \in Session : RowIsSound(q)'
  BY <1>3, CacheParts DEF RowIsSound, Cache!Sound
<1>6. Cache!EntriesAreSound'
  BY <1>5, CacheParts DEF Cache!EntriesAreSound, RowIsSound, Cache!Sound
<1>7. Cache!UnracedKeep'
  <2> SUFFICES ASSUME NEW q \in Session \ raced', step'[q] = "writing"
               PROVE  Cache!Keeps(q, write[q].entry)'
    BY DEF Cache!UnracedKeep
  <2>1. CASE q = s
    BY <1>4, <2>1
  <2>2. CASE q # s
    <3>1. Cache!Keeps(q, write[q].entry)
      BY <1>3, <2>2, CacheParts DEF Cache!UnracedKeep
    <3>2. QED
      BY <1>3, <2>2, <3>1 DEF Cache!Keeps
  <2>3. QED
    BY <2>1, <2>2
<1>8. QED
  BY <1>2, <1>6, <1>7 DEF Cache!CacheInv

\* A listing is captured with what its session and the file have of it.
LEMMA CaptureIsSound ==
  ASSUME Listings, Cache!CacheInv, NEW s \in Session, hash[s] # None, time < MaxTime,
         NEW existing \in Cache!Entries \cup {None}, Cache!Sound(existing),
         NEW t \in 1..2, NEW scope \in Scopes, NEW failed \in BOOLEAN
  PROVE  LET e == Cache!Captured(s, existing, t, scope, failed) IN
         /\ e \in Cache!Entries /\ (e.shape # 0 => e.shape = e.tool)
         /\ e.scope # "private" => e.res # "private"
<1> DEFINE fallback == Cache!Fallback(s, scope)
           valid    == Cache!Valid(existing, hash[s])
           apps     == IF fallback # None /\ fallback.apps # 0 THEN fallback
                       ELSE IF valid THEN existing ELSE None
           shape    == Cache!KeptShape(existing, hash[s], t)
           res      == IF ~failed THEN scope
                       ELSE IF fallback # None THEN fallback.res ELSE IF valid THEN existing.res ELSE "none"
           catalog  == IF apps = None THEN 0 ELSE apps.apps
           signed   == IF apps = None THEN FALSE ELSE apps.signed
           e        == Cache!Captured(s, existing, t, scope, failed)
<1>1. e = [hash |-> hash[s], at |-> time + 1, failed |-> FALSE, scope |-> scope, tool |-> t, shape |-> shape,
           res |-> res, apps |-> catalog, signed |-> signed]
  BY DEF Cache!Captured
<1>2. /\ own[s] \in Cache!Entries \cup {None} /\ hash[s] \in Hash /\ time + 1 \in 1..MaxTime /\ 0 \in 0..MaxTime
      /\ own[s] # None /\ own[s].scope # "private" => own[s].res # "private"
  BY CacheParts DEF RowIsSound, Listings
<1>3. /\ fallback \in Cache!Entries \cup {None}
      /\ fallback # None /\ scope # "private" => fallback.res # "private"
  BY <1>2 DEF Cache!Fallback
<1>4. valid => existing \in Cache!Entries /\ existing.res # "private"
  BY DEF Cache!Valid, Cache!Sound
<1>5. shape \in 0..2 /\ (shape # 0 => shape = t)
  BY <1>2, KeptFits
<1> HIDE DEF fallback, valid, shape, e
<1>6. res \in Scopes \cup {"none"} /\ (scope # "private" => res # "private")
  BY <1>3, <1>4, EntryFields
<1>7. apps \in Cache!Entries \cup {None}
  BY <1>3, <1>4
<1> HIDE DEF res, apps
<1>8. catalog \in 0..MaxTime /\ signed \in BOOLEAN
  BY <1>2, <1>7, EntryFields
<1> HIDE DEF catalog, signed
<1>9. e \in Cache!Entries /\ e.shape = shape /\ e.tool = t /\ e.scope = scope /\ e.res = res
  BY <1>1, <1>2, <1>5, <1>6, <1>8 DEF Cache!Entries
<1>10. QED
  BY <1>5, <1>6, <1>9 DEF e

\* A session's rows, and what they are if a step leaves them alone.
LEMMA SameRows ==
  ASSUME Cache!CacheInv, NEW s \in Session
  PROVE  /\ hash[s] \in Hash \cup {None} /\ hash = [hash EXCEPT ![s] = hash[s]]
         /\ snapshot[s] \in Cache!Entries \cup {None} /\ snapshot = [snapshot EXCEPT ![s] = snapshot[s]]
         /\ own[s] \in Cache!Entries \cup {None} /\ own = [own EXCEPT ![s] = own[s]]
         /\ draft[s] \in Cache!Entries \cup {None} /\ draft = [draft EXCEPT ![s] = draft[s]]
         /\ write[s] \in {None} \cup WriteRow /\ write = [write EXCEPT ![s] = write[s]]
         /\ step = [step EXCEPT ![s] = step[s]]
BY CacheParts

\* A session that starts.
LEMMA StartupKeeps ==
  ASSUME Listings, Cache!CacheInv, NEW s \in Session, Cache!Startup(s)
  PROVE  Cache!CacheInv'
<1>1. PICK h \in Hash, st \in {"starting", "running"}, shot \in {entry, snapshot[s]} :
        /\ hash' = [hash EXCEPT ![s] = h] /\ step' = [step EXCEPT ![s] = st]
        /\ snapshot' = [snapshot EXCEPT ![s] = shot]
  BY SameRows DEF Cache!Startup
<1>2. /\ own' = [own EXCEPT ![s] = None] /\ draft' = [draft EXCEPT ![s] = draft[s]]
      /\ write' = [write EXCEPT ![s] = write[s]] /\ UNCHANGED <<entry, time, draft, write, raced>>
  BY SameRows DEF Cache!Startup
<1>3. /\ entry \in Cache!Entries \cup {None} /\ h \in Hash \cup {None} /\ h # None
      /\ shot \in Cache!Entries \cup {None} /\ Cache!Sound(shot) /\ Cache!Sound(draft[s])
      /\ write[s] # None => Cache!Sound(write[s].entry)
      /\ time \in 0..MaxTime /\ raced \subseteq Session
  BY SameRows, CacheParts DEF RowIsSound, Listings
<1>4. /\ step'[s] = st /\ hash'[s] = h /\ snapshot'[s] = shot /\ own'[s] = None /\ draft'[s] = draft[s]
      /\ write'[s] = write[s]
  BY <1>1, <1>2, CacheParts
<1>5. RowIsSound(s)'
  BY <1>3, <1>4 DEF RowIsSound, Cache!Sound
<1>6. /\ draft[s] \in Cache!Entries \cup {None} /\ write[s] \in {None} \cup WriteRow
      /\ time' \in 0..MaxTime /\ raced' \subseteq Session /\ None \in Cache!Entries \cup {None}
  BY <1>2, <1>3, SameRows
<1>7. Moves(s, st, h, shot, None, draft[s], write[s])
  BY <1>1, <1>2, <1>3, <1>6 DEF Moves
<1>8. QED
  BY <1>5, <1>7, OneSession

\* A session that lists the server, during its startup or later.
LEMMA ListingKeeps ==
  ASSUME Listings, Cache!CacheInv, NEW s \in Session, NEW st \in {"startup", "listed"}, time < MaxTime,
         time' = time + 1, step' = [step EXCEPT ![s] = st], hash[s] # None,
         NEW existing \in Cache!Entries \cup {None}, Cache!Sound(existing),
         NEW t \in 1..2, NEW scope \in Scopes, NEW failed \in BOOLEAN, NEW e,
         e = Cache!Captured(s, existing, t, scope, failed),
         own' = [own EXCEPT ![s] = Cache!Owned(e)], draft' = [draft EXCEPT ![s] = Cache!Persisted(e)],
         UNCHANGED <<entry, hash, snapshot, write, raced>>
  PROVE  Cache!CacheInv'
<1>1. /\ e \in Cache!Entries /\ (e.shape # 0 => e.shape = e.tool) /\ (e.scope # "private" => e.res # "private")
  BY CaptureIsSound
<1>2. /\ Cache!Persisted(e) \in Cache!Entries /\ Cache!Sound(Cache!Persisted(e))
  BY <1>1, PersistedIsSound DEF Listings
<1>3. /\ Cache!Owned(e) \in Cache!Entries /\ Cache!Owned(e).shape = 0
      /\ (Cache!Owned(e).scope # "private" => Cache!Owned(e).res # "private")
  <2>1. MaxTime \in Nat \ {0}
    BY CacheParts DEF Listings
  <2>2. QED
    BY <1>1, <2>1, OwnedIsSound
<1>4. /\ time' \in 0..MaxTime /\ raced' \subseteq Session /\ Cache!Persisted(e) # None
      /\ Cache!Sound(snapshot[s]) /\ (write[s] # None => Cache!Sound(write[s].entry))
  BY <1>2, CacheParts DEF RowIsSound, Listings
<1>5. /\ step'[s] = st /\ hash'[s] = hash[s] /\ snapshot'[s] = snapshot[s] /\ own'[s] = Cache!Owned(e)
      /\ draft'[s] = Cache!Persisted(e) /\ write'[s] = write[s]
  BY CacheParts
<1>6. RowIsSound(s)'
  BY <1>2, <1>3, <1>4, <1>5 DEF RowIsSound, Cache!Sound
<1>7. /\ hash' = [hash EXCEPT ![s] = hash[s]] /\ hash[s] \in Hash \cup {None}
      /\ snapshot' = [snapshot EXCEPT ![s] = snapshot[s]] /\ snapshot[s] \in Cache!Entries \cup {None}
      /\ write' = [write EXCEPT ![s] = write[s]] /\ write[s] \in {None} \cup WriteRow
      /\ st # "writing"
  BY SameRows
<1>8. Moves(s, st, hash[s], snapshot[s], Cache!Owned(e), Cache!Persisted(e), write[s])
  BY <1>2, <1>3, <1>4, <1>7 DEF Moves
<1>9. QED
  BY <1>6, <1>7, <1>8, OneSession

\* The startup pass lists the server, notes that it could not, or leaves it.
LEMMA StartupListedKeeps ==
  ASSUME Listings, Cache!CacheInv, NEW s \in Session, Cache!StartupListed(s)
  PROVE  Cache!CacheInv'
<1>0. /\ step[s] = "starting" /\ time < MaxTime /\ hash[s] # None /\ hash[s] \in Hash
      /\ Cache!Sound(snapshot[s]) /\ Cache!Sound(draft[s]) /\ (write[s] # None => Cache!Sound(write[s].entry))
      /\ own[s] # None => own[s].shape = 0 /\ (own[s].scope # "private" => own[s].res # "private")
      /\ time \in 0..MaxTime /\ raced \subseteq Session
  BY CacheParts, SameRows DEF Cache!StartupListed, RowIsSound
<1>1. /\ UNCHANGED <<entry, hash, write, raced>>
      /\ snapshot' = IF step'[s] = "running" THEN [snapshot EXCEPT ![s] = None] ELSE snapshot
  BY DEF Cache!StartupListed
<1>2. ASSUME NEW t \in 1..2, NEW scope \in Scopes, NEW failed \in BOOLEAN,
             own' = [own EXCEPT ![s] = Cache!Owned(Cache!Captured(s, snapshot[s], t, scope, failed))],
             draft' = [draft EXCEPT ![s] = Cache!Persisted(Cache!Captured(s, snapshot[s], t, scope, failed))],
             step' = [step EXCEPT ![s] = "startup"], time' = time + 1
      PROVE  Cache!CacheInv'
  <2>1. snapshot' = snapshot
    BY <1>1, <1>2, CacheParts
  <2>2. QED
    BY <1>0, <1>1, <1>2, <2>1, SameRows, ListingKeeps
<1>3. ASSUME draft' = [draft EXCEPT ![s] = Cache!Marker(s)], step' = [step EXCEPT ![s] = "startup"],
             time' = time + 1, UNCHANGED own
      PROVE  Cache!CacheInv'
  <2>1. Cache!Marker(s) \in Cache!Entries /\ Cache!Sound(Cache!Marker(s)) /\ Cache!Marker(s) # None
    <3>1. time + 1 \in 1..MaxTime /\ 0 \in 0..MaxTime /\ "shared" \in Scopes
      BY <1>0 DEF Listings
    <3>2. Cache!Marker(s) \in Cache!Entries /\ Cache!Sound(Cache!Marker(s))
      BY <1>0, <3>1 DEF Cache!Marker, Cache!Entries, Cache!Sound
    <3>3. QED
      BY <3>2 DEF Listings
  <2>2. step'[s] = "startup" /\ draft'[s] = Cache!Marker(s) /\ snapshot' = snapshot
    BY <1>1, <1>3, CacheParts
  <2>3. RowIsSound(s)'
    BY <1>0, <1>1, <1>3, <2>1, <2>2 DEF RowIsSound, Cache!Sound
  <2>4. time' \in 0..MaxTime
    BY <1>0, <1>3 DEF Listings
  <2>5. /\ hash' = [hash EXCEPT ![s] = hash[s]] /\ hash[s] \in Hash \cup {None}
        /\ snapshot' = [snapshot EXCEPT ![s] = snapshot[s]] /\ snapshot[s] \in Cache!Entries \cup {None}
        /\ own' = [own EXCEPT ![s] = own[s]] /\ own[s] \in Cache!Entries \cup {None}
        /\ write' = [write EXCEPT ![s] = write[s]] /\ write[s] \in {None} \cup WriteRow
    BY <1>1, <1>3, <2>2, SameRows
  <2>6. Moves(s, "startup", hash[s], snapshot[s], own[s], Cache!Marker(s), write[s])
    BY <1>0, <1>1, <1>3, <2>1, <2>4, <2>5 DEF Moves
  <2>7. QED
    BY <2>3, <2>6, OneSession
<1>4. ASSUME step' = [step EXCEPT ![s] = "running"], UNCHANGED <<own, draft, time>>
      PROVE  Cache!CacheInv'
  <2>1. step'[s] = "running" /\ snapshot' = [snapshot EXCEPT ![s] = None] /\ snapshot'[s] = None
    BY <1>1, <1>4, CacheParts
  <2>2. RowIsSound(s)'
    BY <1>0, <1>1, <1>4, <2>1 DEF RowIsSound, Cache!Sound
  <2>3. /\ hash' = [hash EXCEPT ![s] = hash[s]] /\ hash[s] \in Hash \cup {None}
        /\ own' = [own EXCEPT ![s] = own[s]] /\ own[s] \in Cache!Entries \cup {None}
        /\ draft' = [draft EXCEPT ![s] = draft[s]] /\ draft[s] \in Cache!Entries \cup {None}
        /\ write' = [write EXCEPT ![s] = write[s]] /\ write[s] \in {None} \cup WriteRow
    BY <1>1, <1>4, SameRows
  <2>4. Moves(s, "running", hash[s], None, own[s], draft[s], write[s])
    BY <1>0, <1>1, <1>4, <2>1, <2>3 DEF Moves
  <2>5. QED
    BY <2>2, <2>4, OneSession
<1>5. QED
  BY <1>2, <1>3, <1>4 DEF Cache!StartupListed

\* A session that lists the server again.
LEMMA ListedKeeps ==
  ASSUME Listings, Cache!CacheInv, NEW s \in Session, Cache!Listed(s)
  PROVE  Cache!CacheInv'
<1>1. PICK t \in 1..2, scope \in Scopes, failed \in BOOLEAN :
        /\ own' = [own EXCEPT ![s] = Cache!Owned(Cache!Captured(s, entry, t, scope, failed))]
        /\ draft' = [draft EXCEPT ![s] = Cache!Persisted(Cache!Captured(s, entry, t, scope, failed))]
  BY DEF Cache!Listed
<1>2. /\ time < MaxTime /\ time' = time + 1 /\ step' = [step EXCEPT ![s] = "listed"]
      /\ UNCHANGED <<entry, hash, snapshot, write, raced>> /\ hash[s] # None
  BY CacheParts DEF Cache!Listed, RowIsSound
<1>3. QED
  BY <1>1, <1>2, CacheParts, ListingKeeps

\* A session that has read the file for an update.
LEMMA ReadingKeeps ==
  ASSUME Listings, Cache!CacheInv, NEW s \in Session, step[s] # "off", NEW kind \in Kinds,
         NEW e \in Cache!Entries \cup {None}, Cache!Sound(e), Cache!Reads(s, kind, e),
         NEW mine \in Cache!Entries \cup {None}, own' = [own EXCEPT ![s] = mine],
         mine # None => mine.shape = 0 /\ (mine.scope # "private" => mine.res # "private"),
         NEW drawn \in {draft[s], None}, draft' = [draft EXCEPT ![s] = drawn],
         UNCHANGED <<entry, hash, snapshot, raced>>, time' \in 0..MaxTime,
         kind = "startup" => Faithful(entry, e, snapshot[s]),
         kind \in {"shape", "apps", "signature"} =>
           /\ entry # None /\ e # None
           /\ [e EXCEPT !.shape = 0, !.apps = 0, !.signed = FALSE]
                = [entry EXCEPT !.shape = 0, !.apps = 0, !.signed = FALSE]
           /\ kind # "apps" => e.apps = entry.apps
  PROVE  Cache!CacheInv'
<1> DEFINE w == [kind |-> kind, entry |-> e]
<1>1. /\ w \in WriteRow /\ w # None /\ w.kind = kind /\ w.entry = e
      /\ write' = [write EXCEPT ![s] = w] /\ step' = [step EXCEPT ![s] = "writing"]
  BY DEF Cache!Reads, WriteRow, Listings
<1> HIDE DEF w
<1>2. /\ hash' = [hash EXCEPT ![s] = hash[s]] /\ hash[s] \in Hash \cup {None}
      /\ snapshot' = [snapshot EXCEPT ![s] = snapshot[s]] /\ snapshot[s] \in Cache!Entries \cup {None}
      /\ draft[s] \in Cache!Entries \cup {None} /\ raced' \subseteq Session
  BY SameRows, CacheParts
<1>3. Moves(s, "writing", hash[s], snapshot[s], mine, drawn, w)
  BY <1>1, <1>2 DEF Moves
<1>4. /\ Cache!Sound(snapshot[s]) /\ Cache!Sound(draft[s]) /\ hash[s] # None
  BY CacheParts DEF RowIsSound
<1>5. /\ step'[s] = "writing" /\ hash'[s] = hash[s] /\ snapshot'[s] = snapshot[s] /\ own'[s] = mine
      /\ draft'[s] = drawn /\ write'[s] = w
  BY <1>1, CacheParts
<1>6. RowIsSound(s)'
  BY <1>1, <1>4, <1>5 DEF RowIsSound, Cache!Sound
<1>7. Cache!Keeps(s, w.entry)'
  BY <1>1, <1>5 DEF Cache!Keeps, Faithful
<1>8. QED
  BY <1>3, <1>6, <1>7, OneSession

\* What is to be saved meets the file.
LEMMA SavesKeeps ==
  ASSUME Listings, Cache!CacheInv, NEW s \in Session, Cache!Saves(s)
  PROVE  Cache!CacheInv'
<1>1. /\ draft[s] \in Cache!Entries /\ Cache!Sound(draft[s]) /\ snapshot[s] \in Cache!Entries \cup {None}
      /\ step[s] # "off" /\ own' = [own EXCEPT ![s] = own[s]] /\ own[s] \in Cache!Entries \cup {None}
      /\ draft' = [draft EXCEPT ![s] = None] /\ UNCHANGED <<entry, time, hash, snapshot, own, raced>>
      /\ entry \in Cache!Entries \cup {None} /\ Cache!Sound(entry) /\ time \in 0..MaxTime
      /\ own[s] # None => own[s].shape = 0 /\ (own[s].scope # "private" => own[s].res # "private")
  BY SameRows, CacheParts DEF Cache!Saves, RowIsSound
<1>2. CASE step[s] = "startup" /\ Cache!Reads(s, "startup", Cache!StartupMerged(entry, draft[s], snapshot[s]))
  <2>1. Faithful(entry, Cache!StartupMerged(entry, draft[s], snapshot[s]), snapshot[s])
    BY <1>1, MergedKeeps
  <2>2. /\ Cache!StartupMerged(entry, draft[s], snapshot[s]) \in Cache!Entries \cup {None}
        /\ Cache!Sound(Cache!StartupMerged(entry, draft[s], snapshot[s]))
    BY <2>1 DEF Faithful
  <2>3. QED
    BY <1>1, <1>2, <2>1, <2>2, ReadingKeeps DEF Kinds
<1>3. CASE step[s] = "listed" /\ Cache!Reads(s, "listing", draft[s])
  BY <1>1, <1>3, ReadingKeeps DEF Kinds
<1>4. QED
  BY <1>2, <1>3 DEF Cache!Saves

\* So does an output shape, a catalog or a signature.
LEMMA UpdatesKeep ==
  ASSUME Listings, Cache!CacheInv, NEW s \in Session,
         Cache!SavesOutput(s) \/ Cache!AppsFetched(s) \/ Cache!Described(s)
  PROVE  Cache!CacheInv'
<1>1. /\ step[s] = "running" /\ own[s] # None /\ own[s] \in Cache!Entries /\ hash[s] \in Hash \cup {None}
      /\ own[s].shape = 0 /\ (own[s].scope # "private" => own[s].res # "private")
      /\ UNCHANGED <<entry, hash, snapshot, draft, raced>> /\ draft' = [draft EXCEPT ![s] = draft[s]]
      /\ entry \in Cache!Entries \cup {None} /\ Cache!Sound(entry) /\ time \in 0..MaxTime
      /\ time' \in 0..MaxTime
  BY SameRows, CacheParts DEF Cache!SavesOutput, Cache!AppsFetched, Cache!Described, RowIsSound, Listings
<1>2. CASE Cache!SavesOutput(s)
  <2> DEFINE e == [entry EXCEPT !.shape = own[s].tool]
  <2>1. /\ entry \in Cache!Entries /\ entry.tool = own[s].tool /\ Cache!Reads(s, "shape", e)
        /\ own' = [own EXCEPT ![s] = own[s]]
    BY <1>1, <1>2, SameRows DEF Cache!SavesOutput
  <2>2. /\ e \in Cache!Entries /\ e.hash = entry.hash /\ e.at = entry.at /\ e.failed = entry.failed
        /\ e.scope = entry.scope /\ e.tool = entry.tool /\ e.res = entry.res /\ e.apps = entry.apps
        /\ e.shape = entry.tool
    <3>1. own[s].tool \in 0..2
      BY <1>1, EntryFields
    <3>2. QED
      BY <2>1, <3>1 DEF Cache!Entries
  <2> HIDE DEF e
  <2>3. Cache!Sound(e)
    BY <1>1, <2>1, <2>2 DEF Cache!Sound, Listings
  <2>4. [e EXCEPT !.shape = 0, !.apps = 0, !.signed = FALSE] = [entry EXCEPT !.shape = 0, !.apps = 0, !.signed = FALSE]
    BY <2>1, <2>2, Narrow
  <2>5. entry # None /\ e # None
    BY <2>1, <2>2 DEF Listings
  <2>6. QED
    BY <1>1, <2>1, <2>2, <2>3, <2>4, <2>5, ReadingKeeps DEF Kinds
<1>3. CASE Cache!AppsFetched(s)
  <2> DEFINE mine == [own[s] EXCEPT !.apps = time + 1, !.signed = FALSE]
             e == [entry EXCEPT !.apps = time + 1, !.signed = FALSE]
  <2>1. time + 1 \in 0..MaxTime /\ own' = [own EXCEPT ![s] = mine]
    BY <1>1, <1>3, CacheParts DEF Cache!AppsFetched, Listings
  <2>2. mine \in Cache!Entries /\ mine.shape = 0 /\ (mine.scope # "private" => mine.res # "private")
    BY <1>1, <2>1 DEF Cache!Entries
  <2> HIDE DEF mine
  <2>3. CASE Cache!Shareable(s)
    <3>1. entry \in Cache!Entries /\ entry.scope = "shared" /\ Cache!Reads(s, "apps", e)
      BY <1>1, <1>3, <2>3 DEF Cache!AppsFetched, Cache!Shareable, Cache!Valid
    <3>2. /\ e \in Cache!Entries /\ e.hash = entry.hash /\ e.at = entry.at /\ e.failed = entry.failed
          /\ e.scope = entry.scope /\ e.tool = entry.tool /\ e.res = entry.res /\ e.shape = entry.shape
      BY <2>1, <3>1 DEF Cache!Entries
    <3> HIDE DEF e
    <3>3. Cache!Sound(e)
      BY <1>1, <3>1, <3>2 DEF Cache!Sound, Listings
    <3>4. [e EXCEPT !.shape = 0, !.apps = 0, !.signed = FALSE] = [entry EXCEPT !.shape = 0, !.apps = 0, !.signed = FALSE]
      BY <3>1, <3>2, Narrow
    <3>5. entry # None /\ e # None
      BY <3>1, <3>2 DEF Listings
    <3>6. QED
      BY <1>1, <2>1, <2>2, <3>1, <3>2, <3>3, <3>4, <3>5, ReadingKeeps DEF Kinds
  <2>4. CASE ~Cache!Shareable(s)
    <3>1. UNCHANGED <<step, write>>
      BY <1>3, <2>4 DEF Cache!AppsFetched
    <3>2. Moves(s, step[s], hash[s], snapshot[s], mine, draft[s], write[s])
      BY <1>1, <2>1, <2>2, <3>1, SameRows, CacheParts DEF Moves
    <3>3. own'[s] = mine
      BY <2>1, CacheParts
    <3>4. RowIsSound(s)'
      BY <1>1, <2>2, <3>1, <3>3, CacheParts DEF RowIsSound, Cache!Sound
    <3>5. QED
      BY <1>1, <3>2, <3>4, OneSession
  <2>5. QED
    BY <2>3, <2>4
<1>4. CASE Cache!Described(s)
  <2> DEFINE mine == [own[s] EXCEPT !.signed = TRUE]
             e == [entry EXCEPT !.signed = TRUE]
             shares == own[s].scope = "shared" /\ entry # None /\ entry.hash = hash[s] /\ entry.apps # 0
  <2>1. own' = [own EXCEPT ![s] = mine]
    BY <1>1, <1>4, CacheParts DEF Cache!Described
  <2>2. mine \in Cache!Entries /\ mine.shape = 0 /\ (mine.scope # "private" => mine.res # "private")
    BY <1>1 DEF Cache!Entries
  <2> HIDE DEF mine
  <2>3. CASE shares
    <3>1. entry \in Cache!Entries /\ Cache!Reads(s, "signature", e)
      BY <1>1, <1>4, <2>3 DEF Cache!Described
    <3>2. /\ e \in Cache!Entries /\ e.hash = entry.hash /\ e.at = entry.at /\ e.failed = entry.failed
          /\ e.scope = entry.scope /\ e.tool = entry.tool /\ e.res = entry.res /\ e.shape = entry.shape
          /\ e.apps = entry.apps
      BY <3>1 DEF Cache!Entries
    <3> HIDE DEF e
    <3>3. Cache!Sound(e)
      BY <1>1, <3>1, <3>2 DEF Cache!Sound, Listings
    <3>4. [e EXCEPT !.shape = 0, !.apps = 0, !.signed = FALSE] = [entry EXCEPT !.shape = 0, !.apps = 0, !.signed = FALSE]
      BY <3>1, <3>2, Narrow
    <3>5. entry # None /\ e # None
      BY <3>1, <3>2 DEF Listings
    <3>6. QED
      BY <1>1, <2>1, <2>2, <3>1, <3>2, <3>3, <3>4, <3>5, ReadingKeeps DEF Kinds
  <2>4. CASE ~shares
    <3>1. UNCHANGED <<step, write>>
      BY <1>4, <2>4 DEF Cache!Described
    <3>2. Moves(s, step[s], hash[s], snapshot[s], mine, draft[s], write[s])
      BY <1>1, <2>1, <2>2, <3>1, SameRows, CacheParts DEF Moves
    <3>3. own'[s] = mine
      BY <2>1, CacheParts
    <3>4. RowIsSound(s)'
      BY <1>1, <2>2, <3>1, <3>3, CacheParts DEF RowIsSound, Cache!Sound
    <3>5. QED
      BY <1>1, <3>2, <3>4, OneSession
  <2>5. QED
    BY <2>3, <2>4
<1>5. QED
  BY <1>2, <1>3, <1>4

\* The new file is as the old one must be, and who read that one has raced.
LEMMA ReplacesKeeps ==
  ASSUME Listings, Cache!CacheInv, NEW s \in Session, Cache!Replaces(s)
  PROVE  Cache!CacheInv'
<1>1. /\ step[s] = "writing" /\ step' = [step EXCEPT ![s] = "running"] /\ entry' = write[s].entry
      /\ write' = [write EXCEPT ![s] = None] /\ snapshot' = [snapshot EXCEPT ![s] = None]
      /\ raced' = (raced \ {s}) \cup {t \in Session \ {s} : step[t] = "writing"}
      /\ UNCHANGED <<time, hash, own, draft>>
  BY DEF Cache!Replaces
<1>2. write[s] \in WriteRow /\ write[s].entry \in Cache!Entries \cup {None} /\ Cache!Sound(write[s].entry)
  BY <1>1, CacheParts DEF RowIsSound, WriteRow
<1>3. /\ step' \in [Session -> {"off", "starting", "startup", "running", "listed", "writing"}]
      /\ snapshot' \in [Session -> Cache!Entries \cup {None}] /\ write' \in [Session -> {None} \cup WriteRow]
      /\ raced' \subseteq Session
  BY <1>1, CacheParts
<1>4. Cache!TypeOK'
  BY <1>1, <1>2, <1>3, CacheParts DEF Cache!TypeOK, WriteRow, Kinds, Cache!Entries
<1>5. ASSUME NEW q \in Session PROVE RowIsSound(q)'
  <2>1. CASE q = s
    <3>1. step'[q] = "running" /\ snapshot'[q] = None /\ write'[q] = None
      BY <1>1, <2>1, CacheParts
    <3>2. QED
      BY <1>1, <2>1, <3>1, CacheParts DEF RowIsSound, Cache!Sound
  <2>2. CASE q # s
    <3>1. step'[q] = step[q] /\ snapshot'[q] = snapshot[q] /\ write'[q] = write[q]
      BY <1>1, <2>2, CacheParts
    <3>2. QED
      BY <1>1, <3>1, CacheParts DEF RowIsSound, Cache!Sound
  <2>3. QED
    BY <2>1, <2>2
<1>6. Cache!EntriesAreSound'
  BY <1>1, <1>2, <1>5 DEF Cache!EntriesAreSound, RowIsSound, Cache!Sound
<1>7. \A q \in Session \ raced' : step'[q] # "writing"
  BY <1>1, CacheParts
<1>8. QED
  BY <1>4, <1>6, <1>7 DEF Cache!CacheInv, Cache!UnracedKeep

\* A process that is gone has no rows.
LEMMA EndsKeepsCache ==
  ASSUME Listings, Cache!CacheInv, NEW s \in Session, Cache!Ends(s)
  PROVE  Cache!CacheInv'
<1>1. /\ Moves(s, "off", None, None, None, None, None)
  BY CacheParts DEF Cache!Ends, Moves
<1>2. /\ step'[s] = "off" /\ hash'[s] = None /\ snapshot'[s] = None /\ own'[s] = None /\ draft'[s] = None
      /\ write'[s] = None
  BY CacheParts DEF Cache!Ends
<1>3. RowIsSound(s)'
  BY <1>2 DEF RowIsSound, Cache!Sound
<1>4. QED
  BY <1>1, <1>3, OneSession

\* There is no file yet.
LEMMA CacheBegins == Listings /\ Cache!Init => Cache!CacheInv
<1> SUFFICES ASSUME Listings, Cache!Init PROVE Cache!CacheInv
  OBVIOUS
<1>1. Cache!TypeOK
  BY DEF Cache!Init, Cache!TypeOK, Listings
<1>2. Cache!EntriesAreSound /\ Cache!UnracedKeep
  BY DEF Cache!Init, Cache!EntriesAreSound, Cache!UnracedKeep, Cache!Sound
<1>3. QED
  BY <1>1, <1>2 DEF Cache!CacheInv

\* So every step keeps CacheInv.
LEMMA CacheKeeps ==
  ASSUME Listings, Cache!CacheInv, Cache!Next \/ UNCHANGED cache
  PROVE  Cache!CacheInv'
<1>1. ASSUME UNCHANGED cache PROVE Cache!CacheInv'
  BY <1>1 DEF cache, Cache!CacheInv, Cache!TypeOK, Cache!EntriesAreSound, Cache!UnracedKeep, Cache!Sound, Cache!Keeps
<1>2. QED
  BY <1>1, StartupKeeps, StartupListedKeeps, ListedKeeps, SavesKeeps, UpdatesKeep, ReplacesKeeps, EndsKeepsCache
     DEF Cache!Next

\* A session that ends its update has put what it had read the file for in its place.
LEMMA ReplacementKeeps ==
  ASSUME Listings, Cache!CacheInv, Cache!Next, NEW s \in Session, NEW kinds, Cache!Replacement(s, kinds)
  PROVE  entry' = write[s].entry /\ write[s].kind \in kinds /\ Cache!Keeps(s, write[s].entry)
<1>1. step[s] = "writing" /\ step'[s] = "running" /\ write[s].kind \in kinds /\ s \notin raced
  BY DEF Cache!Replacement
<1>2. ASSUME NEW q \in Session,
         \/ Cache!Startup(q) \/ Cache!StartupListed(q) \/ Cache!Listed(q) \/ Cache!Saves(q)
         \/ Cache!SavesOutput(q) \/ Cache!AppsFetched(q) \/ Cache!Described(q) \/ Cache!Ends(q)
      PROVE  FALSE
  <2>1. CASE Cache!Ends(q)
    BY <1>1, <2>1, CacheParts DEF Cache!Ends
  <2>2. CASE Cache!Startup(q) \/ Cache!StartupListed(q) \/ Cache!Listed(q)
    BY <1>1, <2>2, CacheParts DEF Cache!Startup, Cache!StartupListed, Cache!Listed
  <2>3. CASE Cache!Saves(q) \/ Cache!SavesOutput(q) \/ Cache!AppsFetched(q) \/ Cache!Described(q)
    BY <1>1, <2>3, CacheParts DEF Cache!Saves, Cache!SavesOutput, Cache!AppsFetched, Cache!Described, Cache!Reads
  <2>4. QED
    BY <1>2, <2>1, <2>2, <2>3
<1>3. PICK q \in Session : Cache!Replaces(q)
  BY <1>2 DEF Cache!Next
<1>4. q = s
  BY <1>1, <1>3, CacheParts DEF Cache!Replaces
<1>5. QED
  BY <1>1, <1>3, <1>4, CacheParts DEF Cache!Replaces, Cache!UnracedKeep

\* So a startup pass destroys nothing that was saved during it.
LEMMA StartupsKeep ==
  ASSUME Listings, Cache!CacheInv, Cache!Next \/ UNCHANGED cache
  PROVE  [\A s \in Session : Cache!Replacement(s, {"startup"}) /\ entry # None /\ entry' # entry =>
            \/ entry'.failed /\ entry = snapshot[s]
            \/ ~entry'.failed /\ (entry.failed \/ entry.hash # entry'.hash)
            \/ /\ ~entry'.failed /\ entry.hash = entry'.hash /\ entry.at <= entry'.at
               /\ entry.shape = 0 \/ entry.tool # entry'.tool \/ entry.scope = "private" \/ entry'.shape # 0
               /\ entry.apps = 0 \/ entry'.apps # 0 \/ entry'.scope # "shared"]_Cache!vars
<1>1. CASE Cache!Next
  <2> SUFFICES ASSUME NEW s \in Session, Cache!Replacement(s, {"startup"}), entry # None, entry' # entry
               PROVE  \/ entry'.failed /\ entry = snapshot[s]
                      \/ ~entry'.failed /\ (entry.failed \/ entry.hash # entry'.hash)
                      \/ /\ ~entry'.failed /\ entry.hash = entry'.hash /\ entry.at <= entry'.at
                         /\ entry.shape = 0 \/ entry.tool # entry'.tool \/ entry.scope = "private" \/ entry'.shape # 0
                         /\ entry.apps = 0 \/ entry'.apps # 0 \/ entry'.scope # "shared"
    OBVIOUS
  <2>1. entry' = write[s].entry /\ write[s].kind = "startup" /\ Cache!Keeps(s, write[s].entry)
    BY <1>1, ReplacementKeeps
  <2>2. QED
    BY <2>1 DEF Cache!Keeps
<1>2. CASE UNCHANGED cache
  BY <1>2 DEF cache, Cache!vars
<1>3. QED
  BY <1>1, <1>2

\* And the updates touch nothing else of the file.
LEMMA UpdatesKeepTheRest ==
  ASSUME Listings, Cache!CacheInv, Cache!Next \/ UNCHANGED cache
  PROVE  [\A s \in Session : Cache!Replacement(s, {"shape", "apps", "signature"}) =>
            /\ entry # None /\ entry' # None
            /\ [entry' EXCEPT !.shape = 0, !.apps = 0, !.signed = FALSE]
                 = [entry EXCEPT !.shape = 0, !.apps = 0, !.signed = FALSE]
            /\ Cache!Replacement(s, {"signature", "shape"}) => entry'.apps = entry.apps]_Cache!vars
<1>1. CASE Cache!Next
  <2> SUFFICES ASSUME NEW s \in Session, Cache!Replacement(s, {"shape", "apps", "signature"})
               PROVE  /\ entry # None /\ entry' # None
                      /\ [entry' EXCEPT !.shape = 0, !.apps = 0, !.signed = FALSE]
                           = [entry EXCEPT !.shape = 0, !.apps = 0, !.signed = FALSE]
                      /\ Cache!Replacement(s, {"signature", "shape"}) => entry'.apps = entry.apps
    OBVIOUS
  <2>1. /\ entry' = write[s].entry /\ write[s].kind \in {"shape", "apps", "signature"}
        /\ Cache!Keeps(s, write[s].entry)
    BY <1>1, ReplacementKeeps
  <2>2. Cache!Replacement(s, {"signature", "shape"}) => write[s].kind # "apps"
    BY DEF Cache!Replacement
  <2>3. QED
    BY <2>1, <2>2 DEF Cache!Keeps
<1>2. CASE UNCHANGED cache
  BY <1>2 DEF cache, Cache!vars
<1>3. QED
  BY <1>1, <1>2

\* CacheInv holds in every behaviour.
LEMMA CacheInvariant ==
  ASSUME Listings
  PROVE  Spec => []Cache!CacheInv /\ Cache!StartupDestroysNothing /\ Cache!UpdatesAreNarrow
<1>1. Init => Cache!CacheInv
  BY CacheBegins DEF Init
<1>2. Cache!CacheInv /\ [Next]_vars => Cache!CacheInv'
  BY CacheKeeps DEF Next, vars
<1>3. Cache!CacheInv /\ [Next]_vars
      => [\A s \in Session : Cache!Replacement(s, {"startup"}) /\ entry # None /\ entry' # entry =>
            \/ entry'.failed /\ entry = snapshot[s]
            \/ ~entry'.failed /\ (entry.failed \/ entry.hash # entry'.hash)
            \/ /\ ~entry'.failed /\ entry.hash = entry'.hash /\ entry.at <= entry'.at
               /\ entry.shape = 0 \/ entry.tool # entry'.tool \/ entry.scope = "private" \/ entry'.shape # 0
               /\ entry.apps = 0 \/ entry'.apps # 0 \/ entry'.scope # "shared"]_Cache!vars
  BY StartupsKeep DEF Next, vars
<1>4. Cache!CacheInv /\ [Next]_vars
      => [\A s \in Session : Cache!Replacement(s, {"shape", "apps", "signature"}) =>
            /\ entry # None /\ entry' # None
            /\ [entry' EXCEPT !.shape = 0, !.apps = 0, !.signed = FALSE]
                 = [entry EXCEPT !.shape = 0, !.apps = 0, !.signed = FALSE]
            /\ Cache!Replacement(s, {"signature", "shape"}) => entry'.apps = entry.apps]_Cache!vars
  BY UpdatesKeepTheRest DEF Next, vars
<1>5. QED
  BY <1>1, <1>2, <1>3, <1>4, PTL DEF Spec, Cache!StartupDestroysNothing, Cache!UpdatesAreNarrow

-----------------------------------------------------------------------------
(* NpxResolver *)

NpxFile == [Npx!Specs -> Npx!Entries]
StartRow == [pc : {"idle", "installing", "saving", "resolved"}, spec : Npx!Specs,
             file : NpxFile \cup {None}, bin : Dir \cup {None}]

\* There is a directory, and None is no directory, no entry and no file.
Directories == /\ Keep \in Nat /\ Dir # {} /\ None \notin Dir
               /\ None \notin [bin : Dir, of : 1..2, left : 0..Keep] /\ None \notin NpxFile

\* A directory that is found fits.
LEMMA FoundFits ==
  ASSUME NEW s \in Npx!Specs
  PROVE  Npx!Found(s) # None => Npx!Found(s) \in Dir /\ Npx!Fits(Npx!Found(s), s)
<1> DEFINE fit == {d \in Dir : Npx!Fits(d, s)}
<1>1. CASE fit = {}
  BY <1>1 DEF Npx!Found
<1>2. CASE fit # {} /\ newest \in fit
  BY <1>2 DEF Npx!Found
<1>3. CASE fit # {} /\ newest \notin fit
  <2>1. PICK d \in fit : Npx!Found(s) = d
    BY <1>3 DEF Npx!Found
  <2>2. QED
    BY <2>1
<1>4. QED
  BY <1>1, <1>2, <1>3

\* One resolution moves.
LEMMA StarterGoes ==
  ASSUME starter \in [Starter -> StartRow], NEW p \in Starter, NEW row \in StartRow,
         starter' = [starter EXCEPT ![p] = row]
  PROVE  /\ starter' \in [Starter -> StartRow] /\ starter'[p] = row
         /\ \A q \in Starter \ {p} : starter'[q] = starter[q]
OBVIOUS

\* Nothing is kept at first.
LEMMA NpxBegins == Directories /\ Npx!Init => Npx!NpxInv
<1> SUFFICES ASSUME Directories, Npx!Init PROVE Npx!NpxInv
  OBVIOUS
<1>1. newest \in Dir
  BY DEF Npx!Init, Directories
<1>2. Npx!NoStart \in StartRow /\ Npx!NoStart.pc = "idle"
  BY DEF Npx!NoStart, StartRow, Npx!Specs
<1>3. QED
  BY <1>1, <1>2 DEF Npx!Init, Npx!NpxInv, Npx!TypeOK, Npx!EntriesAreTrue, Npx!SavingFits, StartRow, NpxFile, Npx!Entries

\* A resolution that moves without touching the directories or the file.
LEMMA StarterKeeps ==
  ASSUME Npx!NpxInv, NEW p \in Starter, NEW row \in StartRow, starter' = [starter EXCEPT ![p] = row],
         row.pc = "saving" => row.bin # None /\ row.file # None /\ Npx!Fits(row.bin, row.spec),
         UNCHANGED <<holds, newest, kept, moved>>
  PROVE  Npx!NpxInv'
<1> USE DEF NpxFile
<1>1. starter \in [Starter -> StartRow]
  BY DEF Npx!NpxInv, Npx!TypeOK, StartRow
<1>2. /\ starter' \in [Starter -> StartRow] /\ starter'[p] = row
      /\ \A q \in Starter \ {p} : starter'[q] = starter[q]
  BY <1>1, StarterGoes
<1>3. Npx!TypeOK' /\ Npx!EntriesAreTrue'
  BY <1>2 DEF Npx!NpxInv, Npx!TypeOK, Npx!EntriesAreTrue, StartRow
<1>4. Npx!SavingFits'
  BY <1>2 DEF Npx!NpxInv, Npx!SavingFits, Npx!Fits
<1>5. QED
  BY <1>3, <1>4 DEF Npx!NpxInv

\* A resolution begins.
LEMMA ResolvingKeeps ==
  ASSUME Directories, Npx!NpxInv, NEW p \in Starter, NEW s \in Npx!Specs, Npx!Resolve(p, s)
  PROVE  Npx!NpxInv'
<1>1. kept \in NpxFile /\ kept # None
  BY DEF Npx!NpxInv, Npx!TypeOK, Directories, NpxFile
<1>2. CASE Npx!Cached(s)
  <2> DEFINE row == [pc |-> "resolved", spec |-> s, file |-> None, bin |-> kept[s].bin]
  <2>1. kept[s].bin \in Dir
    BY <1>1, <1>2 DEF Npx!Cached, NpxFile, Npx!Entries
  <2>2. row \in StartRow /\ row.pc # "saving"
    BY <2>1 DEF StartRow
  <2>3. starter' = [starter EXCEPT ![p] = row] /\ UNCHANGED <<holds, newest, kept, moved>>
    BY <1>2 DEF Npx!Resolve, Npx!Goes
  <2> HIDE DEF row
  <2>4. QED
    BY <2>2, <2>3, StarterKeeps
<1>3. CASE ~Npx!Cached(s) /\ Npx!Found(s) # None
  <2> DEFINE row == [pc |-> "saving", spec |-> s, file |-> kept, bin |-> Npx!Found(s)]
  <2>1. Npx!Found(s) \in Dir /\ Npx!Fits(Npx!Found(s), s)
    BY <1>3, FoundFits
  <2>2. row \in StartRow
    BY <1>1, <2>1 DEF StartRow
  <2>3. starter' = [starter EXCEPT ![p] = row] /\ UNCHANGED <<holds, newest, kept, moved>>
    BY <1>3 DEF Npx!Resolve, Npx!Goes
  <2>4. row.bin # None /\ row.file # None /\ Npx!Fits(row.bin, row.spec)
    BY <1>1, <2>1 DEF Directories
  <2> HIDE DEF row
  <2>5. QED
    BY <2>2, <2>3, <2>4, StarterKeeps
<1>4. CASE ~Npx!Cached(s) /\ Npx!Found(s) = None
  <2> DEFINE row == [pc |-> "installing", spec |-> s, file |-> None, bin |-> None]
  <2>1. row \in StartRow /\ row.pc # "saving"
    BY DEF StartRow
  <2>2. starter' = [starter EXCEPT ![p] = row] /\ UNCHANGED <<holds, newest, kept, moved>>
    BY <1>4 DEF Npx!Resolve, Npx!Goes
  <2> HIDE DEF row
  <2>3. QED
    BY <2>1, <2>2, StarterKeeps
<1>5. QED
  BY <1>2, <1>3, <1>4

\* npm has ended, or the resolution is over.
LEMMA InstalledKeeps ==
  ASSUME Directories, Npx!NpxInv, NEW p \in Starter, Npx!Installed(p) \/ Npx!Done(p)
  PROVE  Npx!NpxInv'
<1> DEFINE s == starter[p].spec
           row == [pc |-> "saving", spec |-> s, file |-> kept, bin |-> Npx!Found(s)]
<1>1. kept \in NpxFile /\ kept # None /\ s \in Npx!Specs
  BY DEF Npx!NpxInv, Npx!TypeOK, Directories, NpxFile
<1>2. CASE Npx!Installed(p) /\ Npx!Found(s) # None
  <2>1. Npx!Found(s) \in Dir /\ Npx!Fits(Npx!Found(s), s)
    BY <1>1, <1>2, FoundFits
  <2>2. row \in StartRow
    BY <1>1, <2>1 DEF StartRow
  <2>3. starter' = [starter EXCEPT ![p] = row] /\ UNCHANGED <<holds, newest, kept, moved>>
    BY <1>2 DEF Npx!Installed, Npx!Goes
  <2>4. row.bin # None /\ row.file # None /\ Npx!Fits(row.bin, row.spec)
    BY <1>1, <2>1 DEF Directories
  <2> HIDE DEF row
  <2>5. QED
    BY <2>2, <2>3, <2>4, StarterKeeps
<1>3. CASE Npx!Done(p) \/ Npx!Found(s) = None
  <2>1. Npx!NoStart \in StartRow /\ Npx!NoStart.pc = "idle"
    BY DEF Npx!NoStart, StartRow, Npx!Specs
  <2>2. starter' = [starter EXCEPT ![p] = Npx!NoStart] /\ UNCHANGED <<holds, newest, kept, moved>>
    BY <1>3 DEF Npx!Installed, Npx!Done
  <2>3. QED
    BY <2>1, <2>2, StarterKeeps
<1>4. QED
  BY <1>2, <1>3

\* What was found is saved: the file as it was read, with the new entry.
LEMMA SavingKeeps ==
  ASSUME Directories, Npx!NpxInv, NEW p \in Starter, Npx!Save(p)
  PROVE  Npx!NpxInv'
<1> DEFINE me == starter[p]
           row == [pc |-> "resolved", spec |-> me.spec, file |-> None, bin |-> me.bin]
           entered == [bin |-> me.bin, of |-> holds[me.bin], left |-> Keep]
<1>1. /\ starter \in [Starter -> StartRow] /\ me \in StartRow /\ me.bin \in Dir /\ me.file \in NpxFile /\ me.spec \in Npx!Specs
      /\ holds \in [Dir -> 0..2] /\ moved \in [Npx!Specs -> BOOLEAN] /\ kept \in NpxFile
  BY DEF Npx!NpxInv, Npx!TypeOK, StartRow, NpxFile, Npx!SavingFits, Npx!Save
<1>2. row \in StartRow /\ row.pc # "saving"
  BY <1>1 DEF StartRow
<1>3. starter' = [starter EXCEPT ![p] = row] /\ UNCHANGED <<holds, newest>>
  BY DEF Npx!Save, Npx!Goes
<1>4. CASE UNCHANGED <<kept, moved>>
  <2> HIDE DEF row
  <2>1. QED
    BY <1>2, <1>3, <1>4, StarterKeeps
<1>5. CASE /\ holds[me.bin] # 0
           /\ kept' = [me.file EXCEPT ![me.spec] = entered]
           /\ moved' = [s \in Npx!Specs |-> IF s = me.spec THEN FALSE
                                            ELSE kept'[s] # None /\ kept'[s].of # holds[kept'[s].bin]]
  <2>1. entered \in Npx!Entries /\ entered # None /\ entered.of = holds[entered.bin]
    BY <1>1, <1>5 DEF Npx!Entries, Directories
  <2> HIDE DEF entered
  <2>2. kept' \in NpxFile /\ kept'[me.spec] = entered
    BY <1>1, <1>5, <2>1 DEF NpxFile
  <2>3. moved' \in [Npx!Specs -> BOOLEAN] /\ \A s \in Npx!Specs : s # me.spec =>
          moved'[s] = (kept'[s] # None /\ kept'[s].of # holds[kept'[s].bin])
    BY <1>5
  <2> HIDE DEF row, me
  <2>4. /\ starter' \in [Starter -> StartRow] /\ starter'[p] = row
        /\ \A q \in Starter \ {p} : starter'[q] = starter[q]
    BY <1>1, <1>2, <1>3, StarterGoes
  <2>5. Npx!TypeOK'
    BY <1>1, <1>3, <2>2, <2>3, <2>4 DEF Npx!NpxInv, Npx!TypeOK, StartRow, NpxFile
  <2>6. Npx!EntriesAreTrue'
    <3> SUFFICES ASSUME NEW s \in Npx!Specs, kept'[s] # None, ~moved'[s] PROVE kept'[s].of = holds'[kept'[s].bin]
      BY DEF Npx!EntriesAreTrue
    <3>1. QED
      BY <1>3, <2>1, <2>2, <2>3
  <2>7. Npx!SavingFits'
    BY <1>2, <1>3, <2>4 DEF Npx!NpxInv, Npx!SavingFits, Npx!Fits
  <2>8. QED
    BY <2>5, <2>6, <2>7 DEF Npx!NpxInv
<1>6. QED
  BY <1>4, <1>5 DEF Npx!Save

\* npm changes a directory, or the entries grow older; nothing is being saved then.
LEMMA NpmKeeps ==
  ASSUME Directories, Npx!NpxInv, Npx!Ages \/ \E d \in Dir, v \in 0..2 : Npx!Npm(d, v)
  PROVE  Npx!NpxInv'
<1>1. CASE Npx!Ages
  <2>1. /\ kept \in NpxFile /\ starter' = starter /\ holds' = holds /\ newest' = newest /\ moved' = moved
        /\ \A q \in Starter : starter[q].pc # "saving"
    BY <1>1 DEF Npx!NpxInv, Npx!TypeOK, Npx!Ages, NpxFile
  <2>2. \A e \in [bin : Dir, of : 1..2, left : 0..Keep] :
          LET older == [e EXCEPT !.left = IF @ > 0 THEN @ - 1 ELSE 0] IN
          older \in [bin : Dir, of : 1..2, left : 0..Keep] /\ older # None /\ older.of = e.of /\ older.bin = e.bin
    BY DEF Directories
  <2>3. \A s \in Npx!Specs : /\ kept[s] \in Npx!Entries /\ (kept[s] = None => kept'[s] = None)
                             /\ kept[s] # None => kept'[s] = [kept[s] EXCEPT !.left = IF @ > 0 THEN @ - 1 ELSE 0]
    BY <1>1, <2>1 DEF Npx!Ages, NpxFile
  <2>4. \A s \in Npx!Specs :
          /\ kept'[s] \in Npx!Entries
          /\ kept'[s] # None => kept[s] # None /\ kept'[s].of = kept[s].of /\ kept'[s].bin = kept[s].bin
    BY <2>2, <2>3 DEF Npx!Entries
  <2>5. kept' \in NpxFile
    BY <1>1, <2>4 DEF Npx!Ages, NpxFile
  <2>6. Npx!TypeOK'
    BY <2>1, <2>5 DEF Npx!NpxInv, Npx!TypeOK, NpxFile
  <2>7. Npx!EntriesAreTrue' /\ Npx!SavingFits'
    BY <2>1, <2>4 DEF Npx!NpxInv, Npx!EntriesAreTrue, Npx!SavingFits
  <2>8. QED
    BY <2>6, <2>7 DEF Npx!NpxInv
<1>2. ASSUME NEW d \in Dir, NEW v \in 0..2, Npx!Npm(d, v) PROVE Npx!NpxInv'
  <2>1. Npx!TypeOK'
    BY <1>2 DEF Npx!NpxInv, Npx!TypeOK, Npx!Npm
  <2>2. Npx!EntriesAreTrue' /\ Npx!SavingFits'
    BY <1>2 DEF Npx!NpxInv, Npx!TypeOK, Npx!EntriesAreTrue, Npx!SavingFits, Npx!Npm, Npx!Entries
  <2>3. QED
    BY <2>1, <2>2 DEF Npx!NpxInv
<1>3. QED
  BY <1>1, <1>2

\* Every step keeps it.
LEMMA NpxKeeps == Directories /\ Npx!NpxInv /\ (Npx!Next \/ UNCHANGED npx) => Npx!NpxInv'
<1> SUFFICES ASSUME Directories, Npx!NpxInv, Npx!Next \/ UNCHANGED npx PROVE Npx!NpxInv'
  OBVIOUS
<1>1. CASE UNCHANGED npx
  BY <1>1 DEF npx, Npx!NpxInv, Npx!TypeOK, Npx!EntriesAreTrue, Npx!SavingFits, Npx!Fits
<1>2. ASSUME NEW p \in Starter, NEW s \in Npx!Specs, Npx!Resolve(p, s) PROVE Npx!NpxInv'
  BY <1>2, ResolvingKeeps
<1>3. ASSUME NEW p \in Starter, Npx!Installed(p) \/ Npx!Save(p) \/ Npx!Done(p) PROVE Npx!NpxInv'
  BY <1>3, InstalledKeeps, SavingKeeps
<1>4. CASE Npx!Ages \/ \E d \in Dir, v \in 0..2 : Npx!Npm(d, v)
  BY <1>4, NpmKeeps
<1>5. QED
  BY <1>1, <1>2, <1>3, <1>4 DEF Npx!Next

\* A server that names a version is resolved to a directory that holds it, or to one whose entry
\* npm has overtaken.
LEMMA PinnedResolves ==
  ASSUME Npx!NpxInv, Npx!Next, NEW p \in Starter,
         starter'[p].pc = "resolved", starter[p].pc # "resolved", starter'[p].spec = "one"
  PROVE  holds[starter'[p].bin] = 1 \/ moved["one"]
<1>1. starter \in [Starter -> StartRow] /\ "one" \in Npx!Specs
  BY DEF Npx!NpxInv, Npx!TypeOK, StartRow, NpxFile, Npx!Specs
<1>2. ASSUME NEW q \in Starter, NEW s \in Npx!Specs, Npx!Resolve(q, s) PROVE holds[starter'[p].bin] = 1 \/ moved["one"]
  <2>1. CASE Npx!Cached(s)
    <3>1. starter' = [starter EXCEPT ![q] = [pc |-> "resolved", spec |-> s, file |-> None, bin |-> kept[s].bin]]
      BY <1>2, <2>1 DEF Npx!Resolve, Npx!Goes
    <3>2. q = p /\ s = "one" /\ starter'[p].bin = kept[s].bin
      BY <1>1, <3>1
    <3>3. QED
      BY <1>1, <2>1, <3>2 DEF Npx!Cached, Npx!NpxInv, Npx!EntriesAreTrue
  <2>2. CASE ~Npx!Cached(s)
    <3>1. \E row : row.pc # "resolved" /\ starter' = [starter EXCEPT ![q] = row]
      BY <1>2, <2>2 DEF Npx!Resolve, Npx!Goes
    <3>2. QED
      BY <1>1, <3>1
  <2>3. QED
    BY <2>1, <2>2
<1>3. ASSUME NEW q \in Starter, Npx!Installed(q) \/ Npx!Done(q) PROVE FALSE
  <2>1. \E row : row.pc # "resolved" /\ starter' = [starter EXCEPT ![q] = row]
    BY <1>3 DEF Npx!Installed, Npx!Done, Npx!Goes, Npx!NoStart
  <2>2. QED
    BY <1>1, <2>1
<1>4. ASSUME NEW q \in Starter, Npx!Save(q) PROVE holds[starter'[p].bin] = 1
  <2>1. starter' = [starter EXCEPT ![q] = [pc |-> "resolved", spec |-> starter[q].spec, file |-> None, bin |-> starter[q].bin]]
        /\ starter[q].pc = "saving"
    BY <1>4 DEF Npx!Save, Npx!Goes
  <2>2. q = p /\ starter[p].spec = "one" /\ starter'[p].bin = starter[p].bin
    BY <1>1, <2>1
  <2>3. QED
    BY <2>1, <2>2 DEF Npx!NpxInv, Npx!SavingFits, Npx!Fits
<1>5. CASE Npx!Ages \/ \E d \in Dir, v \in 0..2 : Npx!Npm(d, v)
  BY <1>5 DEF Npx!Ages, Npx!Npm
<1>6. QED
  BY <1>2, <1>3, <1>4, <1>5 DEF Npx!Next

\* NpxInv holds throughout, so PinnedIsHonoured does.
LEMMA NpxInvariant ==
  ASSUME Directories
  PROVE  Spec => []Npx!NpxInv /\ Npx!PinnedIsHonoured
<1>1. Init => Npx!NpxInv
  BY NpxBegins DEF Init
<1>2. Npx!NpxInv /\ [Next]_vars => Npx!NpxInv'
  <2> SUFFICES ASSUME Npx!NpxInv, [Next]_vars PROVE Npx!NpxInv'
    OBVIOUS
  <2>1. Npx!Next \/ UNCHANGED npx
    BY DEF Next, vars
  <2>2. QED
    BY <2>1, NpxKeeps
<1>3. Npx!NpxInv /\ [Next]_vars
      => [\A p \in Starter :
            starter'[p].pc = "resolved" /\ starter[p].pc # "resolved" /\ starter'[p].spec = "one"
            => holds[starter'[p].bin] = 1 \/ moved["one"]]_Npx!npxVars
  <2> SUFFICES ASSUME Npx!NpxInv, [Next]_vars,
                      NEW p \in Starter, starter'[p].pc = "resolved", starter[p].pc # "resolved", starter'[p].spec = "one"
               PROVE  holds[starter'[p].bin] = 1 \/ moved["one"]
    OBVIOUS
  <2>1. Npx!Next \/ UNCHANGED npx
    BY DEF Next, vars
  <2>2. QED
    BY <2>1, PinnedResolves DEF npx
<1>4. QED
  BY <1>1, <1>2, <1>3, PTL DEF Spec, Npx!PinnedIsHonoured

\* An output shape in the file fits the tool that is listed there, a private listing stays with its
\* session, a startup pass destroys nothing that was saved during it, and the smaller updates touch
\* nothing but what they bring (metadata-cache.ts, init.ts); a pinned package runs as it is pinned
\* (npx-resolver.ts).
THEOREM CacheKept ==
  ASSUME Listings, Directories
  PROVE  Spec => CacheIsFaithful
<1>1. Cache!CacheInv => (focus = "cache" => Cache!ShapesMatchTools /\ Cache!PrivateStaysPrivate)
  BY DEF Cache!CacheInv, Cache!EntriesAreSound, Cache!Sound, Cache!ShapesMatchTools, Cache!PrivateStaysPrivate
<1>2. QED
  BY <1>1, CacheInvariant, NpxInvariant, PTL DEF CacheIsFaithful

-----------------------------------------------------------------------------
(* NpxArgs and Previews *)

\* The bounds are numbers, and a list has room for an entry.
Bounds == MaxArgs \in Nat /\ MaxEntries \in Nat \ {0}

\* A command line stays within its bound, and so does a list with the entry that is selected.
BoundsHold == Args!TypeOK /\ Views!TypeOK /\ Len(items) <= MaxEntries

\* Both are empty at first.
LEMMA BoundsBegin == Bounds /\ Args!Init /\ Views!Init => BoundsHold
BY DEF Bounds, Args!Init, Args!TypeOK, Views!Init, Views!TypeOK, BoundsHold

\* An argument is read only within the bound.
LEMMA ArgumentKeeps ==
  ASSUME Bounds, Args!TypeOK, Args!Next
  PROVE  Args!TypeOK'
<1>1. PICK t \in Args!Tokens : Len(args) < MaxArgs /\ args' = Append(args, t)
  BY DEF Args!Next, Args!Read
<1>2. args \in Seq(Args!Tokens)
  BY DEF Args!TypeOK
<1>3. args' \in Seq(Args!Tokens) /\ Len(args') = Len(args) + 1 /\ Len(args) \in Nat
  BY <1>1, <1>2
<1>4. QED
  BY <1>1, <1>3 DEF Args!TypeOK, Bounds

\* A line, an entry, the cursor and the height stay what they are.
LEMMA PreviewKeeps ==
  ASSUME Bounds, Views!TypeOK, Len(items) <= MaxEntries, Views!Next
  PROVE  Views!TypeOK' /\ Len(items') <= MaxEntries
<1>1. /\ old \in Seq(Line) /\ new \in Seq(Line) /\ items \in Seq(BOOLEAN)
      /\ cursor \in 0..MaxEntries /\ height \in 1..MaxEntries /\ MaxEntries \in Nat
  BY DEF Views!TypeOK, Bounds
<1>2. ASSUME NEW l \in Line, Views!Write(l) \/ Views!Rewrite(l)
      PROVE  Views!TypeOK' /\ Len(items') <= MaxEntries
  <2>1. /\ UNCHANGED <<items, cursor, height>>
        /\ \/ old' = Append(old, l) /\ new' = new
           \/ old' = old /\ new' = Append(new, l)
    BY <1>2 DEF Views!Write, Views!Rewrite
  <2>2. Append(old, l) \in Seq(Line) /\ Append(new, l) \in Seq(Line)
    BY <1>1
  <2>3. old' \in Seq(Line) /\ new' \in Seq(Line)
    BY <1>1, <2>1, <2>2
  <2>4. QED
    BY <1>1, <2>1, <2>3 DEF Views!TypeOK
<1>3. ASSUME NEW b \in BOOLEAN, Views!AddEntry(b)
      PROVE  Views!TypeOK' /\ Len(items') <= MaxEntries
  <2>1. /\ items' = Append(items, b) /\ Len(items) < MaxEntries /\ UNCHANGED <<old, new, height>>
        /\ cursor' = cursor \/ cursor' = Len(items')
    BY <1>3 DEF Views!AddEntry
  <2>2. items' \in Seq(BOOLEAN) /\ Len(items') = Len(items) + 1 /\ Len(items) \in Nat
    BY <1>1, <2>1
  <2>3. cursor' \in 0..MaxEntries /\ Len(items') <= MaxEntries
    BY <1>1, <2>1, <2>2
  <2>4. QED
    BY <1>1, <2>1, <2>2, <2>3 DEF Views!TypeOK
<1>4. ASSUME NEW k \in DOMAIN items, Views!Move(k)
      PROVE  Views!TypeOK' /\ Len(items') <= MaxEntries
  <2>1. cursor' = k /\ UNCHANGED <<old, new, items, height>>
    BY <1>4 DEF Views!Move
  <2>2. k \in 1..Len(items) /\ Len(items) \in Nat
    BY <1>1
  <2>3. QED
    BY <1>1, <2>1, <2>2 DEF Views!TypeOK
<1>5. ASSUME NEW rows \in 1..MaxEntries, Views!Resize(rows)
      PROVE  Views!TypeOK' /\ Len(items') <= MaxEntries
  BY <1>1, <1>5 DEF Views!Resize, Views!TypeOK
<1>6. QED
  BY <1>2, <1>3, <1>4, <1>5 DEF Views!Next

\* BoundsHold holds in every behaviour.
LEMMA BoundsInvariant ==
  ASSUME Bounds
  PROVE  Spec => []BoundsHold
<1>1. Init => BoundsHold
  BY BoundsBegin DEF Init
<1>2. BoundsHold /\ [Next]_vars => BoundsHold'
  <2> SUFFICES ASSUME BoundsHold, [Next]_vars PROVE BoundsHold'
    OBVIOUS
  <2>1. Args!TypeOK'
    <3>1. CASE Args!Next
      BY <3>1, ArgumentKeeps DEF BoundsHold
    <3>2. CASE UNCHANGED nargs
      BY <3>2 DEF nargs, BoundsHold, Args!TypeOK
    <3>3. QED
      BY <3>1, <3>2 DEF Next, vars
  <2>2. Views!TypeOK' /\ Len(items') <= MaxEntries
    <3>1. CASE Views!Next
      BY <3>1, PreviewKeeps DEF BoundsHold
    <3>2. CASE UNCHANGED prv
      BY <3>2 DEF prv, BoundsHold, Views!TypeOK
    <3>3. QED
      BY <3>1, <3>2 DEF Next, vars
  <2>3. QED
    BY <2>1, <2>2 DEF BoundsHold
<1>3. QED
  BY <1>1, <1>2, PTL DEF Spec

-----------------------------------------------------------------------------
(* All parts *)

\* What the parts ask of their constants; no part asks more.
Constants ==
  /\ Pages /\ LogParams /\ Listings /\ Branches /\ NoneIsApart /\ Versions
  /\ IsFiniteSet(Operation) /\ None \notin Visit /\ Tokens /\ Records /\ Processes
  /\ Directories /\ Limit \in Nat /\ None \notin Nat /\ Bound /\ Bounds

\* The strengthened invariant of each part holds throughout, whichever part a behaviour follows:
\* the state of every component of MCSurface is one its code can be in.
THEOREM SurfaceConsistent ==
  ASSUME Constants
  PROVE  Spec => []SurfaceTypeOK
<1> USE DEF Constants
<1>1. Spec => [](Ui!UiInv /\ Events!EventsInv)
  BY PagesInvariant
<1>2. Spec => []Cache!CacheInv
  BY CacheInvariant, PTL
<1>3. Spec => []ConsentInv
  BY ConsentInvariant
<1>4. Spec => []Host!HostInv
  BY HostInvariant, PTL
<1>5. Spec => []Proto!ProtocolInv
  BY ProtocolInvariant
<1>6. Spec => []Bearer!BearerInv
  BY BearerInvariant, PTL
<1>7. Spec => []Secret!StoreInv
  BY StoreInvariant
<1>8. Spec => []Tree!TreeInv
  BY TreeInvariant
<1>9. Spec => []Asks!CallsInv
  BY CallsInvariant
<1>10. Spec => []Npx!NpxInv
  BY NpxInvariant, PTL
<1>11. Spec => []BoundsHold
  BY BoundsInvariant
<1>12. Spec => []Pause!PauseInv
  BY PauseInvariant
<1>13. Spec => []MergeSound
  BY CredentialsInvariant DEF NoneIsApart
<1>14. Spec => []Panel!PanelInv
  BY PanelInvariant, PTL
<1>15. Spec => []Setup!SetupInv
  BY SetupInvariant, PTL
<1>16. Spec => [](focus \in {"ui", "events", "cache", "approvals", "trust", "host", "protocol",
                           "bearer", "secret", "tree", "taskcalls", "npx", "npxargs",
                           "prompts", "form", "sampling", "merge", "panel", "setup", "previews"})
  <2> DEFINE F == focus \in {"ui", "events", "cache", "approvals", "trust", "host", "protocol",
                           "bearer", "secret", "tree", "taskcalls", "npx", "npxargs",
                           "prompts", "form", "sampling", "merge", "panel", "setup", "previews"}
  <2>1. Init => F
    BY DEF Init
  <2>2. F /\ [Next]_vars => F'
    BY DEF Next, vars
  <2>3. QED
    BY <2>1, <2>2, PTL DEF Spec
<1> DEFINE Holding ==
      /\ Ui!UiInv /\ Events!EventsInv /\ Cache!CacheInv /\ ConsentInv /\ Host!HostInv /\ Proto!ProtocolInv
      /\ Bearer!BearerInv /\ Secret!StoreInv /\ Tree!TreeInv /\ Asks!CallsInv /\ Npx!NpxInv /\ BoundsHold
      /\ Pause!PauseInv /\ MergeSound /\ Panel!PanelInv /\ Setup!SetupInv
      /\ focus \in {"ui", "events", "cache", "approvals", "trust", "host", "protocol",
                     "bearer", "secret", "tree", "taskcalls", "npx", "npxargs",
                     "prompts", "form", "sampling", "merge", "panel", "setup", "previews"}
<1>17. Holding => SurfaceTypeOK
  <2> SUFFICES ASSUME Holding PROVE SurfaceTypeOK
    OBVIOUS
  <2>1. Merge!TypeOK
    BY SoundIsKept
  <2>2. Args!TypeOK /\ Views!TypeOK
    BY DEF BoundsHold
  <2>3. QED
    BY <2>1, <2>2 DEF ConsentInv, SurfaceTypeOK
<1>18. Spec => []Holding
  BY <1>1, <1>2, <1>3, <1>4, <1>5, <1>6, <1>7, <1>8, <1>9, <1>10, <1>11, <1>12, <1>13, <1>14, <1>15, <1>16, PTL
<1>19. QED
  BY <1>17, <1>18, PTL
=============================================================================
