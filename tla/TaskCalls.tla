----------------------------- MODULE TaskCalls -----------------------------
(***************************************************************************)
(* Tool calls that the server may answer with a task (mcp-tasks.ts): the   *)
(* channel below the SDK client that correlates raw requests with their    *)
(* answers, callToolViaTaskSession() and startToolViaTaskSession().  A     *)
(* caller may leave, by its signal or its timeout, while the answer is on  *)
(* its way: the channel then goes on observing, to cancel a task nobody    *)
(* will ever follow.  What follows a task in the background is in          *)
(* BackgroundTasks.                                                        *)
(***************************************************************************)
EXTENDS Naturals, FiniteSets

CONSTANTS Ask, None

VARIABLES
  up,        \* the connection is open
  caller,      \* the callers: [pc, aborted, background]
  awaited,     \* RawRequestChannel.pending: "none", "pending" or "observing"
  wire,      \* the request or its answer on its way: "none", "asked", "result" or "task"
  remote,    \* the server's task: "none", "working" or "ended"
  cancelled, \* tasks/cancel was sent
  expired,   \* the channel's minute of grace was over first
  gave       \* what the caller was given: "none", "result", "task" or "error"

taskVars == <<up, caller, awaited, wire, remote, cancelled, expired, gave>>
NoCaller == [pc |-> "idle", aborted |-> FALSE, background |-> FALSE]

TypeOK ==
  /\ up \in BOOLEAN
  /\ caller \in [Ask -> [pc : {"idle", "calling", "handed", "settling", "background", "over"},
                        aborted : BOOLEAN, background : BOOLEAN]]
  /\ awaited \in [Ask -> {"none", "pending", "observing"}]
  /\ wire \in [Ask -> {"none", "asked", "result", "task"}]
  /\ remote \in [Ask -> {"none", "working", "ended"}]
  /\ cancelled \in [Ask -> BOOLEAN] /\ expired \in [Ask -> BOOLEAN]
  /\ gave \in [Ask -> {"none", "result", "task", "error"}]

Init ==
  /\ up = TRUE /\ caller = [a \in Ask |-> NoCaller] /\ awaited = [a \in Ask |-> "none"]
  /\ wire = [a \in Ask |-> "none"] /\ remote = [a \in Ask |-> "none"]
  /\ cancelled = [a \in Ask |-> FALSE] /\ expired = [a \in Ask |-> FALSE] /\ gave = [a \in Ask |-> "none"]

Goes(a, pc) == caller' = [caller EXCEPT ![a].pc = pc]
Gives(a, what) == gave' = [gave EXCEPT ![a] = what]
Leaves(a) == Goes(a, "over") /\ Gives(a, "error")

-----------------------------------------------------------------------------
\* rawDispatch() of a tools/call.
Send(a, background) ==
  /\ up /\ caller[a].pc = "idle"
  /\ caller' = [caller EXCEPT ![a] = [pc |-> "calling", aborted |-> FALSE, background |-> background]]
  /\ awaited' = [awaited EXCEPT ![a] = "pending"] /\ wire' = [wire EXCEPT ![a] = "asked"]
  /\ UNCHANGED <<up, remote, cancelled, expired, gave>>

ServerAnswers(a) ==
  /\ wire[a] = "asked" /\ wire' = [wire EXCEPT ![a] = "result"]
  /\ UNCHANGED <<up, caller, awaited, remote, cancelled, expired, gave>>
ServerStartsTask(a) ==
  /\ wire[a] = "asked" /\ wire' = [wire EXCEPT ![a] = "task"] /\ remote' = [remote EXCEPT ![a] = "working"]
  /\ UNCHANGED <<up, caller, awaited, cancelled, expired, gave>>

\* consumeRawResponse(): to the caller, or, for one that has left, to cancelLateTask().
Arrives(a) ==
  /\ up /\ wire[a] \in {"result", "task"} /\ wire' = [wire EXCEPT ![a] = "none"]
  /\ awaited' = [awaited EXCEPT ![a] = "none"]
  /\ IF awaited[a] # "pending" THEN UNCHANGED <<caller, gave>>
     ELSE IF wire[a] = "task" THEN Goes(a, "handed") /\ UNCHANGED gave
     ELSE Goes(a, "over") /\ Gives(a, "result")
  /\ cancelled' = [cancelled EXCEPT ![a] = @ \/ (awaited[a] = "observing" /\ wire[a] = "task")]
  /\ UNCHANGED <<up, remote, expired>>

\* terminateLocalWait(): the caller is told at once, its entry goes on observing.
StopWaiting(a) == awaited[a] = "pending" /\ awaited' = [awaited EXCEPT ![a] = "observing"] /\ Gives(a, "error")

TimesOut(a) ==
  /\ up /\ StopWaiting(a) /\ Goes(a, "over")
  /\ UNCHANGED <<up, wire, remote, cancelled, expired>>

\* The caller's signal.  Before the answer it ends the wait; between the answer and the
\* caller's own continuation it is only noted; later it cancels the task it settles.
Abort(a) ==
  /\ caller[a].pc \in {"calling", "handed", "settling"} /\ ~caller[a].aborted
  /\ IF caller[a].pc = "calling"
     THEN StopWaiting(a) /\ caller' = [caller EXCEPT ![a].aborted = TRUE, ![a].pc = "over"]
     ELSE caller' = [caller EXCEPT ![a].aborted = TRUE] /\ UNCHANGED <<awaited, gave>>
  /\ cancelled' = [cancelled EXCEPT ![a] = @ \/ (caller[a].pc = "settling" /\ up)]
  /\ UNCHANGED <<up, wire, remote, expired>>

GraceEnds(a) ==
  /\ awaited[a] = "observing" /\ awaited' = [awaited EXCEPT ![a] = "none"] /\ expired' = [expired EXCEPT ![a] = TRUE]
  /\ UNCHANGED <<up, caller, wire, remote, cancelled, gave>>

\* MUTANT of Continues: whether the call was aborted meanwhile is not asked.
ContinuesAnyway(a) ==
  /\ caller[a].pc = "handed"
  /\ IF caller[a].background
     THEN Goes(a, "background") /\ Gives(a, "task")
     ELSE Goes(a, "settling") /\ UNCHANGED gave
  /\ UNCHANGED <<up, awaited, wire, remote, cancelled, expired>>

\* openToolCall() has resolved: the task is the background's, or it is settled here,
\* and cancelled first when the call was aborted meanwhile.
Continues(a) ==
  /\ caller[a].pc = "handed"
  /\ IF caller[a].background /\ ~caller[a].aborted
     THEN Goes(a, "background") /\ Gives(a, "task") /\ UNCHANGED cancelled
     ELSE /\ Goes(a, "settling") /\ UNCHANGED gave
          /\ cancelled' = [cancelled EXCEPT ![a] = @ \/ (caller[a].aborted /\ up)]
  /\ UNCHANGED <<up, awaited, wire, remote, expired>>

TaskEnds(a) ==
  /\ remote[a] = "working" /\ remote' = [remote EXCEPT ![a] = "ended"]
  /\ UNCHANGED <<up, caller, awaited, wire, cancelled, expired, gave>>

\* settle() gives the outcome, or the error of an aborted wait.
Settles(a) ==
  /\ caller[a].pc = "settling"
  /\ \/ remote[a] = "ended" /\ ~caller[a].aborted /\ Goes(a, "over") /\ \E ok \in BOOLEAN : Gives(a, IF ok THEN "result" ELSE "error")
     \/ caller[a].aborted /\ Leaves(a)
  /\ UNCHANGED <<up, awaited, wire, remote, cancelled, expired>>

\* The background has seen its task end.
Followed(a) ==
  /\ caller[a].pc = "background" /\ remote[a] = "ended" /\ Goes(a, "over")
  /\ UNCHANGED <<up, awaited, wire, remote, cancelled, expired, gave>>

\* onclose: rejectAll().
Closes ==
  /\ up /\ up' = FALSE
  /\ awaited' = [a \in Ask |-> "none"] /\ wire' = [a \in Ask |-> "none"]
  /\ caller' = [a \in Ask |-> IF caller[a].pc \in {"idle", "over"} THEN caller[a] ELSE [caller[a] EXCEPT !.pc = "over"]]
  /\ gave' = [a \in Ask |-> IF caller[a].pc \in {"calling", "handed", "settling"} THEN "error" ELSE gave[a]]
  /\ UNCHANGED <<remote, cancelled, expired>>

\* What is over: its identity serves the next caller, on this connection or the next.
Forgotten(a) ==
  /\ caller[a].pc = "over" /\ awaited[a] = "none" /\ wire[a] = "none" /\ (remote[a] # "working" \/ ~up)
  /\ caller' = [caller EXCEPT ![a] = NoCaller] /\ remote' = [remote EXCEPT ![a] = "none"]
  /\ cancelled' = [cancelled EXCEPT ![a] = FALSE] /\ expired' = [expired EXCEPT ![a] = FALSE]
  /\ gave' = [gave EXCEPT ![a] = "none"] /\ UNCHANGED <<up, awaited, wire>>

Reopens == ~up /\ (\A a \in Ask : caller[a].pc = "idle") /\ up' = TRUE
           /\ UNCHANGED <<caller, awaited, wire, remote, cancelled, expired, gave>>

Next ==
  \/ \E a \in Ask, background \in BOOLEAN : Send(a, background)
  \/ \E a \in Ask :
       ServerAnswers(a) \/ ServerStartsTask(a) \/ Arrives(a) \/ TimesOut(a) \/ Abort(a)
       \/ GraceEnds(a) \/ Continues(a) \/ TaskEnds(a) \/ Settles(a) \/ Followed(a) \/ Forgotten(a)
  \/ Closes \/ Reopens

-----------------------------------------------------------------------------
\* No task runs on for nobody: from the moment its handle arrives somebody who wants it
\* follows it, or the server was told to stop, whenever the caller's signal or timeout
\* came; only an answer later than the channel's minute is lost (mcp-tasks.ts:58, 220-262).
NoTaskForNobody ==
  \A a \in Ask : up /\ remote[a] = "working" /\ wire[a] = "none" =>
    \/ cancelled[a] \/ expired[a] \/ caller[a].pc = "handed"
    \/ caller[a].pc \in {"settling", "background"} /\ ~caller[a].aborted

\* A task the background follows is not cancelled by this caller's channel or signal.
BackgroundIsLeftAlone == \A a \in Ask : caller[a].pc = "background" => ~cancelled[a]

\* Where the caller, the channel, the wire and the server can be at once.
Consistent(a) ==
  LET pc == caller[a].pc IN
  /\ pc = "idle" => /\ awaited[a] = "none" /\ wire[a] = "none" /\ remote[a] = "none"
                    /\ ~cancelled[a] /\ ~expired[a]
  /\ pc = "calling" <=> awaited[a] = "pending"
  /\ pc = "calling" => wire[a] # "none" /\ ~cancelled[a]
  /\ awaited[a] = "observing" => pc = "over"
  /\ pc \in {"handed", "settling", "background"} => wire[a] = "none"
  /\ pc \in {"handed", "background"} => ~cancelled[a]
  /\ pc = "settling" /\ caller[a].aborted => cancelled[a]
  /\ pc = "background" => ~caller[a].aborted
  /\ wire[a] # "none" => awaited[a] # "none" \/ expired[a]
  /\ wire[a] \in {"asked", "result"} => remote[a] = "none"
  /\ ~up => pc \in {"idle", "over"} /\ wire[a] = "none"

CallsInv == TypeOK /\ NoTaskForNobody /\ \A a \in Ask : Consistent(a)
=============================================================================
