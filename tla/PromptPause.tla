---------------------------- MODULE PromptPause ----------------------------
(***************************************************************************)
(* The deadlines of one client's tool calls while its server asks the user *)
(* something (elicitation-handler.ts): an open prompt, of the server or of *)
(* the adapter itself, stops the clock of every call; a progress           *)
(* notification sets it back.                                              *)
(***************************************************************************)
EXTENDS Naturals, FiniteSets

CONSTANTS Call, Prompt, Limit, None   \* Limit stands for the request timeout

VARIABLES
  clock,   \* [pc, remaining, timer] of a call: timer is what is left to run, or None
  showing, \* the prompts that are open: their number is the code's `open`
  waited   \* history: time since the call began or was last heard of, prompts apart

pauseVars == <<clock, showing, waited>>

NoClock == [pc |-> "idle", remaining |-> Limit, timer |-> None]

TypeOK ==
  /\ clock \in [Call -> [pc : {"idle", "flight", "expired"}, remaining : 0..Limit,
                         timer : 0..Limit \cup {None}]]
  /\ showing \subseteq Prompt /\ waited \in [Call -> 0..Limit + 1]

Init ==
  /\ clock = [c \in Call |-> NoClock] /\ showing = {} /\ waited = [c \in Call |-> 0]

InFlight == {c \in Call : clock[c].pc = "flight"}

-----------------------------------------------------------------------------
\* deadline.pause() and deadline.resume().
Paused(k) == IF k.timer = None THEN k ELSE [k EXCEPT !.timer = None, !.remaining = k.timer]
Resumed(k) == [k EXCEPT !.timer = k.remaining]

\* callToolPausingForElicitation(): the clock starts unless a prompt is open.
Begin(c) ==
  /\ clock[c].pc = "idle"
  /\ LET k == [NoClock EXCEPT !.pc = "flight"] IN
     clock' = [clock EXCEPT ![c] = IF showing = {} THEN Resumed(k) ELSE k]
  /\ UNCHANGED <<showing, waited>>

\* The call's own handler is behind this one's: the clock runs on only if it ran.
Progress(c) ==
  /\ c \in InFlight /\ waited[c] > 0
  /\ LET k == [Paused(clock[c]) EXCEPT !.remaining = Limit] IN
     clock' = [clock EXCEPT ![c] = IF clock[c].timer = None THEN k ELSE Resumed(k)]
  /\ waited' = [waited EXCEPT ![c] = 0] /\ UNCHANGED showing

\* The call settles, and its deadline is off the list; or an expired one is forgotten.
Settle(c) ==
  /\ clock[c].pc # "idle"
  /\ clock' = [clock EXCEPT ![c] = NoClock] /\ waited' = [waited EXCEPT ![c] = 0]
  /\ UNCHANGED showing

Expire(c) ==
  /\ c \in InFlight /\ clock[c].timer = 0
  /\ clock' = [clock EXCEPT ![c] = [NoClock EXCEPT !.pc = "expired"]]
  /\ UNCHANGED <<showing, waited>>

\* whilePromptOpen(), for a request of the server or whileAdapterPromptOpen().
Show(p) ==
  /\ p \notin showing /\ showing' = showing \cup {p}
  /\ clock' = [c \in Call |-> IF c \in InFlight /\ showing = {} THEN Paused(clock[c]) ELSE clock[c]]
  /\ UNCHANGED waited

\* Answered, cancelled or failed: the last prompt that closes starts the clocks.
Hide(p) ==
  /\ p \in showing /\ showing' = showing \ {p}
  /\ clock' = [c \in Call |-> IF c \in InFlight /\ showing' = {} THEN Resumed(clock[c]) ELSE clock[c]]
  /\ UNCHANGED waited

\* Timers fire when they are due.
Tick ==
  /\ InFlight # {} /\ \A c \in InFlight : clock[c].timer # 0 /\ waited[c] <= Limit
  /\ clock' = [c \in Call |-> IF clock[c].timer = None THEN clock[c]
                              ELSE [clock[c] EXCEPT !.timer = @ - 1]]
  /\ waited' = [c \in Call |-> IF c \in InFlight /\ showing = {} THEN waited[c] + 1 ELSE waited[c]]
  /\ UNCHANGED showing

Next ==
  \/ \E c \in Call : Begin(c) \/ Progress(c) \/ Settle(c) \/ Expire(c)
  \/ \E p \in Prompt : Show(p) \/ Hide(p)
  \/ Tick

-----------------------------------------------------------------------------
\* A call times out when it was silent for its whole timeout, the time in which the
\* user was asked not counted, and never waits longer than that.
TimeoutIsFair ==
  \A c \in Call :
    /\ waited[c] <= Limit
    /\ clock[c].pc = "expired" => waited[c] = Limit

\* What is left of a call's deadline, on its timer or off it, and the time it has been
\* silent make the whole; timers run exactly while no prompt is open.
Measured(c) ==
  LET k == clock[c] IN
  /\ k.pc = "idle" => k.timer = None /\ waited[c] = 0
  /\ k.pc = "expired" => k.timer = None /\ waited[c] = Limit
  /\ k.pc = "flight" => /\ k.timer = None <=> showing # {}
                       /\ waited[c] + (IF k.timer = None THEN k.remaining ELSE k.timer) = Limit

PauseInv == TypeOK /\ \A c \in Call : Measured(c)
=============================================================================
