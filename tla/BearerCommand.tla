--------------------------- MODULE BearerCommand ---------------------------
(***************************************************************************)
(* The resolver of a bearer token that a command prints                    *)
(* (bearer-command-resolver.ts): requests that need the token at once      *)
(* share one run of the command, any of them may be aborted, and the run   *)
(* is killed when the last one has left.  Time is counted down: a token is *)
(* used for TTL, and after a failure the command rests for TTL.            *)
(***************************************************************************)
EXTENDS Naturals, FiniteSets

CONSTANTS Asker, Helper, TTL, None

VARIABLES
  token,      \* #cached holds one
  freshFor,   \* #cached.expiresAt, from now
  restFor,    \* #failure.retryAt, from now
  inflight,   \* #inflight: a run of the command, or None
  helper,     \* "none", "runs", "terminating" (its own limits) or "dying" (aborted)
  asker,      \* where each resolve() is: [pc, at]
  answer,     \* what the last resolve() gave: "none", "fresh", "old", "failed" or "aborted"
  failedFor   \* history: a run nobody had aborted failed less than TTL ago

bearerVars == <<token, freshFor, restFor, inflight, helper, asker, answer, failedFor>>
Away == [pc |-> "idle", at |-> None]

TypeOK ==
  /\ token \in BOOLEAN /\ {freshFor, restFor, failedFor} \subseteq 0..TTL
  /\ inflight \in Helper \cup {None}
  /\ helper \in [Helper -> {"none", "runs", "terminating", "dying"}]
  /\ asker \in [Asker -> [pc : {"idle", "waiting", "leaving"}, at : Helper \cup {None}]]
  /\ answer \in [Asker -> {"none", "fresh", "old", "failed", "aborted"}]

Init ==
  /\ token = FALSE /\ freshFor = 0 /\ restFor = 0 /\ failedFor = 0 /\ inflight = None
  /\ helper = [h \in Helper |-> "none"] /\ asker = [a \in Asker |-> Away]
  /\ answer = [a \in Asker |-> "none"]

Waiters(h) == {a \in Asker : asker[a].at = h}

\* The old token, where there is one, else the error.
Fallback == IF token THEN "old" ELSE "failed"

\* resolve(): the cached token, the rest after a failure, or the shared run.
Resolve(a) ==
  /\ asker[a].pc = "idle"
  /\ IF freshFor > 0 \/ restFor > 0
     THEN /\ answer' = [answer EXCEPT ![a] = IF freshFor > 0 THEN "fresh" ELSE Fallback]
          /\ UNCHANGED <<inflight, helper, asker>>
     ELSE \E h \in Helper :
            /\ IF inflight = None THEN helper[h] = "none" ELSE h = inflight
            /\ inflight' = h
            /\ helper' = IF inflight = None THEN [helper EXCEPT ![h] = "runs"] ELSE helper
            /\ asker' = [asker EXCEPT ![a] = [pc |-> "waiting", at |-> h]]
            /\ answer' = [answer EXCEPT ![a] = "none"]
  /\ UNCHANGED <<token, freshFor, restFor, failedFor>>

\* The request's signal is aborted; the finally of its wait runs some microtasks later.
Aborted(a) ==
  /\ asker[a].pc = "waiting" /\ asker' = [asker EXCEPT ![a].pc = "leaving"]
  /\ answer' = [answer EXCEPT ![a] = "aborted"]
  /\ UNCHANGED <<token, freshFor, restFor, inflight, helper, failedFor>>

\* Only the last one to leave the run in flight aborts it.
Left(a) ==
  /\ asker[a].pc = "leaving" /\ asker' = [asker EXCEPT ![a] = Away]
  /\ IF inflight = asker[a].at /\ inflight # None /\ Waiters(inflight) = {a}
     THEN inflight' = None /\ helper' = [helper EXCEPT ![inflight] = "dying"]
     ELSE UNCHANGED <<inflight, helper>>
  /\ UNCHANGED <<token, freshFor, restFor, answer, failedFor>>

\* The run has settled: those who still wait get what it gave.
Settled(h, gives) ==
  /\ helper' = [helper EXCEPT ![h] = "none"]
  /\ inflight' = IF inflight = h THEN None ELSE inflight
  /\ asker' = [a \in Asker |-> IF asker[a].at # h THEN asker[a]
                               ELSE IF asker[a].pc = "waiting" THEN Away ELSE [asker[a] EXCEPT !.at = None]]
  /\ answer' = [a \in Asker |-> IF asker[a].at = h /\ asker[a].pc = "waiting" THEN gives ELSE answer[a]]

Succeeds(h) ==
  /\ helper[h] = "runs" /\ Settled(h, "fresh")
  /\ token' = TRUE /\ freshFor' = TTL /\ restFor' = 0 /\ failedFor' = 0

\* Ten seconds or a mebibyte are over: the kill is awaited.
Overruns(h) ==
  /\ helper[h] = "runs" /\ helper' = [helper EXCEPT ![h] = "terminating"]
  /\ UNCHANGED <<token, freshFor, restFor, inflight, asker, answer, failedFor>>

Fails(h) ==
  /\ helper[h] \in {"runs", "terminating"} /\ Settled(h, Fallback)
  /\ restFor' = TTL /\ failedFor' = TTL /\ UNCHANGED <<token, freshFor>>

\* An aborted run that ends is no outage of the command.
Dies(h) ==
  /\ helper[h] = "dying" /\ Settled(h, Fallback)
  /\ UNCHANGED <<token, freshFor, restFor, failedFor>>

Tick ==
  /\ freshFor + restFor + failedFor > 0
  /\ freshFor' = (IF freshFor > 0 THEN freshFor - 1 ELSE 0)
  /\ restFor' = (IF restFor > 0 THEN restFor - 1 ELSE 0)
  /\ failedFor' = (IF failedFor > 0 THEN failedFor - 1 ELSE 0)
  /\ UNCHANGED <<token, inflight, helper, asker, answer>>

Next ==
  \/ \E a \in Asker : Resolve(a) \/ Aborted(a) \/ Left(a)
  \/ \E h \in Helper : Succeeds(h) \/ Overruns(h) \/ Fails(h) \/ Dies(h)
  \/ Tick

-----------------------------------------------------------------------------
\* At most one run of the command is not being killed, and somebody waits for it:
\* no helper outlives the requests it was started for, and none is started beside it.
RunsAreShared ==
  \A h \in Helper : helper[h] \in {"runs", "terminating"} => inflight = h /\ Waiters(h) # {}

\* A request that was not aborted gets an error, or a token past its time, only if
\* the command itself failed less than TTL ago: what became of another request that
\* shared the run, or was started before it, never shows (bearer-command-resolver.ts:149-153).
OnlyOutagesShow ==
  [][\A a \in Asker :
       answer'[a] # answer[a] /\ answer'[a] \in {"old", "failed"} => failedFor' > 0]_bearerVars

\* Who waits for a run, or has still to leave it, is at the run in flight; the command
\* rests no longer than it is known to have failed.
WaitersAreAtTheRun ==
  /\ inflight # None => helper[inflight] \in {"runs", "terminating"}
  /\ \A a \in Asker : /\ asker[a].at # None => asker[a].at = inflight
                      /\ asker[a].pc = "idle" => asker[a].at = None
                      /\ asker[a].pc = "waiting" => asker[a].at # None
  /\ restFor <= failedFor

\* Inductive.
BearerInv == TypeOK /\ RunsAreShared /\ WaitersAreAtTheRun
=============================================================================
