------------------------------ MODULE Sampling ------------------------------
(***************************************************************************)
(* A server asks for the user's model (sampling-handler.ts): what it asks  *)
(* is shown before the model runs, and what the model said before the      *)
(* server gets it.  The turn in which a request came may end while a       *)
(* question is open, and another model may be chosen.                      *)
(***************************************************************************)
EXTENDS Naturals, Sequences, SequencesExt

CONSTANTS Request, None

VARIABLES
  turn,      \* the turn of the conversation: 1 or 2, None when there is none
  aborted,   \* the turns that were aborted
  favoured,   \* the model the user has chosen
  sampling,  \* [pc, signal, model, shown, said] of a request
  ran,       \* history: what ran [request, model, in an aborted turn]
  received   \* history: what a server got

samplingVars == <<turn, aborted, favoured, sampling, ran, received>>

\* getAvailable(): a hint "m" fits the last two, which are one provider's.
Available == <<"a", "m1", "m2">>
Models == Range(Available)
Hints == {"m", "a", "z", "none"}
Fits(hint, model) == (hint = "m" /\ model \in {"m1", "m2"}) \/ hint = model
Said == {"text", "empty", "error", "none"}
NoSampling == [pc |-> "idle", signal |-> None, model |-> None, shown |-> None, said |-> "none"]

TypeOK ==
  /\ turn \in {1, 2, None} /\ aborted \subseteq 1..2 /\ favoured \in Models \cup {None}
  /\ sampling \in [Request -> [pc : {"idle", "asking", "running", "showing"}, signal : {1, 2, None},
                               model : Models \cup {None}, shown : Models \cup {None}, said : Said]]
  /\ ran \in [Request -> [model : Models \cup {None}, approved : Models \cup {None}, late : BOOLEAN]]
  /\ received \in [Request -> Said]

Init ==
  /\ turn = None /\ aborted = {} /\ favoured = None
  /\ sampling = [r \in Request |-> NoSampling]
  /\ ran = [r \in Request |-> [model |-> None, approved |-> None, late |-> FALSE]]
  /\ received = [r \in Request |-> "none"]

-----------------------------------------------------------------------------
\* resolveSamplingModel(): the first that fits the hint, the user's own, or the first.
Candidate(hint) ==
  LET fitting == {i \in DOMAIN Available : Fits(hint, Available[i])} IN
  IF fitting # {} THEN Available[CHOOSE i \in fitting : \A j \in fitting : i <= j]
  ELSE IF favoured # None THEN favoured ELSE Available[1]

\* A signal of no turn is never aborted.
Aborted(signal) == signal \in aborted
Drops(r) == sampling' = [sampling EXCEPT ![r] = NoSampling]

\* handleSamplingRequest(), up to the question: what is not supported is refused.
Receive(r, hint) ==
  /\ sampling[r].pc = "idle"
  /\ IF Aborted(turn) THEN UNCHANGED sampling
     ELSE sampling' = [sampling EXCEPT ![r] =
            [NoSampling EXCEPT !.pc = "asking", !.signal = turn,
                               !.model = Candidate(hint), !.shown = Candidate(hint)]]
  /\ ran' = [ran EXCEPT ![r] = [model |-> None, approved |-> None, late |-> FALSE]]
  /\ received' = [received EXCEPT ![r] = "none"]
  /\ UNCHANGED <<turn, aborted, favoured>>

\* confirmSampling(): a request whose turn was aborted meanwhile fails.
Approve(r) ==
  /\ sampling[r].pc = "asking"
  /\ IF Aborted(sampling[r].signal) THEN Drops(r) /\ UNCHANGED ran
     ELSE /\ sampling' = [sampling EXCEPT ![r].pc = "running"]
          /\ ran' = [ran EXCEPT ![r] = [model |-> sampling[r].model, approved |-> sampling[r].shown,
                                        late |-> Aborted(sampling[r].signal)]]
  /\ UNCHANGED <<turn, aborted, favoured, received>>

Refuse(r) ==
  /\ sampling[r].pc \in {"asking", "showing"} /\ Drops(r)
  /\ UNCHANGED <<turn, aborted, favoured, ran, received>>

\* The model ends; what is no text, and what comes after an abort, is an error.
Ends(r, said) ==
  /\ sampling[r].pc = "running" /\ said # "none"
  /\ IF said = "text" /\ ~Aborted(sampling[r].signal)
     THEN sampling' = [sampling EXCEPT ![r].pc = "showing", ![r].said = said]
     ELSE Drops(r)
  /\ UNCHANGED <<turn, aborted, favoured, ran, received>>

\* The answer goes to the server, also when the turn was aborted while it was shown.
Return(r) ==
  /\ sampling[r].pc = "showing" /\ Drops(r)
  /\ received' = [received EXCEPT ![r] = sampling[r].said]
  /\ UNCHANGED <<turn, aborted, favoured, ran>>

-----------------------------------------------------------------------------
\* A turn ends, or one begins.
Turn == /\ IF turn # None THEN turn' = None
           ELSE 2 \notin aborted /\ turn' = IF 1 \in aborted THEN 2 ELSE 1
        /\ UNCHANGED <<aborted, favoured, sampling, ran, received>>
Abort == /\ turn # None /\ aborted' = aborted \cup {turn}
         /\ UNCHANGED <<turn, favoured, sampling, ran, received>>
Choose(m) == favoured' = m /\ m # favoured /\ UNCHANGED <<turn, aborted, sampling, ran, received>>

Next ==
  \/ \E r \in Request : \/ \E hint \in Hints : Receive(r, hint)
                        \/ Approve(r) \/ Refuse(r) \/ Return(r)
                        \/ \E said \in Said : Ends(r, said)
  \/ Turn \/ Abort
  \/ \E m \in Models : Choose(m)

-----------------------------------------------------------------------------
\* A model runs for a server as it was shown to the user, and not for a turn that was
\* aborted by then; the server gets what such a run said, and nothing else.
SamplesWereApproved ==
  \A r \in Request :
    /\ ran[r].model = ran[r].approved /\ ~ran[r].late
    /\ received[r] # "none" => received[r] = "text" /\ ran[r].model # None

\* A request goes on with the model it was shown with; from the run on, that is what ran.
RunIsShown ==
  \A r \in Request :
    /\ sampling[r].pc # "idle" => sampling[r].model \in Models /\ sampling[r].shown = sampling[r].model
    /\ sampling[r].pc \in {"running", "showing"} => ran[r].model # None
    /\ sampling[r].pc = "showing" => sampling[r].said = "text"

\* Inductive: SamplesWereApproved follows.
SamplesInv == TypeOK /\ SamplesWereApproved /\ RunIsShown
=============================================================================
