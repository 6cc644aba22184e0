---------------------------- MODULE SecretsProofs ----------------------------
(***************************************************************************)
(* Theorems about the parts of MCSurface that keep tokens and headers, for *)
(* any values of their constants.                                          *)
(*                                                                         *)
(* Bearer!BearerInv adds to RunsAreShared that who waits is at the run in  *)
(* flight, which is not over, and that the command rests no longer than it *)
(* is known to have failed.  Tree!TreeInv adds that nobody is found,       *)
(* marked or held before it is a process, and that what is held does not   *)
(* run once the search has begun.  MergeSound says of a merged entry that  *)
(* each credential in it was given by a source that touched the entry, for *)
(* no other URL than the entry's.                                          *)
(*                                                                         *)
(* Secret!StoreInv is about what jobs still have to do: a plan is of its   *)
(* kind and in order (chunks before the manifest, removals after it); the  *)
(* only job that changes the record knows what is stored; and every chunk  *)
(* that is not the current record's is on the list of somebody who will    *)
(* remove it or write the manifest that names it.                          *)
(***************************************************************************)
EXTENDS MCSurface, Sequences, FiniteSetTheorems, TLAPS

(* BearerCommand *)

\* A token lasts for a while, and a run is not None.
Tokens == TTL \in Nat \ {0} /\ None \notin Helper

AskerRow == [pc : {"idle", "waiting", "leaving"}, at : Helper \cup {None}]

\* BearerInv with its parts named for a step.
LEMMA BearerParts ==
  ASSUME Bearer!BearerInv
  PROVE  /\ token \in BOOLEAN /\ freshFor \in 0..TTL /\ restFor \in 0..TTL /\ failedFor \in 0..TTL
         /\ inflight \in Helper \cup {None}
         /\ helper \in [Helper -> {"none", "runs", "terminating", "dying"}]
         /\ asker \in [Asker -> AskerRow]
         /\ answer \in [Asker -> {"none", "fresh", "old", "failed", "aborted"}]
         /\ Bearer!RunsAreShared /\ Bearer!WaitersAreAtTheRun
BY DEF Bearer!BearerInv, Bearer!TypeOK, AskerRow

\* Who asks is answered, or waits for the run in flight, which may be a new one.
LEMMA ResolveKeeps ==
  ASSUME Tokens, Bearer!BearerInv, NEW a \in Asker, Bearer!Resolve(a)
  PROVE  Bearer!BearerInv'
<1>1. UNCHANGED <<token, freshFor, restFor, failedFor>> /\ asker[a].pc = "idle"
  BY DEF Bearer!Resolve
<1>2. CASE freshFor > 0 \/ restFor > 0
  <2>1. UNCHANGED <<inflight, helper, asker>> /\ answer' \in [Asker -> {"none", "fresh", "old", "failed", "aborted"}]
    BY <1>2, BearerParts DEF Bearer!Resolve, Bearer!Fallback
  <2>2. QED
    BY <1>1, <2>1, BearerParts DEF Bearer!BearerInv, Bearer!TypeOK, Bearer!RunsAreShared,
       Bearer!WaitersAreAtTheRun, Bearer!Waiters, AskerRow
<1>3. CASE ~(freshFor > 0 \/ restFor > 0)
  <2> DEFINE row(h) == [pc |-> "waiting", at |-> h]
  <2>1. PICK h \in Helper :
          /\ IF inflight = None THEN helper[h] = "none" ELSE h = inflight
          /\ inflight' = h
          /\ helper' = IF inflight = None THEN [helper EXCEPT ![h] = "runs"] ELSE helper
          /\ asker' = [asker EXCEPT ![a] = row(h)]
          /\ answer' = [answer EXCEPT ![a] = "none"]
    BY <1>3 DEF Bearer!Resolve
  <2>2. /\ row(h) \in AskerRow /\ row(h).pc = "waiting" /\ row(h).at = h
    BY DEF AskerRow
  <2> HIDE DEF row
  <2>3. /\ asker' \in [Asker -> AskerRow] /\ asker'[a] = row(h)
        /\ \A b \in Asker \ {a} : asker'[b] = asker[b]
    BY <2>1, <2>2, BearerParts
  <2>4. /\ helper' \in [Helper -> {"none", "runs", "terminating", "dying"}]
        /\ \A g \in Helper \ {h} : helper'[g] = helper[g]
        /\ helper'[h] \in {"runs", "terminating"}
        /\ \A g \in Helper : helper[g] \in {"runs", "terminating"} => g = h
    <3>1. helper \in [Helper -> {"none", "runs", "terminating", "dying"}]
      BY BearerParts
    <3>2. \A g \in Helper : helper[g] \in {"runs", "terminating"} => inflight = g
      BY BearerParts DEF Bearer!RunsAreShared
    <3>3. inflight # None => inflight = h /\ helper[h] \in {"runs", "terminating"}
      BY <2>1, BearerParts DEF Bearer!WaitersAreAtTheRun
    <3>4. CASE inflight = None
      BY <2>1, <3>1, <3>2, <3>4 DEF Tokens
    <3>5. CASE inflight # None
      BY <2>1, <3>1, <3>2, <3>3, <3>5
    <3>6. QED
      BY <3>4, <3>5
  <2>5. Bearer!TypeOK'
    BY <1>1, <2>1, <2>3, <2>4, BearerParts DEF Bearer!TypeOK, AskerRow
  <2>6. Bearer!RunsAreShared'
    <3>1. a \in Bearer!Waiters(h)' /\ h \in Helper /\ inflight' = h
      BY <2>1, <2>2, <2>3 DEF Bearer!Waiters
    <3>2. ASSUME NEW g \in Helper, helper'[g] \in {"runs", "terminating"}
          PROVE  g = h
      BY <2>4, <3>2
    <3>3. QED
      BY <3>1, <3>2 DEF Bearer!RunsAreShared
  <2>7. Bearer!WaitersAreAtTheRun'
    BY <1>1, <2>1, <2>2, <2>3, <2>4, BearerParts DEF Bearer!WaitersAreAtTheRun, Tokens
  <2>8. QED
    BY <2>5, <2>6, <2>7 DEF Bearer!BearerInv
<1>4. QED
  BY <1>2, <1>3

\* A request is aborted, and leaves the run; the last one ends it.
LEMMA LeavingKeeps ==
  ASSUME Tokens, Bearer!BearerInv, NEW a \in Asker, Bearer!Aborted(a) \/ Bearer!Left(a)
  PROVE  Bearer!BearerInv'
<1>1. /\ asker \in [Asker -> AskerRow] /\ asker[a] \in AskerRow
      /\ helper \in [Helper -> {"none", "runs", "terminating", "dying"}]
      /\ answer \in [Asker -> {"none", "fresh", "old", "failed", "aborted"}]
  BY BearerParts
<1>2. CASE Bearer!Aborted(a)
  <2> DEFINE row == [asker[a] EXCEPT !.pc = "leaving"]
  <2>1. row \in AskerRow /\ row.pc = "leaving" /\ row.at = asker[a].at
    BY <1>1 DEF AskerRow
  <2>2. asker' = [asker EXCEPT ![a] = row]
    BY <1>1, <1>2 DEF Bearer!Aborted
  <2> HIDE DEF row
  <2>3. /\ asker' \in [Asker -> AskerRow]
        /\ \A b \in Asker : asker'[b].at = asker[b].at /\ (asker'[b].pc # asker[b].pc => asker'[b].pc = "leaving")
    BY <1>1, <2>1, <2>2
  <2>4. /\ UNCHANGED <<token, freshFor, restFor, inflight, helper, failedFor>>
        /\ answer' \in [Asker -> {"none", "fresh", "old", "failed", "aborted"}]
    BY <1>1, <1>2 DEF Bearer!Aborted
  <2>5. Bearer!TypeOK'
    BY <2>3, <2>4, BearerParts DEF Bearer!TypeOK, AskerRow
  <2>6. Bearer!RunsAreShared' /\ Bearer!WaitersAreAtTheRun'
    BY <2>3, <2>4, BearerParts DEF Bearer!RunsAreShared, Bearer!Waiters, Bearer!WaitersAreAtTheRun
  <2>7. QED
    BY <2>5, <2>6 DEF Bearer!BearerInv
<1>3. CASE Bearer!Left(a)
  <2>1. Bearer!Away \in AskerRow /\ Bearer!Away.pc = "idle" /\ Bearer!Away.at = None
    BY DEF Bearer!Away, AskerRow
  <2>2. /\ asker' = [asker EXCEPT ![a] = Bearer!Away]
        /\ UNCHANGED <<token, freshFor, restFor, answer, failedFor>>
    BY <1>3 DEF Bearer!Left
  <2>3. /\ asker' \in [Asker -> AskerRow] /\ asker'[a] = Bearer!Away
        /\ \A b \in Asker \ {a} : asker'[b] = asker[b]
    BY <1>1, <2>1, <2>2
  <2>4. CASE inflight = asker[a].at /\ inflight # None /\ Bearer!Waiters(inflight) = {a}
    <3>1. inflight' = None /\ helper' = [helper EXCEPT ![inflight] = "dying"]
      BY <1>3, <2>4 DEF Bearer!Left
    <3>2. /\ helper' \in [Helper -> {"none", "runs", "terminating", "dying"}]
          /\ \A g \in Helper : helper'[g] \notin {"runs", "terminating"}
      BY <1>1, <3>1, <2>4, BearerParts DEF Bearer!RunsAreShared
    <3>3. \A b \in Asker : asker'[b].at = None
      BY <2>1, <2>3, <2>4, BearerParts DEF Bearer!Waiters, Bearer!WaitersAreAtTheRun
    <3>4. Bearer!TypeOK'
      BY <2>2, <2>3, <3>1, <3>2, BearerParts DEF Bearer!TypeOK, AskerRow
    <3>5. Bearer!RunsAreShared' /\ Bearer!WaitersAreAtTheRun'
      BY <2>1, <2>2, <2>3, <3>1, <3>2, <3>3, BearerParts DEF Bearer!RunsAreShared, Bearer!WaitersAreAtTheRun
    <3>6. QED
      BY <3>4, <3>5 DEF Bearer!BearerInv
  <2>5. CASE ~(inflight = asker[a].at /\ inflight # None /\ Bearer!Waiters(inflight) = {a})
    <3>1. UNCHANGED <<inflight, helper>>
      BY <1>3, <2>5 DEF Bearer!Left
    <3>2. inflight # None => Bearer!Waiters(inflight)' # {}
      <4>1. SUFFICES ASSUME inflight # None PROVE \E b \in Asker : asker'[b].at = inflight
        BY <3>1 DEF Bearer!Waiters
      <4>2. Bearer!Waiters(inflight) # {}
        BY <4>1, BearerParts DEF Bearer!RunsAreShared, Bearer!WaitersAreAtTheRun
      <4>3. PICK b \in Bearer!Waiters(inflight) : b # a
        BY <2>5, <4>1, <4>2 DEF Bearer!Waiters
      <4>4. QED
        BY <2>3, <4>3 DEF Bearer!Waiters
    <3>3. Bearer!TypeOK'
      BY <2>2, <2>3, <3>1, BearerParts DEF Bearer!TypeOK, AskerRow
    <3>4. Bearer!RunsAreShared'
      BY <3>1, <3>2, BearerParts DEF Bearer!RunsAreShared, Tokens
    <3>5. Bearer!WaitersAreAtTheRun'
      BY <2>1, <2>2, <2>3, <3>1, BearerParts DEF Bearer!WaitersAreAtTheRun
    <3>6. QED
      BY <3>3, <3>4, <3>5 DEF Bearer!BearerInv
  <2>6. QED
    BY <2>4, <2>5
<1>4. QED
  BY <1>2, <1>3

\* A run that has settled leaves nobody behind.
LEMMA SettledKeeps ==
  ASSUME Tokens, Bearer!BearerInv, NEW h \in Helper, helper[h] # "none",
         NEW gives \in {"fresh", "old", "failed"}, Bearer!Settled(h, gives),
         token' \in BOOLEAN, freshFor' \in 0..TTL, restFor' \in 0..TTL, failedFor' \in 0..TTL,
         restFor' <= failedFor'
  PROVE  Bearer!BearerInv'
<1>1. /\ asker \in [Asker -> AskerRow] /\ \A a \in Asker : asker[a] \in AskerRow
      /\ helper \in [Helper -> {"none", "runs", "terminating", "dying"}]
      /\ answer \in [Asker -> {"none", "fresh", "old", "failed", "aborted"}]
  BY BearerParts
<1>2. Bearer!Away \in AskerRow /\ Bearer!Away.pc = "idle" /\ Bearer!Away.at = None
  BY DEF Bearer!Away, AskerRow
<1>3. \A a \in Asker :
        /\ asker'[a] \in AskerRow
        /\ asker[a].at # h => asker'[a] = asker[a]
        /\ asker[a].at = h => asker'[a].at = None /\ asker'[a].pc # "waiting"
        /\ asker'[a].pc = "idle" => asker'[a].at = None
  BY <1>1, <1>2, BearerParts DEF Bearer!Settled, AskerRow, Bearer!WaitersAreAtTheRun
<1>4. asker' \in [Asker -> AskerRow] /\ answer' \in [Asker -> {"none", "fresh", "old", "failed", "aborted"}]
  BY <1>1, <1>3 DEF Bearer!Settled
<1>5. /\ helper' \in [Helper -> {"none", "runs", "terminating", "dying"}] /\ helper'[h] = "none"
      /\ \A g \in Helper \ {h} : helper'[g] = helper[g]
      /\ inflight' = IF inflight = h THEN None ELSE inflight
  BY <1>1 DEF Bearer!Settled
<1>6. Bearer!TypeOK'
  BY <1>4, <1>5, BearerParts DEF Bearer!TypeOK, AskerRow
<1>7. Bearer!RunsAreShared'
  <2>1. SUFFICES ASSUME NEW g \in Helper, helper'[g] \in {"runs", "terminating"}
                 PROVE  inflight' = g /\ \E a \in Asker : asker'[a].at = g
    BY DEF Bearer!RunsAreShared, Bearer!Waiters
  <2>2. g # h /\ inflight = g /\ \E a \in Asker : asker[a].at = g
    BY <1>5, <2>1, BearerParts DEF Bearer!RunsAreShared, Bearer!Waiters
  <2>3. QED
    BY <1>3, <1>5, <2>2
<1>8. Bearer!WaitersAreAtTheRun'
  BY <1>3, <1>5, BearerParts DEF Bearer!WaitersAreAtTheRun, Tokens
<1>9. QED
  BY <1>6, <1>7, <1>8 DEF Bearer!BearerInv

\* The command ends in one of its ways, or time passes.
LEMMA RunsKeep ==
  ASSUME Tokens, Bearer!BearerInv,
         \/ Bearer!Tick
         \/ \E h \in Helper : Bearer!Succeeds(h) \/ Bearer!Overruns(h) \/ Bearer!Fails(h) \/ Bearer!Dies(h)
  PROVE  Bearer!BearerInv'
<1>1. Bearer!Fallback \in {"old", "failed"}
  BY DEF Bearer!Fallback
<1>2. ASSUME NEW h \in Helper, Bearer!Succeeds(h) PROVE Bearer!BearerInv'
  <2>1. Bearer!Settled(h, "fresh") /\ helper[h] # "none" /\ token' = TRUE /\ freshFor' = TTL /\ restFor' = 0
        /\ failedFor' = 0
    BY <1>2 DEF Bearer!Succeeds
  <2>2. token' \in BOOLEAN /\ freshFor' \in 0..TTL /\ restFor' \in 0..TTL /\ failedFor' \in 0..TTL
        /\ restFor' <= failedFor'
    BY <2>1 DEF Tokens
  <2>3. QED
    BY <2>1, <2>2, SettledKeeps
<1>3. ASSUME NEW h \in Helper, Bearer!Fails(h) PROVE Bearer!BearerInv'
  <2>1. Bearer!Settled(h, Bearer!Fallback) /\ helper[h] # "none" /\ UNCHANGED <<token, freshFor>>
        /\ restFor' = TTL /\ failedFor' = TTL
    BY <1>3 DEF Bearer!Fails
  <2>2. token' \in BOOLEAN /\ freshFor' \in 0..TTL /\ restFor' \in 0..TTL /\ failedFor' \in 0..TTL
        /\ restFor' <= failedFor'
    BY <2>1, BearerParts DEF Tokens
  <2>3. QED
    BY <1>1, <2>1, <2>2, SettledKeeps
<1>4. ASSUME NEW h \in Helper, Bearer!Dies(h) PROVE Bearer!BearerInv'
  <2>1. Bearer!Settled(h, Bearer!Fallback) /\ helper[h] # "none" /\ UNCHANGED <<token, freshFor, restFor, failedFor>>
    BY <1>4 DEF Bearer!Dies
  <2>2. token' \in BOOLEAN /\ freshFor' \in 0..TTL /\ restFor' \in 0..TTL /\ failedFor' \in 0..TTL
        /\ restFor' <= failedFor'
    BY <2>1, BearerParts DEF Bearer!WaitersAreAtTheRun
  <2>3. QED
    BY <1>1, <2>1, <2>2, SettledKeeps
<1>5. ASSUME NEW h \in Helper, Bearer!Overruns(h) PROVE Bearer!BearerInv'
  <2>1. /\ helper' \in [Helper -> {"none", "runs", "terminating", "dying"}] /\ helper[h] = "runs"
        /\ helper'[h] = "terminating" /\ \A g \in Helper \ {h} : helper'[g] = helper[g]
        /\ UNCHANGED <<token, freshFor, restFor, inflight, asker, answer, failedFor>>
    BY <1>5, BearerParts DEF Bearer!Overruns
  <2>2. Bearer!TypeOK'
    BY <2>1, BearerParts DEF Bearer!TypeOK, AskerRow
  <2>3. Bearer!RunsAreShared' /\ Bearer!WaitersAreAtTheRun'
    BY <2>1, BearerParts DEF Bearer!RunsAreShared, Bearer!Waiters, Bearer!WaitersAreAtTheRun
  <2>4. QED
    BY <2>2, <2>3 DEF Bearer!BearerInv
<1>6. CASE Bearer!Tick
  <2>1. /\ freshFor' \in 0..TTL /\ restFor' \in 0..TTL /\ failedFor' \in 0..TTL /\ restFor' <= failedFor'
        /\ UNCHANGED <<token, inflight, helper, asker, answer>>
    BY <1>6, BearerParts DEF Bearer!Tick, Tokens, Bearer!WaitersAreAtTheRun
  <2>2. Bearer!TypeOK'
    BY <2>1, BearerParts DEF Bearer!TypeOK, AskerRow
  <2>3. Bearer!RunsAreShared' /\ Bearer!WaitersAreAtTheRun'
    BY <2>1, BearerParts DEF Bearer!RunsAreShared, Bearer!Waiters, Bearer!WaitersAreAtTheRun
  <2>4. QED
    BY <2>2, <2>3 DEF Bearer!BearerInv
<1>7. QED
  BY <1>2, <1>3, <1>4, <1>5, <1>6

\* Nobody has asked.
LEMMA BearerBegins == Tokens /\ Bearer!Init => Bearer!BearerInv
<1> SUFFICES ASSUME Tokens, Bearer!Init PROVE Bearer!BearerInv
  OBVIOUS
<1>1. asker \in [Asker -> AskerRow] /\ \A a \in Asker : asker[a].at = None /\ asker[a].pc = "idle"
  BY DEF Bearer!Init, Bearer!Away, AskerRow
<1>2. Bearer!TypeOK
  <2>1. /\ {freshFor, restFor, failedFor} \subseteq 0..TTL
        /\ token \in BOOLEAN /\ inflight \in Helper \cup {None}
    <3>1. 0 \in 0..TTL
      BY DEF Tokens
    <3>2. QED
      BY <3>1 DEF Bearer!Init
  <2>2. helper \in [Helper -> {"none", "runs", "terminating", "dying"}]
    BY DEF Bearer!Init
  <2>3. answer \in [Asker -> {"none", "fresh", "old", "failed", "aborted"}]
    BY DEF Bearer!Init
  <2>4. asker \in [Asker -> [pc : {"idle", "waiting", "leaving"}, at : Helper \cup {None}]]
    BY <1>1 DEF AskerRow
  <2>5. QED
    BY <2>1, <2>2, <2>3, <2>4, Zenon DEF Bearer!TypeOK
<1>3. QED
  BY <1>1, <1>2 DEF Bearer!Init, Bearer!BearerInv, Bearer!RunsAreShared, Bearer!WaitersAreAtTheRun

\* So every step keeps BearerInv.
LEMMA BearerKeeps ==
  ASSUME Tokens, Bearer!BearerInv, Bearer!Next \/ UNCHANGED bearer
  PROVE  Bearer!BearerInv'
<1>1. ASSUME UNCHANGED bearer PROVE Bearer!BearerInv'
  BY <1>1 DEF bearer, Bearer!BearerInv, Bearer!TypeOK, Bearer!RunsAreShared, Bearer!Waiters,
              Bearer!WaitersAreAtTheRun
<1>2. QED
  BY <1>1, ResolveKeeps, LeavingKeeps, RunsKeep DEF Bearer!Next

\* A request that was not aborted gets less than a fresh token after an outage only.
LEMMA OnlyOutages ==
  ASSUME Tokens, Bearer!BearerInv, Bearer!Next \/ UNCHANGED bearer
  PROVE  [\A a \in Asker :
            answer'[a] # answer[a] /\ answer'[a] \in {"old", "failed"} => failedFor' > 0]_Bearer!bearerVars
<1> SUFFICES ASSUME NEW a \in Asker, answer'[a] # answer[a], answer'[a] \in {"old", "failed"}
             PROVE  failedFor' > 0
  OBVIOUS
<1>1. answer \in [Asker -> {"none", "fresh", "old", "failed", "aborted"}] /\ restFor <= failedFor
      /\ restFor \in 0..TTL /\ failedFor \in 0..TTL /\ freshFor \in 0..TTL
  BY BearerParts DEF Bearer!WaitersAreAtTheRun
<1>2. ASSUME NEW b \in Asker, Bearer!Resolve(b) PROVE failedFor' > 0
  <2>1. CASE freshFor > 0
    <3>1. answer' = [answer EXCEPT ![b] = "fresh"]
      BY <1>2, <2>1 DEF Bearer!Resolve
    <3>2. QED
      BY <1>1, <3>1
  <2>2. CASE restFor > 0
    BY <1>1, <1>2, <2>2 DEF Bearer!Resolve, Tokens
  <2>3. CASE ~(freshFor > 0 \/ restFor > 0)
    <3>1. answer' = [answer EXCEPT ![b] = "none"]
      BY <1>2, <2>3 DEF Bearer!Resolve
    <3>2. QED
      BY <1>1, <3>1
  <2>4. QED
    BY <2>1, <2>2, <2>3
<1>3. ASSUME NEW h \in Helper, Bearer!Dies(h) PROVE FALSE
  <2>1. \A b \in Asker : asker[b].at # h
    BY <1>3, BearerParts DEF Bearer!Dies, Bearer!WaitersAreAtTheRun, Tokens
  <2>2. answer'[a] = answer[a]
    BY <1>1, <1>3, <2>1 DEF Bearer!Dies, Bearer!Settled
  <2>3. QED
    BY <2>2
<1>4. ASSUME NEW h \in Helper, Bearer!Succeeds(h) PROVE FALSE
  BY <1>1, <1>4 DEF Bearer!Succeeds, Bearer!Settled
<1>5. ASSUME NEW h \in Helper, Bearer!Fails(h) PROVE failedFor' > 0
  BY <1>5 DEF Bearer!Fails, Tokens
<1>6. ASSUME NEW b \in Asker, Bearer!Aborted(b) PROVE FALSE
  BY <1>1, <1>6 DEF Bearer!Aborted
<1>7. CASE answer' = answer
  BY <1>7
<1>8. QED
  BY <1>2, <1>3, <1>4, <1>5, <1>6, <1>7 DEF Bearer!Next, bearer, Bearer!Left, Bearer!Overruns, Bearer!Tick

-----------------------------------------------------------------------------
(* BearerStore *)

\* Long records have chunks, and None is neither a record nor a name of one.
Records == Long \subseteq Record /\ Parts \in Nat /\ None \notin Record /\ None \notin Secret!ChunkNames

JobRow == [kind : {"none", "save", "remove", "read", "clean"}, rec : Record \cup {None},
           prev : Record \cup {None}, todo : Seq(Secret!Ops), got : SUBSET (Record \cup {None}), alone : BOOLEAN]

\* A chunk has the name of its record and a number.
LEMMA NamesAreNumbered ==
  ASSUME Records, NEW n \in Secret!ChunkNames
  PROVE  n[1] \in Long /\ n # None /\ \E i \in 1..Parts : n = <<n[1], i>>
BY DEF Records, Secret!ChunkNames

\* An operation is told by its three fields.
LEMMA OpsDiffer ==
  ASSUME NEW do, NEW name, NEW tolerant
  PROVE  /\ Secret!Op(do, name, tolerant).do = do /\ Secret!Op(do, name, tolerant).name = name
         /\ Secret!Op(do, name, tolerant).tolerant = tolerant
         /\ Secret!Manifest.do = "write" /\ Secret!Manifest.name = None /\ Secret!Manifest.tolerant = FALSE
BY DEF Secret!Op, Secret!Manifest

\* One operation for each chunk of a record.
InTurn(s, rec, do, tolerant) ==
  /\ s \in Seq(Secret!Ops)
  /\ \A i \in 1..Len(s) : /\ s[i].do = do /\ s[i].tolerant = tolerant
                          /\ s[i].name \in Secret!ChunkNames /\ s[i].name # None /\ s[i].name[1] = rec
  /\ \A n \in Secret!ChunkNames : n[1] = rec => \E i \in 1..Len(s) : s[i] = Secret!Op(do, n, tolerant)

\* ForChunks gives these.
LEMMA ChunksInTurn ==
  ASSUME Records, NEW rec \in Record \cup {None}, NEW do \in {"write", "remove", "read"}, NEW tolerant \in BOOLEAN
  PROVE  InTurn(Secret!ForChunks(rec, do, tolerant), rec, do, tolerant)
<1> DEFINE s == Secret!ForChunks(rec, do, tolerant)
<1>1. CASE rec \in Long
  <2>1. s = [i \in 1..Parts |-> Secret!Op(do, <<rec, i>>, tolerant)]
    BY <1>1 DEF Secret!ForChunks, Secret!ChunkName
  <2> HIDE DEF s
  <2>2. \A i \in 1..Parts : <<rec, i>> \in Secret!ChunkNames
    BY <1>1 DEF Secret!ChunkNames
  <2>3. \A i \in 1..Parts : Secret!Op(do, <<rec, i>>, tolerant) \in Secret!Ops
    BY <2>2 DEF Secret!Op, Secret!Ops
  <2>4. s \in Seq(Secret!Ops) /\ Len(s) = Parts
    BY <2>1, <2>3 DEF Records
  <2>5. \A i \in 1..Len(s) : /\ s[i].do = do /\ s[i].tolerant = tolerant /\ s[i].name = <<rec, i>>
    <3> SUFFICES ASSUME NEW i \in 1..Len(s) PROVE s[i].do = do /\ s[i].tolerant = tolerant /\ s[i].name = <<rec, i>>
      OBVIOUS
    <3>1. s[i] = Secret!Op(do, <<rec, i>>, tolerant)
      BY <2>1, <2>4
    <3>2. QED
      BY <3>1 DEF Secret!Op
  <2>6. \A n \in Secret!ChunkNames : n[1] = rec => \E i \in 1..Len(s) : s[i] = Secret!Op(do, n, tolerant)
    <3> SUFFICES ASSUME NEW n \in Secret!ChunkNames, n[1] = rec
                 PROVE  \E i \in 1..Len(s) : s[i] = Secret!Op(do, n, tolerant)
      OBVIOUS
    <3>1. PICK i \in 1..Parts : n = <<rec, i>>
      BY NamesAreNumbered
    <3>2. i \in 1..Len(s) /\ s[i] = Secret!Op(do, n, tolerant)
      BY <2>1, <2>4, <3>1
    <3>3. QED
      BY <3>2
  <2>7. \A i \in 1..Len(s) : s[i].name \in Secret!ChunkNames /\ s[i].name # None /\ s[i].name[1] = rec
    BY <2>2, <2>4, <2>5, NamesAreNumbered
  <2>8. InTurn(s, rec, do, tolerant)
    BY <2>4, <2>5, <2>6, <2>7 DEF InTurn
  <2>9. QED
    BY <2>8 DEF s
<1>2. CASE rec \notin Long
  <2>1. s = <<>>
    BY <1>2 DEF Secret!ForChunks
  <2>2. \A n \in Secret!ChunkNames : n[1] # rec
    BY <1>2, NamesAreNumbered
  <2>3. QED
    BY <2>1, <2>2 DEF InTurn
<1>3. QED
  BY <1>1, <1>2

\* What is to be done after the next operation.
LEMMA RestOfPlan ==
  ASSUME NEW s \in Seq(Secret!Ops), s # <<>>
  PROVE  /\ Tail(s) \in Seq(Secret!Ops) /\ Len(s) \in Nat \ {0} /\ Head(s) = s[1] /\ Head(s) \in Secret!Ops
         /\ Len(Tail(s)) = Len(s) - 1 /\ \A i \in 1..Len(s) - 1 : Tail(s)[i] = s[i + 1]
OBVIOUS

\* A job that does its next operation has the rest of a plan before it.
LEMMA PlanGoesOn ==
  ASSUME Records, NEW j \in JobRow, NEW k \in JobRow, Secret!FitsPlan(j), j.todo # <<>>,
         k.kind = j.kind, k.rec = j.rec, k.prev = j.prev, k.todo = Tail(j.todo),
         j.kind = "read" => k.got \subseteq {j.rec, None}
  PROVE  /\ Secret!FitsPlan(k)
         /\ \A o : Secret!HasTodo(k, o) => Secret!HasTodo(j, o)
         /\ \A o : Secret!HasTodo(j, o) => o = Head(j.todo) \/ Secret!HasTodo(k, o)
<1>1. /\ j.todo \in Seq(Secret!Ops) /\ Len(j.todo) \in Nat \ {0} /\ Head(j.todo) = j.todo[1]
      /\ Len(k.todo) = Len(j.todo) - 1 /\ \A i \in 1..Len(k.todo) : k.todo[i] = j.todo[i + 1]
  BY RestOfPlan DEF JobRow
<1>2. \A i \in 1..Len(k.todo) : i + 1 \in 1..Len(j.todo) /\ k.todo[i] = j.todo[i + 1]
  BY <1>1
<1>3. \A o : Secret!HasTodo(k, o) => Secret!HasTodo(j, o)
  BY <1>2 DEF Secret!HasTodo
<1>4. ASSUME NEW o, Secret!HasTodo(j, o), o # Head(j.todo) PROVE Secret!HasTodo(k, o)
  <2>1. PICK i \in 1..Len(j.todo) : j.todo[i] = o
    BY <1>4 DEF Secret!HasTodo
  <2>2. i # 1 /\ i - 1 \in 1..Len(k.todo) /\ k.todo[i - 1] = o
    BY <1>1, <1>4, <2>1
  <2>3. QED
    BY <2>2 DEF Secret!HasTodo
<1>5. ASSUME NEW i \in 1..Len(k.todo), NEW m \in 1..i - 1
      PROVE  /\ j.kind = "save" /\ (k.todo[m].name = None \/ k.todo[m].do = "remove") => k.todo[i].do = "remove"
             /\ j.kind = "remove" => k.todo[m].name # None
  <2>1. /\ i + 1 \in 1..Len(j.todo) /\ m + 1 \in 1..(i + 1) - 1 /\ m \in 1..Len(k.todo)
        /\ k.todo[i] = j.todo[i + 1] /\ k.todo[m] = j.todo[m + 1]
    BY <1>1, <1>2
  <2>2. QED
    BY <2>1 DEF Secret!FitsPlan
<1>6. ASSUME j.kind = "save", Head(j.todo) = Secret!Manifest \/ Head(j.todo).do = "remove"
      PROVE  \A i \in 1..Len(k.todo) : k.todo[i].do = "remove"
  <2>1. \A i \in 1..Len(k.todo) : 1 \in 1..(i + 1) - 1
    BY <1>1
  <2>2. j.todo[1].name = None \/ j.todo[1].do = "remove"
    BY <1>1, <1>6, OpsDiffer
  <2>3. QED
    BY <1>2, <1>6, <2>1, <2>2 DEF Secret!FitsPlan
<1>7. j.kind = "save" /\ (\E i \in 1..Len(k.todo) : k.todo[i].do = "write") => Secret!HasTodo(k, Secret!Manifest)
  <2> SUFFICES ASSUME j.kind = "save", NEW i \in 1..Len(k.todo), k.todo[i].do = "write"
               PROVE  Secret!HasTodo(k, Secret!Manifest)
    OBVIOUS
  <2>1. Secret!HasTodo(j, Secret!Manifest)
    BY <1>2 DEF Secret!FitsPlan
  <2>2. QED
    BY <1>4, <1>6, <2>1
<1>8. ASSUME j.kind = "save", Secret!HasTodo(k, Secret!Manifest), j.prev # j.rec,
             NEW n \in Secret!ChunkNames, n[1] = j.prev
      PROVE  Secret!HasTodo(k, Secret!Op("remove", n, TRUE))
  <2>1. Secret!HasTodo(j, Secret!Op("remove", n, TRUE))
    BY <1>3, <1>8 DEF Secret!FitsPlan
  <2>2. \E i \in 1..Len(k.todo) : k.todo[i].do = "write"
    BY <1>8, OpsDiffer DEF Secret!HasTodo
  <2>3. Head(j.todo) # Secret!Op("remove", n, TRUE)
    <3> SUFFICES ASSUME Head(j.todo) = Secret!Op("remove", n, TRUE) PROVE FALSE
      OBVIOUS
    <3>1. Head(j.todo).do = "remove"
      BY DEF Secret!Op
    <3>2. \A i \in 1..Len(k.todo) : k.todo[i].do = "remove"
      BY <1>6, <1>8, <3>1
    <3>3. QED
      BY <2>2, <3>2
  <2>4. QED
    BY <1>4, <2>1, <2>3
<1>9. Secret!FitsPlan(k)
  <2>1. j.kind # "none"
    BY DEF Secret!FitsPlan
  <2>2. ASSUME NEW i \in 1..Len(k.todo)
        PROVE  LET o == k.todo[i] IN
           /\ k.kind = "read" => o.do = "read" /\ o.name # None /\ o.name[1] = k.rec
           /\ k.kind = "remove" => o.do = "remove" /\ ~o.tolerant
           /\ k.kind = "clean" => /\ o.do = "remove" /\ o.tolerant /\ o.name # None
                                  /\ o.name[1] = k.rec /\ k.prev # k.rec
           /\ k.kind = "save" =>
                \/ o.do = "write" /\ ~o.tolerant /\ (o.name # None => o.name[1] = k.rec) /\ Secret!HasTodo(k, Secret!Manifest)
                \/ /\ o.do = "remove" /\ o.tolerant /\ o.name # None
                   /\ o.name[1] = k.prev /\ k.prev # k.rec
    BY <1>2, <1>7 DEF Secret!FitsPlan
  <2>3. k.kind = "read" => k.got \subseteq {k.rec, None}
    OBVIOUS
  <2>4. k.kind = "save" => k.rec # None
    BY DEF Secret!FitsPlan
  <2>5. QED
    BY <1>5, <1>8, <2>1, <2>2, <2>3, <2>4 DEF Secret!FitsPlan
<1>10. QED
  BY <1>3, <1>4, <1>9

\* FitsPlan and KnowsStored read neither the rest of the row nor more of the store.
LEMMA SamePlan ==
  ASSUME NEW j, NEW k, Secret!FitsPlan(j), k.kind = j.kind, k.rec = j.rec, k.prev = j.prev, k.todo = j.todo, k.got = j.got
  PROVE  Secret!FitsPlan(k) /\ \A o : Secret!HasTodo(k, o) <=> Secret!HasTodo(j, o)
<1>1. \A o : Secret!HasTodo(k, o) <=> Secret!HasTodo(j, o)
  BY DEF Secret!HasTodo
<1>2. Secret!FitsPlan(k)
  BY <1>1 DEF Secret!FitsPlan
<1>3. QED
  BY <1>1, <1>2

\* StoreInv with its parts named for a step.
LEMMA StoreParts ==
  ASSUME Secret!StoreInv
  PROVE  /\ stored \in Record \cup {None} /\ chunk \in [Secret!ChunkNames -> Record \cup {None}]
         /\ job \in [Writer -> JobRow] /\ result \in [Writer -> {"none", "splice"}]
         /\ littered \in BOOLEAN /\ torn \in BOOLEAN /\ unseen \in BOOLEAN /\ contended \in BOOLEAN
         /\ Secret!JobsFit /\ Secret!ChunksAreKept /\ Secret!RecordIsWhole /\ Secret!NothingIsSpliced
BY DEF Secret!StoreInv, Secret!TypeOK, Secret!Results, JobRow

\* A job that begins: its plan is whole, and it has met nobody or is not alone.
LEMMA JobBegins ==
  ASSUME Records, Secret!StoreInv, NEW p \in Writer, NEW kind \in {"save", "remove", "read"},
         NEW rec \in Record \cup {None}, NEW prev \in Record \cup {None}, NEW todo \in Seq(Secret!Ops),
         Secret!Starts(p, kind, rec, prev, todo),
         \A k : k.kind = kind /\ k.rec = rec /\ k.prev = prev /\ k.todo = todo /\ k.got = {} =>
           /\ Secret!FitsPlan(k)
           /\ kind = "save" =>
                /\ prev \in {stored, None} /\ Secret!HasTodo(k, Secret!Manifest)
                /\ \A n \in Secret!ChunkNames : n[1] = rec => Secret!HasTodo(k, Secret!Op("write", n, FALSE))
           /\ kind = "remove" =>
                \A n \in Secret!ChunkNames : n[1] = stored => Secret!HasTodo(k, Secret!Op("remove", n, FALSE))
  PROVE  Secret!StoreInv'
<1> DEFINE meets == {q \in Writer \ {p} : kind # "read" /\ job[q].kind \notin {"none", "read"}}
           begun == [kind |-> kind, rec |-> rec, prev |-> prev, todo |-> todo, got |-> {}, alone |-> meets = {}]
<1>0. /\ stored \in Record \cup {None} /\ chunk \in [Secret!ChunkNames -> Record \cup {None}]
      /\ job \in [Writer -> JobRow] /\ result \in [Writer -> {"none", "splice"}]
      /\ littered \in BOOLEAN /\ torn \in BOOLEAN /\ unseen \in BOOLEAN /\ contended \in BOOLEAN
      /\ Secret!JobsFit /\ Secret!ChunksAreKept /\ Secret!RecordIsWhole /\ Secret!NothingIsSpliced
  BY StoreParts
<1>1. /\ job[p].kind = "none"
      /\ job' = [q \in Writer |-> IF q # p THEN [job[q] EXCEPT !.alone = @ /\ q \notin meets] ELSE begun]
      /\ result' = [result EXCEPT ![p] = "none"]
      /\ contended' = (contended \/ ~job'[p].alone)
      /\ unseen' = (unseen \/ (kind = "save" /\ prev # stored))
      /\ littered' = (littered \/ unseen' \/ contended')
      /\ UNCHANGED <<stored, chunk, torn>>
  BY DEF Secret!Starts
<1>2. (meets = {}) \in BOOLEAN /\ begun \in JobRow /\ job'[p] = begun
  BY <1>1 DEF JobRow
<1>3. ASSUME NEW q \in Writer \ {p}
      PROVE  /\ job'[q] \in JobRow /\ job'[q].kind = job[q].kind /\ job'[q].rec = job[q].rec
             /\ job'[q].prev = job[q].prev /\ job'[q].todo = job[q].todo /\ job'[q].got = job[q].got
             /\ job'[q].alone = (job[q].alone /\ q \notin meets)
  <2>1. job[q] \in JobRow /\ job'[q] = [job[q] EXCEPT !.alone = job[q].alone /\ q \notin meets]
    BY <1>0, <1>1
  <2>2. (job[q].alone /\ q \notin meets) \in BOOLEAN
    OBVIOUS
  <2> HIDE DEF meets
  <2>3. QED
    BY <2>1, <2>2 DEF JobRow
<1>4. /\ job' \in [Writer -> JobRow] /\ result' \in [Writer -> {"none", "splice"}] /\ Secret!NothingIsSpliced'
      /\ littered' \in BOOLEAN /\ torn' \in BOOLEAN /\ unseen' \in BOOLEAN /\ contended' \in BOOLEAN
  <2>1. job' \in [Writer -> JobRow]
    <3> HIDE DEF begun, meets
    <3>1. \A q \in Writer : job'[q] \in JobRow
      BY <1>2, <1>3
    <3>2. QED
      BY <1>1, <3>1
  <2>2. result' \in [Writer -> {"none", "splice"}] /\ Secret!NothingIsSpliced'
    BY <1>0, <1>1 DEF Secret!NothingIsSpliced
  <2>3. littered' \in BOOLEAN /\ torn' \in BOOLEAN /\ unseen' \in BOOLEAN /\ contended' \in BOOLEAN
    BY <1>0, <1>1
  <2>4. QED
    BY <2>1, <2>2, <2>3
<1>5. /\ begun.kind = kind /\ begun.rec = rec /\ begun.prev = prev /\ begun.todo = todo /\ begun.got = {}
      /\ begun.alone <=> meets = {}
  OBVIOUS
<1>6. /\ Secret!FitsPlan(begun)
      /\ kind = "save" =>
           /\ prev \in {stored, None} /\ Secret!HasTodo(begun, Secret!Manifest)
           /\ \A n \in Secret!ChunkNames : n[1] = rec => Secret!HasTodo(begun, Secret!Op("write", n, FALSE))
      /\ kind = "remove" =>
           \A n \in Secret!ChunkNames : n[1] = stored => Secret!HasTodo(begun, Secret!Op("remove", n, FALSE))
  BY <1>5
<1>7. ASSUME NEW q \in Writer \ {p}
      PROVE  /\ Secret!FitsPlan(job'[q]) /\ \A o : Secret!HasTodo(job'[q], o) <=> Secret!HasTodo(job[q], o)
  BY <1>0, <1>3, SamePlan DEF Secret!JobsFit
<1> HIDE DEF begun
<1>8. ASSUME NEW q \in Writer \ {p}, job[q].kind \in {"save", "remove", "clean"}
      PROVE  job'[q].alone => job[q].alone /\ kind = "read"
  BY <1>3, <1>8
<1>9. ASSUME meets = {}, kind # "read", NEW q \in Writer \ {p}
      PROVE  job[q].kind \in {"none", "read"}
  BY <1>9
<1>10. ASSUME NEW q \in Writer \ {p}, Secret!KnowsStored(q)
       PROVE  Secret!KnowsStored(q)'
  <2>1. /\ Secret!HasTodo(job'[q], Secret!Manifest) <=> Secret!HasTodo(job[q], Secret!Manifest)
        /\ \A n : Secret!HasTodo(job'[q], Secret!Op("write", n, FALSE))
                    <=> Secret!HasTodo(job[q], Secret!Op("write", n, FALSE))
    BY <1>7
  <2>2. unseen => unseen'
    BY <1>1
  <2>3. QED
    BY <1>1, <1>3, <1>10, <2>1, <2>2 DEF Secret!KnowsStored, Secret!Manifest, Secret!Op
<1>11. kind \in {"save", "remove"} => Secret!KnowsStored(p)'
  <2>1. kind = "save" => stored = prev \/ unseen'
    BY <1>1
  <2>2. Secret!HasTodo(job'[p], Secret!Manifest) <=> Secret!HasTodo(begun, Secret!Manifest)
    BY <1>2
  <2>3. QED
    BY <1>1, <1>2, <1>5, <1>6, <2>1, <2>2 DEF Secret!KnowsStored, Secret!Manifest, Secret!Op
<1> HIDE DEF meets
<1>12. Secret!JobsFit'
  <2>1. ASSUME NEW q \in Writer
        PROVE  Secret!FitsPlan(job'[q])
    BY <1>2, <1>6, <1>7
  <2>2. ASSUME Secret!Changing(p)', job'[p].alone
        PROVE  Secret!KnowsStored(p)' /\ \A q \in Writer \ {p} : ~Secret!Changing(q)'
    <3>1. meets = {} /\ kind \in {"save", "remove"}
      BY <1>2, <1>5, <2>2 DEF Secret!Changing
    <3>2. QED
      BY <1>3, <1>9, <1>11, <3>1 DEF Secret!Changing
  <2>3. ASSUME NEW q \in Writer \ {p}, Secret!Changing(q)', job'[q].alone
        PROVE  Secret!KnowsStored(q)' /\ \A r \in Writer \ {q} : ~Secret!Changing(r)'
    <3>1. job[q].alone /\ kind = "read" /\ Secret!Changing(q)
      BY <1>3, <1>8, <2>3 DEF Secret!Changing
    <3>2. Secret!KnowsStored(q) /\ \A r \in Writer \ {q} : ~Secret!Changing(r)
      BY <1>0, <3>1 DEF Secret!JobsFit
    <3>3. ~Secret!Changing(p)'
      BY <1>2, <1>5, <3>1 DEF Secret!Changing
    <3>4. \A r \in Writer \ {p, q} : ~Secret!Changing(r)'
      BY <1>3, <3>2 DEF Secret!Changing
    <3>5. QED
      BY <1>10, <3>2, <3>3, <3>4
  <2>4. ASSUME ~contended', NEW q \in Writer, Secret!Changing(q)'
        PROVE  job'[q].alone
    <3>1. ~contended /\ job'[p].alone /\ meets = {}
      BY <1>1, <1>2, <1>5, <2>4
    <3>2. CASE q # p
      BY <1>0, <1>3, <2>4, <3>1, <3>2 DEF Secret!JobsFit, Secret!Changing
    <3>3. QED
      BY <3>1, <3>2
  <2>5. QED
    BY <2>1, <2>2, <2>3, <2>4 DEF Secret!JobsFit
<1>13. Secret!ChunksAreKept'
  <2>1. contended' \/ unseen' => littered'
    BY <1>1
  <2>2. ASSUME ~littered', NEW n \in Secret!ChunkNames, chunk[n] # None
        PROVE  \/ /\ n[1] = stored
                  /\ \A q \in Writer : job'[q].kind = "remove" => Secret!HasTodo(job'[q], Secret!Op("remove", n, FALSE))
               \/ \E q \in Writer : /\ job'[q].kind = "save" /\ Secret!HasTodo(job'[q], Secret!Manifest)
                                    /\ n[1] = job'[q].rec
               \/ \E q \in Writer : /\ job'[q].kind \in {"save", "clean"}
                                    /\ Secret!HasTodo(job'[q], Secret!Op("remove", n, TRUE))
    <3>1. ~littered
      BY <1>1, <2>2
    <3>2. CASE /\ n[1] = stored
               /\ \A q \in Writer : job[q].kind = "remove" => Secret!HasTodo(job[q], Secret!Op("remove", n, FALSE))
      BY <1>2, <1>3, <1>5, <1>6, <1>7, <3>2
    <3>3. ASSUME NEW q \in Writer, job[q].kind = "save", Secret!HasTodo(job[q], Secret!Manifest), n[1] = job[q].rec
          PROVE  job'[q].kind = "save" /\ Secret!HasTodo(job'[q], Secret!Manifest) /\ n[1] = job'[q].rec
      BY <1>1, <1>3, <1>7, <3>3
    <3>4. ASSUME NEW q \in Writer, job[q].kind \in {"save", "clean"}, Secret!HasTodo(job[q], Secret!Op("remove", n, TRUE))
          PROVE  job'[q].kind \in {"save", "clean"} /\ Secret!HasTodo(job'[q], Secret!Op("remove", n, TRUE))
      BY <1>1, <1>3, <1>7, <3>4
    <3>5. QED
      BY <1>0, <2>2, <3>1, <3>2, <3>3, <3>4 DEF Secret!ChunksAreKept
  <2>3. \A n \in Secret!ChunkNames : chunk[n] \in {None, n[1]}
    BY <1>0 DEF Secret!ChunksAreKept
  <2>4. stored' = stored /\ chunk' = chunk
    BY <1>1
  <2> HIDE <1>1
  <2>5. QED
    BY <2>1, <2>2, <2>3, <2>4 DEF Secret!ChunksAreKept, Secret!Op, Secret!Manifest, Secret!ChunkNames
<1>14. Secret!RecordIsWhole'
  BY <1>0, <1>1 DEF Secret!RecordIsWhole, Secret!Whole, Secret!ChunkName
<1>15. QED
  BY <1>0, <1>1, <1>4, <1>12, <1>13, <1>14 DEF Secret!StoreInv, Secret!TypeOK, Secret!Results, JobRow

\* A save begins.
LEMMA SaveBegins ==
  ASSUME Records, Secret!StoreInv, NEW p \in Writer, NEW rec \in Record, Secret!Save(p, rec)
  PROVE  Secret!StoreInv'
<1>1. PICK prev \in {stored, None} :
        Secret!Starts(p, "save", rec, prev,
          Secret!ForChunks(rec, "write", FALSE) \o <<Secret!Op("write", None, FALSE)>>
          \o IF prev # rec THEN Secret!ForChunks(prev, "remove", TRUE) ELSE <<>>)
  BY DEF Secret!Save
<1>2. prev \in Record \cup {None} /\ rec \in Record \cup {None} /\ rec # None
  BY StoreParts DEF Records
<1> DEFINE A == Secret!ForChunks(rec, "write", FALSE)
           M == Secret!Op("write", None, FALSE)
           B == IF prev # rec THEN Secret!ForChunks(prev, "remove", TRUE) ELSE <<>>
           todo == A \o <<M>> \o B
<1>3. InTurn(A, rec, "write", FALSE)
  BY <1>2, ChunksInTurn
<1>4. IF prev # rec THEN InTurn(B, prev, "remove", TRUE) ELSE B = <<>>
  <2>1. InTurn(Secret!ForChunks(prev, "remove", TRUE), prev, "remove", TRUE)
    BY <1>2, ChunksInTurn
  <2>2. B = IF prev # rec THEN Secret!ForChunks(prev, "remove", TRUE) ELSE <<>>
    OBVIOUS
  <2> HIDE DEF B
  <2>3. CASE prev # rec
    BY <2>1, <2>2, <2>3
  <2>4. CASE prev = rec
    BY <2>2, <2>4
  <2>5. QED
    BY <2>3, <2>4
<1>5. M \in Secret!Ops /\ M = Secret!Manifest /\ M.do = "write" /\ M.name = None /\ M.tolerant = FALSE
  BY DEF Secret!Ops, Secret!Op, Secret!Manifest
<1> HIDE DEF A, B, M
<1>0. /\ A \in Seq(Secret!Ops)
      /\ \A i \in 1..Len(A) : /\ A[i].do = "write" /\ A[i].tolerant = FALSE
                              /\ A[i].name # None /\ A[i].name[1] = rec
      /\ B \in Seq(Secret!Ops)
      /\ \A i \in 1..Len(B) : /\ B[i].do = "remove" /\ B[i].tolerant = TRUE
                              /\ B[i].name # None /\ B[i].name[1] = prev /\ prev # rec
  <2>1. CASE prev # rec
    BY <1>3, <1>4, <2>1 DEF InTurn
  <2>2. CASE prev = rec
    <3>1. B = <<>>
      BY <1>4, <2>2
    <3>2. B \in Seq(Secret!Ops) /\ 1..Len(B) = {}
      BY <3>1
    <3>3. QED
      BY <1>3, <3>2 DEF InTurn
  <2>3. QED
    BY <2>1, <2>2
<1>6. /\ todo \in Seq(Secret!Ops) /\ Len(A) \in Nat /\ Len(B) \in Nat /\ Len(todo) = Len(A) + 1 + Len(B)
      /\ \A i \in 1..Len(A) : todo[i] = A[i]
      /\ todo[Len(A) + 1] = M
      /\ \A i \in 1..Len(B) : todo[Len(A) + 1 + i] = B[i]
  BY <1>0, <1>5
<1>7. \A i \in 1..Len(todo) : \/ i \in 1..Len(A) /\ todo[i] = A[i]
                              \/ i = Len(A) + 1 /\ todo[i] = M
                              \/ i > Len(A) + 1 /\ i - Len(A) - 1 \in 1..Len(B) /\ todo[i] = B[i - Len(A) - 1]
  BY <1>6
<1>11. /\ \A i \in 1..Len(A) : i \in 1..Len(todo) /\ todo[i] = A[i]
      /\ \A i \in 1..Len(B) : Len(A) + 1 + i \in 1..Len(todo) /\ todo[Len(A) + 1 + i] = B[i]
  BY <1>6
<1> HIDE DEF todo
<1>8. ASSUME NEW k, k.kind = "save", k.rec = rec, k.prev = prev, k.todo = todo, k.got = {}
      PROVE  /\ Secret!FitsPlan(k) /\ Secret!HasTodo(k, Secret!Manifest)
             /\ \A n \in Secret!ChunkNames : n[1] = rec => Secret!HasTodo(k, Secret!Op("write", n, FALSE))
  <2>1. Secret!HasTodo(k, Secret!Manifest)
    <3>1. Len(A) + 1 \in 1..Len(k.todo) /\ k.todo[Len(A) + 1] = Secret!Manifest
      BY <1>5, <1>6, <1>8
    <3>2. QED
      BY <3>1 DEF Secret!HasTodo
  <2>2. ASSUME NEW n \in Secret!ChunkNames, n[1] = rec PROVE Secret!HasTodo(k, Secret!Op("write", n, FALSE))
    <3>1. PICK i \in 1..Len(A) : A[i] = Secret!Op("write", n, FALSE)
      BY <1>3, <2>2 DEF InTurn
    <3>2. i \in 1..Len(k.todo) /\ k.todo[i] = Secret!Op("write", n, FALSE)
      BY <1>11, <1>8, <3>1
    <3>3. QED
      BY <3>2 DEF Secret!HasTodo
  <2>3. ASSUME NEW n \in Secret!ChunkNames, n[1] = prev, prev # rec PROVE Secret!HasTodo(k, Secret!Op("remove", n, TRUE))
    <3>1. PICK i \in 1..Len(B) : B[i] = Secret!Op("remove", n, TRUE)
      BY <1>4, <2>3 DEF InTurn
    <3>2. Len(A) + 1 + i \in 1..Len(k.todo) /\ k.todo[Len(A) + 1 + i] = Secret!Op("remove", n, TRUE)
      BY <1>11, <1>8, <3>1
    <3>3. QED
      BY <3>2 DEF Secret!HasTodo
  <2>4. ASSUME NEW i \in 1..Len(todo)
        PROVE  \/ todo[i].do = "write" /\ ~todo[i].tolerant /\ (todo[i].name # None => todo[i].name[1] = rec)
               \/ todo[i].do = "remove" /\ todo[i].tolerant /\ todo[i].name # None /\ todo[i].name[1] = prev /\ prev # rec
    BY <1>0, <1>5, <1>7
  <2>5. ASSUME NEW i \in 1..Len(todo), NEW m \in 1..i - 1, todo[m].name = None \/ todo[m].do = "remove"
        PROVE  todo[i].do = "remove"
    <3>1. m \in 1..Len(todo)
      BY <1>6
    <3>2. m > Len(A)
      BY <1>0, <1>7, <2>5, <3>1
    <3>3. i > Len(A) + 1
      BY <1>6, <3>2
    <3>4. i - Len(A) - 1 \in 1..Len(B) /\ todo[i] = B[i - Len(A) - 1]
      BY <1>6, <1>7, <3>3
    <3>5. QED
      BY <1>0, <3>4
  <2>6. Secret!FitsPlan(k)
    BY <1>2, <1>8, <2>1, <2>3, <2>4, <2>5 DEF Secret!FitsPlan
  <2>7. QED
    BY <2>1, <2>2, <2>6
<1>9. Secret!Starts(p, "save", rec, prev, todo)
  BY <1>1 DEF todo, A, B, M
<1>10. QED
  BY <1>2, <1>6, <1>8, <1>9, JobBegins

\* A removal begins, after the manifest was read.
LEMMA RemoveBegins ==
  ASSUME Records, Secret!StoreInv, NEW p \in Writer, Secret!Remove(p)
  PROVE  Secret!StoreInv'
<1>1. stored \in Record \cup {None}
  BY StoreParts
<1> DEFINE A == Secret!ForChunks(stored, "remove", FALSE)
           M == Secret!Op("remove", None, FALSE)
           todo == A \o <<M>>
<1>2. InTurn(A, stored, "remove", FALSE)
  BY <1>1, ChunksInTurn
<1>3. M \in Secret!Ops /\ M.do = "remove" /\ M.tolerant = FALSE
  BY DEF Secret!Ops, Secret!Op
<1> HIDE DEF A, M
<1>4. /\ todo \in Seq(Secret!Ops) /\ Len(A) \in Nat /\ Len(todo) = Len(A) + 1
      /\ \A i \in 1..Len(A) : todo[i] = A[i]
      /\ todo[Len(A) + 1] = M
  BY <1>2, <1>3 DEF InTurn
<1>11. \A i \in 1..Len(A) : i \in 1..Len(todo) /\ todo[i] = A[i]
  BY <1>4
<1> HIDE DEF todo
<1>5. ASSUME NEW k, k.kind = "remove", k.rec = None, k.prev = None, k.todo = todo, k.got = {}
      PROVE  /\ Secret!FitsPlan(k)
             /\ \A n \in Secret!ChunkNames : n[1] = stored => Secret!HasTodo(k, Secret!Op("remove", n, FALSE))
  <2>1. ASSUME NEW n \in Secret!ChunkNames, n[1] = stored PROVE Secret!HasTodo(k, Secret!Op("remove", n, FALSE))
    <3>1. PICK i \in 1..Len(A) : A[i] = Secret!Op("remove", n, FALSE)
      BY <1>2, <2>1 DEF InTurn
    <3>2. i \in 1..Len(k.todo) /\ k.todo[i] = Secret!Op("remove", n, FALSE)
      BY <1>11, <1>5, <3>1
    <3>3. QED
      BY <3>2 DEF Secret!HasTodo
  <2>2. \A i \in 1..Len(todo) : todo[i].do = "remove" /\ ~todo[i].tolerant
    BY <1>2, <1>3, <1>4 DEF InTurn
  <2>3. \A i \in 1..Len(todo) : \A m \in 1..i - 1 : todo[m].name # None
    BY <1>2, <1>4 DEF InTurn
  <2>4. Secret!FitsPlan(k)
    BY <1>5, <2>2, <2>3 DEF Secret!FitsPlan
  <2>5. QED
    BY <2>1, <2>4
<1>6. Secret!Starts(p, "remove", None, None, todo)
  BY DEF Secret!Remove, todo, A, M
<1>7. QED
  BY <1>4, <1>5, <1>6, JobBegins

\* A reading begins.
LEMMA ReadBegins ==
  ASSUME Records, Secret!StoreInv, NEW p \in Writer, Secret!Read(p)
  PROVE  Secret!StoreInv'
<1>1. stored \in Record \cup {None}
  BY StoreParts
<1> DEFINE todo == Secret!ForChunks(stored, "read", FALSE)
<1>2. InTurn(todo, stored, "read", FALSE)
  BY <1>1, ChunksInTurn
<1> HIDE DEF todo
<1>3. ASSUME NEW k, k.kind = "read", k.rec = stored, k.prev = None, k.todo = todo, k.got = {}
      PROVE  Secret!FitsPlan(k)
  BY <1>2, <1>3 DEF Secret!FitsPlan, InTurn
<1>4. Secret!Starts(p, "read", stored, None, todo)
  BY DEF Secret!Read, todo
<1>5. todo \in Seq(Secret!Ops)
  BY <1>2 DEF InTurn
<1>6. QED
  BY <1>1, <1>3, <1>4, <1>5, JobBegins

\* A step of one job leaves the jobs fitting if the job itself still fits.
LEMMA OneJob ==
  ASSUME Secret!StoreInv, NEW p \in Writer, NEW k \in JobRow, job' = [job EXCEPT ![p] = k],
         Secret!FitsPlan(k),
         k.kind \in {"save", "remove", "clean"} =>
           /\ Secret!Changing(p) /\ k.alone = job[p].alone
           /\ k.alone => Secret!KnowsStored(p)',
         contended' = contended \/ (Secret!Changing(p) /\ job[p].alone),
         Secret!Changing(p) \/ UNCHANGED <<stored, chunk, unseen>>
  PROVE  Secret!JobsFit' /\ job' \in [Writer -> JobRow]
<1>1. job \in [Writer -> JobRow] /\ Secret!JobsFit
  BY StoreParts
<1>2. job' \in [Writer -> JobRow] /\ job'[p] = k /\ \A q \in Writer \ {p} : job'[q] = job[q]
  BY <1>1
<1>3. \A q \in Writer : Secret!FitsPlan(job'[q])
  BY <1>1, <1>2 DEF Secret!JobsFit
<1>4. ASSUME Secret!Changing(p)', job'[p].alone
      PROVE  Secret!KnowsStored(p)' /\ \A q \in Writer \ {p} : ~Secret!Changing(q)'
  BY <1>1, <1>2, <1>4 DEF Secret!JobsFit, Secret!Changing
<1>5. ASSUME NEW q \in Writer \ {p}, Secret!Changing(q)', job'[q].alone
      PROVE  Secret!KnowsStored(q)' /\ \A r \in Writer \ {q} : ~Secret!Changing(r)'
  <2>1. Secret!Changing(q) /\ job[q].alone /\ job'[q] = job[q]
    BY <1>2, <1>5 DEF Secret!Changing
  <2>2. Secret!KnowsStored(q) /\ \A r \in Writer \ {q} : ~Secret!Changing(r)
    BY <1>1, <2>1 DEF Secret!JobsFit
  <2>3. ~Secret!Changing(p) /\ UNCHANGED <<stored, chunk, unseen>>
    BY <2>2
  <2>4. \A r \in Writer \ {q} : ~Secret!Changing(r)'
    BY <1>2, <2>2, <2>3 DEF Secret!Changing
  <2>5. Secret!KnowsStored(q)'
    BY <2>1, <2>2, <2>3 DEF Secret!KnowsStored, Secret!Manifest, Secret!Op
  <2>6. QED
    BY <2>4, <2>5
<1>6. ASSUME NEW q \in Writer, Secret!Changing(q)', ~contended'
      PROVE  job'[q].alone
  <2>1. CASE contended' = contended
    BY <1>1, <1>2, <1>6, <2>1 DEF Secret!JobsFit, Secret!Changing
  <2>2. CASE Secret!Changing(p) /\ job[p].alone
    <3>1. \A r \in Writer \ {p} : ~Secret!Changing(r)
      BY <1>1, <2>2 DEF Secret!JobsFit
    <3>2. q = p
      BY <1>2, <1>6, <3>1 DEF Secret!Changing
    <3>3. QED
      BY <1>2, <1>6, <2>2, <3>2 DEF Secret!Changing
  <2>3. QED
    BY <2>1, <2>2
<1>7. QED
  BY <1>2, <1>3, <1>4, <1>5, <1>6 DEF Secret!JobsFit

\* A job is over.
LEMMA JobEnds ==
  ASSUME Records, Secret!StoreInv, NEW p \in Writer, job' = [job EXCEPT ![p] = Secret!Idle],
         UNCHANGED <<stored, chunk, torn, unseen, contended>>,
         littered' \in BOOLEAN, ~littered' => ~littered,
         littered' \/ job[p].kind \in {"read", "remove"} \/ job[p].todo = <<>>,
         result' \in [Writer -> {"none", "splice"}], Secret!NothingIsSpliced'
  PROVE  Secret!StoreInv'
<1>0. /\ stored \in Record \cup {None} /\ chunk \in [Secret!ChunkNames -> Record \cup {None}]
      /\ job \in [Writer -> JobRow] /\ torn \in BOOLEAN /\ unseen \in BOOLEAN /\ contended \in BOOLEAN
      /\ Secret!JobsFit /\ Secret!ChunksAreKept /\ Secret!RecordIsWhole
  BY StoreParts
<1>1. Secret!Idle \in JobRow /\ Secret!Idle.kind = "none" /\ Secret!FitsPlan(Secret!Idle)
  BY DEF Secret!Idle, JobRow, Secret!FitsPlan
<1>2. Secret!JobsFit' /\ job' \in [Writer -> JobRow]
  BY <1>1, OneJob
<1>3. job'[p].kind = "none" /\ \A q \in Writer \ {p} : job'[q] = job[q]
  BY <1>0, <1>1
<1>4. ASSUME ~littered', NEW n \in Secret!ChunkNames, chunk[n] # None
      PROVE  \/ /\ n[1] = stored
                /\ \A q \in Writer : job'[q].kind = "remove" => Secret!HasTodo(job'[q], Secret!Op("remove", n, FALSE))
             \/ \E q \in Writer : /\ job'[q].kind = "save" /\ Secret!HasTodo(job'[q], Secret!Manifest)
                                  /\ n[1] = job'[q].rec
             \/ \E q \in Writer : /\ job'[q].kind \in {"save", "clean"}
                                  /\ Secret!HasTodo(job'[q], Secret!Op("remove", n, TRUE))
  <2>1. ~littered
    BY <1>4
  <2>2. CASE /\ n[1] = stored
             /\ \A q \in Writer : job[q].kind = "remove" => Secret!HasTodo(job[q], Secret!Op("remove", n, FALSE))
    BY <1>3, <2>2
  <2>3. CASE job[p].todo = <<>>
    <3>1. \A o : ~Secret!HasTodo(job[p], o)
      BY <2>3 DEF Secret!HasTodo
    <3>2. QED
      BY <1>0, <1>3, <1>4, <2>1, <2>2, <3>1 DEF Secret!ChunksAreKept
  <2>4. CASE job[p].kind \in {"read", "remove"}
    BY <1>0, <1>3, <1>4, <2>1, <2>2, <2>4 DEF Secret!ChunksAreKept
  <2>5. QED
    BY <1>4, <2>3, <2>4
<1>5. Secret!ChunksAreKept'
  <2>1. /\ \A n \in Secret!ChunkNames : chunk[n] \in {None, n[1]}
        /\ contended \/ unseen => littered'
    BY <1>0 DEF Secret!ChunksAreKept
  <2>2. QED
    BY <1>4, <2>1 DEF Secret!ChunksAreKept, Secret!Op, Secret!Manifest, Secret!ChunkNames
<1>6. Secret!RecordIsWhole'
  BY <1>0 DEF Secret!RecordIsWhole, Secret!Whole, Secret!ChunkName
<1>7. QED
  BY <1>0, <1>2, <1>5, <1>6 DEF Secret!StoreInv, Secret!TypeOK, Secret!Results, JobRow

\* A job ends, and a reading gives what it found; or the process does.
LEMMA EndsKeepsStore ==
  ASSUME Records, Secret!StoreInv, NEW p \in Writer, Secret!Ends(p) \/ Secret!Crash(p)
  PROVE  Secret!StoreInv'
<1>0. /\ job \in [Writer -> JobRow] /\ result \in [Writer -> {"none", "splice"}] /\ littered \in BOOLEAN
      /\ Secret!NothingIsSpliced /\ Secret!JobsFit
  BY StoreParts
<1>1. CASE Secret!Ends(p)
  <2>1. ~(job[p].kind = "read" /\ Secret!Parsed(job[p]) = "splice")
    BY <1>0 DEF Secret!JobsFit, Secret!FitsPlan, Secret!Parsed
  <2>2. Secret!Parsed(job[p]) \in {"none", "splice"}
    BY DEF Secret!Parsed
  <2>3. result' \in [Writer -> {"none", "splice"}] /\ Secret!NothingIsSpliced'
    BY <1>0, <1>1, <2>1, <2>2 DEF Secret!Ends, Secret!NothingIsSpliced
  <2>4. QED
    BY <1>0, <1>1, <2>3, JobEnds DEF Secret!Ends
<1>2. CASE Secret!Crash(p)
  <2>1. /\ job' = [job EXCEPT ![p] = Secret!Idle] /\ littered' = (littered \/ job[p].kind \in {"save", "clean"})
        /\ UNCHANGED <<stored, chunk, result, torn, unseen, contended>> /\ job[p].kind # "none"
    BY <1>2 DEF Secret!Crash
  <2>2. littered' \in BOOLEAN /\ (~littered' => ~littered) /\ (littered' \/ job[p].kind \notin {"save", "clean"})
    BY <1>0, <2>1
  <2>3. job[p].kind \in {"none", "save", "remove", "read", "clean"}
    BY <1>0 DEF JobRow
  <2>4. Secret!NothingIsSpliced'
    BY <1>0, <2>1 DEF Secret!NothingIsSpliced
  <2>5. QED
    BY <1>0, <2>1, <2>2, <2>3, <2>4, JobEnds
<1>3. QED
  BY <1>1, <1>2

\* An operation of a reading.
LEMMA ReadingGoesOn ==
  ASSUME Records, Secret!StoreInv, NEW p \in Writer, job[p].kind = "read", Secret!Do(p)
  PROVE  Secret!StoreInv'
<1> DEFINE j == job[p]
           o == Head(j.todo)
           k == [j EXCEPT !.todo = Tail(j.todo), !.got = j.got \cup {chunk[o.name]}]
<1>0. /\ chunk \in [Secret!ChunkNames -> Record \cup {None}]
      /\ job \in [Writer -> JobRow] /\ j \in JobRow /\ Secret!JobsFit /\ Secret!FitsPlan(j)
      /\ result \in [Writer -> {"none", "splice"}] /\ Secret!ChunksAreKept /\ Secret!RecordIsWhole
      /\ Secret!NothingIsSpliced
  BY StoreParts DEF Secret!JobsFit
<1>1. j.todo # <<>>
  BY DEF Secret!Do
<1>2. /\ o \in Secret!Ops /\ o = j.todo[1] /\ 1 \in 1..Len(j.todo) /\ Tail(j.todo) \in Seq(Secret!Ops)
  BY <1>0, <1>1, RestOfPlan DEF JobRow
<1>3. o.do = "read" /\ o.name # None /\ o.name[1] = j.rec /\ o.name \in Secret!ChunkNames
  BY <1>0, <1>2 DEF Secret!FitsPlan, Secret!Ops
<1>4. chunk[o.name] \in {None, j.rec}
  BY <1>0, <1>3 DEF Secret!ChunksAreKept
<1>5. /\ k \in JobRow /\ k.kind = "read" /\ k.rec = j.rec /\ k.prev = j.prev /\ k.todo = Tail(j.todo)
      /\ k.got = j.got \cup {chunk[o.name]} /\ k.alone = j.alone
  BY <1>0, <1>2, <1>3 DEF JobRow
<1>6. k.got \subseteq {j.rec, None}
  BY <1>0, <1>4, <1>5 DEF Secret!FitsPlan
<1>7. /\ job' = [job EXCEPT ![p] = k]
      /\ UNCHANGED <<stored, chunk, torn, contended, unseen, result, littered>>
  BY <1>0, <1>1, <1>3, StoreParts DEF Secret!Do, Secret!Store, JobRow
<1> HIDE DEF k, o
<1>8. Secret!FitsPlan(k)
  BY <1>0, <1>1, <1>5, <1>6, PlanGoesOn
<1>9. Secret!JobsFit' /\ job' \in [Writer -> JobRow]
  BY <1>5, <1>7, <1>8, OneJob
<1>10. job'[p] = k /\ \A q \in Writer \ {p} : job'[q] = job[q]
  BY <1>0, <1>7
<1>11. ASSUME ~littered, NEW n \in Secret!ChunkNames, chunk[n] # None
       PROVE  \/ /\ n[1] = stored
                 /\ \A q \in Writer : job'[q].kind = "remove" => Secret!HasTodo(job'[q], Secret!Op("remove", n, FALSE))
              \/ \E q \in Writer : /\ job'[q].kind = "save" /\ Secret!HasTodo(job'[q], Secret!Manifest)
                                   /\ n[1] = job'[q].rec
              \/ \E q \in Writer : /\ job'[q].kind \in {"save", "clean"}
                                   /\ Secret!HasTodo(job'[q], Secret!Op("remove", n, TRUE))
  <2>1. CASE /\ n[1] = stored
             /\ \A q \in Writer : job[q].kind = "remove" => Secret!HasTodo(job[q], Secret!Op("remove", n, FALSE))
    BY <1>5, <1>10, <2>1
  <2>2. QED
    BY <1>0, <1>10, <1>11, <2>1 DEF Secret!ChunksAreKept
<1>12. Secret!ChunksAreKept'
  BY <1>0, <1>7, <1>11 DEF Secret!ChunksAreKept, Secret!Op, Secret!Manifest, Secret!ChunkNames
<1>13. Secret!RecordIsWhole' /\ Secret!NothingIsSpliced'
  BY <1>0, <1>7 DEF Secret!RecordIsWhole, Secret!Whole, Secret!ChunkName, Secret!NothingIsSpliced
<1>14. QED
  BY <1>0, <1>7, <1>9, <1>12, <1>13, StoreParts DEF Secret!StoreInv, Secret!TypeOK, Secret!Results, JobRow

\* What an operation of a job that changes the record makes of it.
LEMMA ChangeGoesOn ==
  ASSUME Records, Secret!StoreInv, NEW p \in Writer, Secret!Changing(p), Secret!Do(p)
  PROVE  LET j == job[p]
             o == Head(j.todo)
             k == [j EXCEPT !.todo = Tail(j.todo)] IN
         /\ j.todo # <<>> /\ o \in Secret!Ops /\ o = j.todo[1] /\ o.do \in {"write", "remove"}
         /\ o.do = "write" => j.kind = "save" /\ j.rec \in Record /\ (o.name # None => o.name[1] = j.rec)
         /\ k \in JobRow /\ k.kind = j.kind /\ k.rec = j.rec /\ k.prev = j.prev /\ k.todo = Tail(j.todo)
         /\ k.alone = j.alone /\ Secret!FitsPlan(k)
         /\ \A u : Secret!HasTodo(k, u) => Secret!HasTodo(j, u)
         /\ \A u : Secret!HasTodo(j, u) => u = o \/ Secret!HasTodo(k, u)
         /\ job' = [job EXCEPT ![p] = k] /\ Secret!Store(o, j.rec)
         /\ UNCHANGED <<result, littered>>
         /\ IF o.name = None
            THEN torn' = FALSE /\ contended' = (contended /\ ~j.alone) /\ unseen' = (unseen /\ ~j.alone)
            ELSE torn' = (torn \/ j.kind = "remove") /\ UNCHANGED <<contended, unseen>>
<1> DEFINE j == job[p]
           o == Head(j.todo)
           k == [j EXCEPT !.todo = Tail(j.todo)]
<1>0. /\ job \in [Writer -> JobRow] /\ j \in JobRow /\ Secret!JobsFit /\ Secret!FitsPlan(j)
      /\ contended \in BOOLEAN /\ unseen \in BOOLEAN /\ torn \in BOOLEAN
  BY StoreParts DEF Secret!JobsFit
<1>1. j.todo # <<>>
  BY DEF Secret!Do
<1>2. /\ o \in Secret!Ops /\ o = j.todo[1] /\ 1 \in 1..Len(j.todo) /\ Tail(j.todo) \in Seq(Secret!Ops)
  BY <1>0, <1>1, RestOfPlan DEF JobRow
<1>3. /\ o.do \in {"write", "remove"}
      /\ o.do = "write" => j.kind = "save" /\ j.rec \in Record /\ (o.name # None => o.name[1] = j.rec)
  BY <1>0, <1>2 DEF Secret!FitsPlan, Secret!Changing, JobRow
<1>4. /\ k \in JobRow /\ k.kind = j.kind /\ k.rec = j.rec /\ k.prev = j.prev /\ k.todo = Tail(j.todo)
      /\ k.alone = j.alone /\ k.got = j.got
  BY <1>0, <1>2 DEF JobRow
<1>5. /\ Secret!FitsPlan(k)
      /\ \A u : Secret!HasTodo(k, u) => Secret!HasTodo(j, u)
      /\ \A u : Secret!HasTodo(j, u) => u = o \/ Secret!HasTodo(k, u)
  <2>1. j.kind = "read" => FALSE
    BY DEF Secret!Changing
  <2> HIDE DEF k, j, o
  <2>2. QED
    BY <1>0, <1>1, <1>4, <2>1, PlanGoesOn DEF o
<1>6. job' = [job EXCEPT ![p] = k] /\ Secret!Store(o, j.rec) /\ UNCHANGED <<result, littered>>
  BY <1>0, <1>3 DEF Secret!Do, JobRow
<1>7. IF o.name = None
      THEN torn' = FALSE /\ contended' = (contended /\ ~j.alone) /\ unseen' = (unseen /\ ~j.alone)
      ELSE torn' = (torn \/ j.kind = "remove") /\ UNCHANGED <<contended, unseen>>
  <2> DEFINE whole == o.name = None /\ o.do \in {"write", "remove"}
  <2>1. /\ torn' = (~whole /\ (torn \/ j.kind = "remove"))
        /\ contended' = (contended /\ ~(whole /\ j.alone))
        /\ unseen' = (unseen /\ ~(whole /\ j.alone))
    BY DEF Secret!Do
  <2>2. whole <=> o.name = None
    BY <1>3
  <2>3. j.alone \in BOOLEAN /\ (torn \/ j.kind = "remove") \in BOOLEAN
    BY <1>0 DEF JobRow
  <2> HIDE DEF whole, o, j
  <2>4. QED
    BY <1>0, <2>1, <2>2, <2>3, Zenon
<1>8. QED
  BY <1>1, <1>2, <1>3, <1>4, <1>5, <1>6, <1>7

\* An operation of a job that is not alone: the record was contended, and stays so.
LEMMA ContendedGoesOn ==
  ASSUME Records, Secret!StoreInv, NEW p \in Writer, Secret!Changing(p), ~job[p].alone, Secret!Do(p)
  PROVE  Secret!StoreInv'
<1> DEFINE j == job[p]
           o == Head(j.todo)
           k == [j EXCEPT !.todo = Tail(j.todo)]
<1>0. /\ stored \in Record \cup {None} /\ chunk \in [Secret!ChunkNames -> Record \cup {None}]
      /\ job \in [Writer -> JobRow] /\ Secret!JobsFit /\ Secret!ChunksAreKept /\ Secret!NothingIsSpliced
      /\ contended = TRUE /\ littered = TRUE /\ unseen \in BOOLEAN /\ torn \in BOOLEAN
      /\ result \in [Writer -> {"none", "splice"}]
  BY StoreParts DEF Secret!JobsFit, Secret!ChunksAreKept
<1>1. /\ o \in Secret!Ops /\ o.do \in {"write", "remove"}
      /\ o.do = "write" => j.rec \in Record /\ (o.name # None => o.name[1] = j.rec)
      /\ k \in JobRow /\ k.kind = j.kind /\ k.alone = j.alone /\ Secret!FitsPlan(k)
      /\ job' = [job EXCEPT ![p] = k] /\ Secret!Store(o, j.rec) /\ UNCHANGED <<result, littered>>
  BY ChangeGoesOn
<1>2. IF o.name = None
      THEN torn' = FALSE /\ contended' = (contended /\ ~j.alone) /\ unseen' = (unseen /\ ~j.alone)
      ELSE torn' = (torn \/ j.kind = "remove") /\ UNCHANGED <<contended, unseen>>
  BY ChangeGoesOn
<1>3. contended' = TRUE /\ unseen' \in BOOLEAN /\ torn' \in BOOLEAN
  BY <1>0, <1>2
<1> HIDE DEF k, o
<1>4. Secret!JobsFit' /\ job' \in [Writer -> JobRow]
  BY <1>0, <1>1, <1>3, OneJob
<1>5. stored' \in Record \cup {None} /\ chunk' \in [Secret!ChunkNames -> Record \cup {None}]
  BY <1>0, <1>1 DEF Secret!Store, Secret!Ops
<1>6. Secret!ChunksAreKept'
  <2>1. ASSUME NEW n \in Secret!ChunkNames PROVE chunk'[n] \in {None, n[1]}
    <3>1. chunk[n] \in {None, n[1]}
      BY <1>0 DEF Secret!ChunksAreKept
    <3>2. QED
      BY <1>0, <1>1, <3>1 DEF Secret!Store, Secret!Ops
  <2>2. littered' = TRUE
    BY <1>0, <1>1
  <2>3. QED
    BY <2>1, <2>2 DEF Secret!ChunksAreKept, Secret!ChunkNames
<1>7. Secret!RecordIsWhole' /\ Secret!NothingIsSpliced'
  BY <1>0, <1>1, <1>3 DEF Secret!RecordIsWhole, Secret!NothingIsSpliced
<1>8. QED
  BY <1>0, <1>1, <1>3, <1>4, <1>5, <1>6, <1>7 DEF Secret!StoreInv, Secret!TypeOK, Secret!Results, JobRow

\* An operation of the only job that changes the record.
LEMMA AloneGoesOn ==
  ASSUME Records, Secret!StoreInv, NEW p \in Writer, Secret!Changing(p), job[p].alone, Secret!Do(p)
  PROVE  Secret!StoreInv'
<1> DEFINE j == job[p]
           o == Head(j.todo)
           k == [j EXCEPT !.todo = Tail(j.todo)]
           Removes(n) == Secret!Op("remove", n, TRUE)
           Writes(n) == Secret!Op("write", n, FALSE)
           M == Secret!Manifest
           Kept(n) == \/ n[1] = stored' /\ (k.kind = "remove" => Secret!HasTodo(k, Secret!Op("remove", n, FALSE)))
                      \/ k.kind = "save" /\ Secret!HasTodo(k, M) /\ n[1] = k.rec
                      \/ k.kind \in {"save", "clean"} /\ Secret!HasTodo(k, Removes(n))
<1>0. /\ stored \in Record \cup {None} /\ chunk \in [Secret!ChunkNames -> Record \cup {None}]
      /\ job \in [Writer -> JobRow] /\ Secret!JobsFit /\ Secret!ChunksAreKept /\ Secret!NothingIsSpliced
      /\ contended \in BOOLEAN /\ littered \in BOOLEAN /\ unseen \in BOOLEAN /\ torn \in BOOLEAN
      /\ result \in [Writer -> {"none", "splice"}] /\ Secret!RecordIsWhole
  BY StoreParts
<1>1. /\ j.todo # <<>> /\ o \in Secret!Ops /\ o = j.todo[1] /\ o.do \in {"write", "remove"}
      /\ o.do = "write" => j.kind = "save" /\ j.rec \in Record /\ (o.name # None => o.name[1] = j.rec)
      /\ k \in JobRow /\ k.kind = j.kind /\ k.rec = j.rec /\ k.prev = j.prev /\ k.todo = Tail(j.todo)
      /\ k.alone = j.alone /\ Secret!FitsPlan(k)
      /\ job' = [job EXCEPT ![p] = k] /\ Secret!Store(o, j.rec) /\ UNCHANGED <<result, littered>>
  BY ChangeGoesOn
<1>2. /\ \A u : Secret!HasTodo(k, u) => Secret!HasTodo(j, u)
      /\ \A u : Secret!HasTodo(j, u) => u = o \/ Secret!HasTodo(k, u)
  BY ChangeGoesOn
<1>3. IF o.name = None
      THEN torn' = FALSE /\ contended' = (contended /\ ~j.alone) /\ unseen' = (unseen /\ ~j.alone)
      ELSE torn' = (torn \/ j.kind = "remove") /\ UNCHANGED <<contended, unseen>>
  BY ChangeGoesOn
<1>4. IF o.name = None
      THEN torn' = FALSE /\ contended' = FALSE /\ unseen' = FALSE
      ELSE torn' = (torn \/ j.kind = "remove") /\ UNCHANGED <<contended, unseen>>
  BY <1>0, <1>3
<1>5. /\ Secret!KnowsStored(p) /\ Secret!FitsPlan(j) /\ j.kind \in {"save", "remove", "clean"} /\ j \in JobRow
      /\ \A q \in Writer \ {p} : job[q].kind \notin {"save", "remove", "clean"}
      /\ job'[p] = k /\ \A q \in Writer \ {p} : job'[q] = job[q]
  BY <1>0, <1>1 DEF Secret!JobsFit, Secret!Changing
<1>6. /\ 1 \in 1..Len(j.todo) /\ j.todo \in Seq(Secret!Ops)
      /\ Len(k.todo) = Len(j.todo) - 1 /\ \A i \in 1..Len(k.todo) : k.todo[i] = j.todo[i + 1]
  BY <1>1, <1>5, RestOfPlan DEF JobRow
<1>7. \A n : /\ Removes(n).do = "remove" /\ Removes(n).name = n /\ Writes(n).do = "write" /\ Writes(n).name = n
             /\ Secret!Op("remove", n, FALSE).name = n /\ Secret!Op("remove", n, FALSE).do = "remove"
             /\ M.do = "write" /\ M.name = None
  BY DEF Secret!Op, Secret!Manifest
<1> HIDE DEF k, o, Removes, Writes, M
<1>8. stored' \in Record \cup {None} /\ chunk' \in [Secret!ChunkNames -> Record \cup {None}]
  BY <1>0, <1>1 DEF Secret!Store, Secret!Ops
<1>9. torn' \in BOOLEAN /\ contended' \in BOOLEAN /\ unseen' \in BOOLEAN /\ (~unseen => ~unseen')
  BY <1>0, <1>4
<1>16. /\ \A n \in Secret!ChunkNames : chunk[n] \in {None, n[1]}
       /\ ~littered => ~contended /\ ~unseen
  BY <1>0 DEF Secret!ChunksAreKept
<1>17. /\ j.kind = "save" =>
            IF Secret!HasTodo(j, M)
            THEN /\ j.prev = stored \/ unseen
                 /\ \A n \in Secret!ChunkNames : n[1] = j.rec => chunk[n] = j.rec \/ Secret!HasTodo(j, Writes(n))
            ELSE stored = j.rec
       /\ j.kind = "clean" => j.prev = stored \/ unseen
  BY <1>5 DEF Secret!KnowsStored, M, Writes
<1>18. stored # None /\ ~torn /\ ~contended /\ ~unseen =>
         \A n \in Secret!ChunkNames : n[1] = stored => chunk[n] = stored
  BY <1>0, NamesAreNumbered DEF Secret!RecordIsWhole, Secret!Whole, Secret!ChunkName
<1>19. ASSUME ~littered, NEW n \in Secret!ChunkNames, chunk[n] # None
       PROVE  \/ n[1] = stored /\ (j.kind = "remove" => Secret!HasTodo(j, Secret!Op("remove", n, FALSE)))
              \/ j.kind = "save" /\ Secret!HasTodo(j, M) /\ n[1] = j.rec
              \/ j.kind \in {"save", "clean"} /\ Secret!HasTodo(j, Removes(n))
  BY <1>0, <1>5, <1>19 DEF Secret!ChunksAreKept, M, Removes
<1>20. /\ o.name # None => o.name \in Secret!ChunkNames
       /\ stored' = IF o.name # None THEN stored ELSE IF o.do = "write" THEN j.rec ELSE None
       /\ chunk' = IF o.name = None THEN chunk ELSE [chunk EXCEPT ![o.name] = IF o.do = "write" THEN j.rec ELSE None]
  BY <1>1 DEF Secret!Store, Secret!Ops
<1>21. j.kind = "save" /\ (o.name = None \/ o.do = "remove") => \A u : Secret!HasTodo(k, u) => u.do = "remove"
  <2> SUFFICES ASSUME j.kind = "save", o.name = None \/ o.do = "remove", NEW u, Secret!HasTodo(k, u)
               PROVE  u.do = "remove"
    OBVIOUS
  <2>1. PICK i \in 1..Len(k.todo) : k.todo[i] = u
    BY DEF Secret!HasTodo
  <2>2. i + 1 \in 1..Len(j.todo) /\ 1 \in 1..(i + 1) - 1 /\ j.todo[i + 1] = u
    BY <1>6, <2>1
  <2>3. QED
    BY <1>1, <1>5, <2>2 DEF Secret!FitsPlan
<1> DEFINE Goal ==
       /\ k.kind = "save" =>
            IF Secret!HasTodo(k, M)
            THEN /\ k.prev = stored' \/ unseen'
                 /\ \A n \in Secret!ChunkNames : n[1] = k.rec => chunk'[n] = k.rec \/ Secret!HasTodo(k, Writes(n))
            ELSE stored' = k.rec
       /\ k.kind = "clean" => k.prev = stored' \/ unseen'
       /\ stored' # None /\ ~torn' /\ ~contended' /\ ~unseen' =>
            \A n \in Secret!ChunkNames : n[1] = stored' => chunk'[n] = stored'
       /\ \A n \in Secret!ChunkNames : chunk'[n] \in {None, n[1]}
       /\ ~littered => \A n \in Secret!ChunkNames : chunk'[n] # None => Kept(n)
\* A chunk is written.
<1>22. ASSUME o.do = "write", o.name # None PROVE Goal
  <2>1. /\ j.kind = "save" /\ j.rec \in Record /\ o.name[1] = j.rec /\ o.name \in Secret!ChunkNames
        /\ Secret!HasTodo(j, M) /\ stored' = stored /\ chunk' = [chunk EXCEPT ![o.name] = j.rec]
        /\ UNCHANGED <<contended, unseen>> /\ torn' = torn
    BY <1>0, <1>1, <1>4, <1>5, <1>6, <1>20, <1>22 DEF Secret!FitsPlan, M
  <2>2. Secret!HasTodo(k, M)
    BY <1>2, <1>7, <1>22, <2>1
  <2>3. \A n \in Secret!ChunkNames : chunk'[n] = IF n = o.name THEN j.rec ELSE chunk[n]
    BY <1>0, <2>1
  <2>4. ASSUME NEW n \in Secret!ChunkNames, n[1] = j.rec PROVE chunk'[n] = j.rec \/ Secret!HasTodo(k, Writes(n))
    BY <1>2, <1>7, <1>17, <2>1, <2>3, <2>4
  <2>5. ASSUME ~littered, NEW n \in Secret!ChunkNames, chunk'[n] # None PROVE Kept(n)
    <3>1. CASE n = o.name
      BY <1>1, <2>1, <2>2, <3>1
    <3>2. CASE n # o.name
      <4>1. Secret!HasTodo(j, Removes(n)) => Secret!HasTodo(k, Removes(n))
        BY <1>2, <1>7, <1>22
      <4>2. chunk[n] # None
        BY <2>3, <2>5, <3>2
      <4>3. QED
        BY <1>1, <1>19, <2>1, <2>2, <2>5, <4>1, <4>2
    <3>3. QED
      BY <3>1, <3>2
  <2> HIDE DEF Kept
  <2>6. stored' # None /\ ~torn' /\ ~contended' /\ ~unseen' =>
          \A n \in Secret!ChunkNames : n[1] = stored' => chunk'[n] = stored'
    BY <1>18, <2>1, <2>3
  <2>7. \A n \in Secret!ChunkNames : chunk'[n] \in {None, n[1]}
    BY <1>16, <2>1, <2>3
  <2>8. k.prev = stored' \/ unseen'
    BY <1>1, <1>17, <2>1
  <2>9. QED
    BY <1>1, <2>1, <2>2, <2>4, <2>5, <2>6, <2>7, <2>8
\* The manifest is.
<1>23. ASSUME o.do = "write", o.name = None PROVE Goal
  <2>1. /\ j.kind = "save" /\ j.rec \in Record /\ stored' = j.rec /\ chunk' = chunk
        /\ ~contended' /\ ~unseen' /\ Secret!HasTodo(j, M)
    BY <1>1, <1>4, <1>5, <1>6, <1>20, <1>23 DEF Secret!FitsPlan, M
  <2>2. ~Secret!HasTodo(k, M) /\ \A n : ~Secret!HasTodo(k, Writes(n))
    BY <1>7, <1>21, <1>23, <2>1
  <2>3. \A n \in Secret!ChunkNames : n # None
    BY DEF Records
  <2>4. \A n \in Secret!ChunkNames : n[1] = j.rec => chunk[n] = j.rec
    BY <1>2, <1>7, <1>17, <1>23, <2>1, <2>2, <2>3
  <2>5. ASSUME ~littered, NEW n \in Secret!ChunkNames, chunk[n] # None PROVE Kept(n)
    <3>1. Secret!HasTodo(j, Removes(n)) => Secret!HasTodo(k, Removes(n))
      BY <1>2, <1>7, <1>23
    <3>2. n[1] = stored => n[1] = j.rec \/ Secret!HasTodo(j, Removes(n))
      BY <1>5, <1>16, <1>17, <2>1, <2>5 DEF Secret!FitsPlan, M, Removes
    <3>3. QED
      BY <1>1, <1>19, <2>1, <2>5, <3>1, <3>2
  <2> HIDE DEF Kept
  <2>6. QED
    BY <1>1, <1>16, <2>1, <2>2, <2>4, <2>5
\* A chunk is removed.
<1>24. ASSUME o.do = "remove", o.name # None PROVE Goal
  <2>1. /\ o.name \in Secret!ChunkNames /\ stored' = stored /\ UNCHANGED <<contended, unseen>>
        /\ torn' = (torn \/ j.kind = "remove")
        /\ \A n \in Secret!ChunkNames : chunk'[n] = IF n = o.name THEN None ELSE chunk[n]
    BY <1>0, <1>4, <1>20, <1>24
  <2>2. \A n \in Secret!ChunkNames : chunk'[n] \in {None, n[1]}
    BY <1>16, <2>1
  <2>3. j.kind = "save" => /\ ~Secret!HasTodo(j, M) /\ ~Secret!HasTodo(k, M) /\ stored = j.rec
                           /\ o.name[1] = j.prev /\ j.prev # j.rec
    <3> SUFFICES ASSUME j.kind = "save"
                 PROVE  /\ ~Secret!HasTodo(j, M) /\ ~Secret!HasTodo(k, M) /\ stored = j.rec
                        /\ o.name[1] = j.prev /\ j.prev # j.rec
      OBVIOUS
    <3>1. ~Secret!HasTodo(k, M) /\ o # M
      BY <1>7, <1>21, <1>24
    <3>2. ~Secret!HasTodo(j, M)
      BY <1>2, <3>1
    <3>3. o.name[1] = j.prev /\ j.prev # j.rec
      BY <1>1, <1>5, <1>6, <1>24 DEF Secret!FitsPlan
    <3>4. QED
      BY <1>17, <3>1, <3>2, <3>3
  <2>4. j.kind = "clean" => o.name[1] = j.rec /\ j.prev # j.rec /\ (j.prev = stored \/ unseen)
    BY <1>1, <1>5, <1>6, <1>17 DEF Secret!FitsPlan
  <2>5. stored' # None /\ ~torn' /\ ~contended' /\ ~unseen' =>
          \A n \in Secret!ChunkNames : n[1] = stored' => chunk'[n] = stored'
    BY <1>5, <1>18, <2>1, <2>3, <2>4
  <2>6. ASSUME ~littered, NEW n \in Secret!ChunkNames, chunk'[n] # None PROVE Kept(n)
    <3>1. n # o.name /\ chunk[n] # None
      BY <2>1, <2>6
    <3>2. /\ Secret!HasTodo(j, Removes(n)) => Secret!HasTodo(k, Removes(n))
          /\ Secret!HasTodo(j, Secret!Op("remove", n, FALSE)) => Secret!HasTodo(k, Secret!Op("remove", n, FALSE))
      BY <1>2, <1>7, <3>1
    <3>3. QED
      BY <1>1, <1>19, <2>1, <2>3, <2>6, <3>1, <3>2
  <2> HIDE DEF Kept
  <2>7. QED
    BY <1>1, <2>1, <2>2, <2>3, <2>4, <2>5, <2>6
\* The entry is.
<1>25. ASSUME o.do = "remove", o.name = None PROVE Goal
  <2>1. j.kind = "remove" /\ stored' = None /\ chunk' = chunk
    BY <1>1, <1>5, <1>6, <1>20, <1>25 DEF Secret!FitsPlan
  <2>2. \A u : ~Secret!HasTodo(k, u)
    <3> SUFFICES ASSUME NEW u, Secret!HasTodo(k, u) PROVE FALSE
      OBVIOUS
    <3>1. PICK i \in 1..Len(k.todo) : k.todo[i] = u
      BY DEF Secret!HasTodo
    <3>2. i + 1 \in 1..Len(j.todo) /\ 1 \in 1..(i + 1) - 1
      BY <1>6, <3>1
    <3>3. QED
      BY <1>1, <1>5, <1>25, <2>1, <3>2 DEF Secret!FitsPlan
  <2>3. ASSUME ~littered, NEW n \in Secret!ChunkNames, chunk[n] # None PROVE FALSE
    <3>1. Secret!HasTodo(j, Secret!Op("remove", n, FALSE))
      BY <1>19, <2>1, <2>3
    <3>2. n # None
      BY DEF Records
    <3>3. QED
      BY <1>2, <1>7, <1>25, <2>2, <3>1, <3>2
  <2> HIDE DEF Kept
  <2>4. QED
    BY <1>1, <1>16, <2>1, <2>3
<1>10. Goal
  <2> HIDE DEF Goal
  <2>1. QED
    BY <1>1, <1>22, <1>23, <1>24, <1>25
<1>11. Secret!KnowsStored(p)'
  BY <1>5, <1>10 DEF Secret!KnowsStored, Secret!Op, Secret!Manifest, Writes, M, Secret!ChunkNames
<1>12. Secret!JobsFit' /\ job' \in [Writer -> JobRow]
  BY <1>1, <1>4, <1>11, OneJob
<1>13. Secret!ChunksAreKept'
  <2>1. contended' \/ unseen' => littered'
    BY <1>0, <1>1, <1>4, <1>16
  <2>2. ASSUME ~littered', NEW n \in Secret!ChunkNames, chunk'[n] # None
        PROVE  \/ /\ n[1] = stored'
                  /\ \A q \in Writer : job'[q].kind = "remove" => Secret!HasTodo(job'[q], Secret!Op("remove", n, FALSE))
               \/ \E q \in Writer : /\ job'[q].kind = "save" /\ Secret!HasTodo(job'[q], M)
                                    /\ n[1] = job'[q].rec
               \/ \E q \in Writer : /\ job'[q].kind \in {"save", "clean"}
                                    /\ Secret!HasTodo(job'[q], Removes(n))
    <3>1. Kept(n)
      BY <1>1, <1>10, <2>2
    <3>2. QED
      BY <1>5, <3>1
  <2>3. QED
    BY <1>10, <2>1, <2>2 DEF Secret!ChunksAreKept, Secret!Op, Secret!Manifest, Secret!ChunkNames, M, Removes
<1>14. Secret!RecordIsWhole' /\ Secret!NothingIsSpliced'
  <2>1. \A i \in 1..Parts : \A rec \in Long : <<rec, i>> \in Secret!ChunkNames /\ <<rec, i>>[1] = rec
    BY DEF Secret!ChunkNames
  <2>2. Secret!RecordIsWhole'
    BY <1>10, <2>1 DEF Secret!RecordIsWhole, Secret!Whole, Secret!ChunkName
  <2>3. QED
    BY <1>0, <1>1, <2>2 DEF Secret!NothingIsSpliced
<1>15. QED
  BY <1>0, <1>1, <1>8, <1>9, <1>12, <1>13, <1>14 DEF Secret!StoreInv, Secret!TypeOK, Secret!Results, JobRow

\* An operation of a save fails before the manifest is written: its chunks are to be removed.
LEMMA SaveGivesUp ==
  ASSUME Records, Secret!StoreInv, NEW p \in Writer, job[p].kind = "save", job[p].todo # <<>>,
         ~Head(job[p].todo).tolerant, Secret!Fails(p)
  PROVE  Secret!StoreInv'
<1> DEFINE j == job[p]
           o == Head(j.todo)
           todo == Secret!CleanUp(j.prev, j.rec)
           k == [j EXCEPT !.kind = "clean", !.todo = todo]
           M == Secret!Manifest
           Removes(n) == Secret!Op("remove", n, TRUE)
<1>0. /\ stored \in Record \cup {None} /\ chunk \in [Secret!ChunkNames -> Record \cup {None}]
      /\ job \in [Writer -> JobRow] /\ j \in JobRow /\ Secret!JobsFit /\ Secret!FitsPlan(j)
      /\ Secret!ChunksAreKept /\ Secret!RecordIsWhole /\ Secret!NothingIsSpliced
      /\ contended \in BOOLEAN /\ littered \in BOOLEAN /\ unseen \in BOOLEAN /\ torn \in BOOLEAN
      /\ result \in [Writer -> {"none", "splice"}]
  BY StoreParts DEF Secret!JobsFit
<1>1. /\ job' = [job EXCEPT ![p] = k] /\ UNCHANGED <<stored, chunk, torn, unseen, contended, result, littered>>
  BY <1>0 DEF Secret!Fails, JobRow
<1>2. o \in Secret!Ops /\ o = j.todo[1] /\ 1 \in 1..Len(j.todo)
  BY <1>0, RestOfPlan DEF JobRow
<1>3. Secret!HasTodo(j, M)
  BY <1>0, <1>2 DEF Secret!FitsPlan, M
<1>4. IF j.prev = j.rec THEN todo = <<>> ELSE InTurn(todo, j.rec, "remove", TRUE)
  <2>1. InTurn(Secret!ForChunks(j.rec, "remove", TRUE), j.rec, "remove", TRUE)
    BY <1>0, ChunksInTurn DEF JobRow
  <2>2. todo = IF j.prev = j.rec THEN <<>> ELSE Secret!ForChunks(j.rec, "remove", TRUE)
    BY DEF Secret!CleanUp
  <2> HIDE DEF todo
  <2>3. QED
    BY <2>1, <2>2
<1> HIDE DEF todo
<1>5. todo \in Seq(Secret!Ops)
  <2>1. <<>> \in Seq(Secret!Ops)
    OBVIOUS
  <2>2. QED
    BY <1>4, <2>1 DEF InTurn
<1>6. /\ k \in JobRow /\ k.kind = "clean" /\ k.rec = j.rec /\ k.prev = j.prev /\ k.todo = todo /\ k.alone = j.alone
  BY <1>0, <1>5 DEF JobRow
<1> HIDE DEF k, o
<1>7. Secret!FitsPlan(k)
  <2>1. CASE j.prev = j.rec
    BY <1>4, <1>6, <2>1 DEF Secret!FitsPlan
  <2>2. CASE j.prev # j.rec
    BY <1>4, <1>6, <2>2 DEF Secret!FitsPlan, InTurn
  <2>3. QED
    BY <2>1, <2>2
<1>8. j.prev # j.rec => \A n \in Secret!ChunkNames : n[1] = j.rec => Secret!HasTodo(k, Removes(n))
  BY <1>4, <1>6 DEF InTurn, Secret!HasTodo
<1>9. j.alone => j.prev = stored \/ unseen
  BY <1>0, <1>3 DEF Secret!JobsFit, Secret!KnowsStored, Secret!Changing
<1>10. job'[p] = k /\ \A q \in Writer \ {p} : job'[q] = job[q]
  BY <1>0, <1>1
<1>11. k.alone => Secret!KnowsStored(p)'
  BY <1>1, <1>6, <1>9, <1>10 DEF Secret!KnowsStored
<1>12. Secret!JobsFit' /\ job' \in [Writer -> JobRow]
  BY <1>1, <1>6, <1>7, <1>11, OneJob DEF Secret!Changing
<1>13. ASSUME ~littered, NEW n \in Secret!ChunkNames, chunk[n] # None
       PROVE  n[1] = stored \/ Secret!HasTodo(k, Removes(n))
  <2>1. j.alone /\ ~unseen /\ j.prev = stored /\ \A q \in Writer \ {p} : job[q].kind \notin {"save", "remove", "clean"}
    BY <1>0, <1>9, <1>13 DEF Secret!ChunksAreKept, Secret!JobsFit, Secret!Changing
  <2>2. n[1] = stored \/ n[1] = j.rec \/ Secret!HasTodo(j, Removes(n))
    BY <1>0, <1>13, <2>1 DEF Secret!ChunksAreKept, Removes
  <2>3. Secret!HasTodo(j, Removes(n)) => n[1] = stored
    <3> SUFFICES ASSUME Secret!HasTodo(j, Removes(n)) PROVE n[1] = stored
      OBVIOUS
    <3>1. PICK i \in 1..Len(j.todo) : j.todo[i] = Removes(n)
      BY DEF Secret!HasTodo
    <3>2. j.todo[i].do = "remove" /\ j.todo[i].name = n
      BY <3>1 DEF Secret!Op
    <3>3. QED
      BY <1>0, <2>1, <3>2 DEF Secret!FitsPlan
  <2>4. QED
    BY <1>8, <1>13, <2>1, <2>2, <2>3
<1>14. Secret!ChunksAreKept'
  <2>1. /\ \A n \in Secret!ChunkNames : chunk[n] \in {None, n[1]}
        /\ contended \/ unseen => littered
    BY <1>0 DEF Secret!ChunksAreKept
  <2>2. ASSUME ~littered, NEW n \in Secret!ChunkNames, chunk[n] # None
        PROVE  \/ /\ n[1] = stored
                  /\ \A q \in Writer : job'[q].kind = "remove" => Secret!HasTodo(job'[q], Secret!Op("remove", n, FALSE))
               \/ \E q \in Writer : /\ job'[q].kind = "save" /\ Secret!HasTodo(job'[q], M)
                                    /\ n[1] = job'[q].rec
               \/ \E q \in Writer : /\ job'[q].kind \in {"save", "clean"}
                                    /\ Secret!HasTodo(job'[q], Removes(n))
    <3>1. \A q \in Writer \ {p} : job[q].kind # "remove"
      BY <1>0, <2>2 DEF Secret!ChunksAreKept, Secret!JobsFit, Secret!Changing
    <3>2. QED
      BY <1>6, <1>10, <1>13, <2>2, <3>1
  <2>3. QED
    BY <1>1, <2>1, <2>2 DEF Secret!ChunksAreKept, Secret!Op, Secret!Manifest, Secret!ChunkNames, M, Removes
<1>15. Secret!RecordIsWhole' /\ Secret!NothingIsSpliced'
  BY <1>0, <1>1 DEF Secret!RecordIsWhole, Secret!Whole, Secret!ChunkName, Secret!NothingIsSpliced
<1>16. QED
  BY <1>0, <1>1, <1>12, <1>14, <1>15 DEF Secret!StoreInv, Secret!TypeOK, Secret!Results, JobRow

\* An operation fails.
LEMMA FailingKeepsStore ==
  ASSUME Records, Secret!StoreInv, NEW p \in Writer, Secret!Fails(p)
  PROVE  Secret!StoreInv'
<1>0. /\ job \in [Writer -> JobRow] /\ Secret!JobsFit /\ Secret!FitsPlan(job[p]) /\ Secret!NothingIsSpliced
      /\ result \in [Writer -> {"none", "splice"}] /\ littered \in BOOLEAN
  BY StoreParts DEF Secret!JobsFit
<1>1. job[p].todo # <<>> /\ UNCHANGED <<stored, chunk, torn, unseen, contended>>
  BY DEF Secret!Fails
<1> DEFINE o == Head(job[p].todo)
<1>2. o \in Secret!Ops /\ o = job[p].todo[1] /\ 1 \in 1..Len(job[p].todo)
  BY <1>0, <1>1, RestOfPlan DEF JobRow
<1>3. CASE o.tolerant
  <2>1. job' = [job EXCEPT ![p] = Secret!Idle] /\ littered' = TRUE /\ UNCHANGED result
    BY <1>3 DEF Secret!Fails
  <2>2. Secret!NothingIsSpliced'
    BY <1>0, <2>1 DEF Secret!NothingIsSpliced
  <2>3. QED
    BY <1>0, <1>1, <2>1, <2>2, JobEnds
<1>4. CASE ~o.tolerant /\ job[p].kind = "save"
  BY <1>1, <1>4, SaveGivesUp
<1>5. CASE ~o.tolerant /\ job[p].kind # "save"
  <2>1. job' = [job EXCEPT ![p] = Secret!Idle] /\ UNCHANGED <<result, littered>>
    BY <1>5 DEF Secret!Fails
  <2>2. job[p].kind \in {"read", "remove"}
    BY <1>0, <1>1, <1>2, <1>5 DEF JobRow, Secret!FitsPlan
  <2>3. Secret!NothingIsSpliced'
    BY <1>0, <2>1 DEF Secret!NothingIsSpliced
  <2>4. QED
    BY <1>0, <1>1, <2>1, <2>2, <2>3, JobEnds
<1>6. QED
  BY <1>3, <1>4, <1>5

\* The store starts empty, with nobody at it.
LEMMA StoreBegins ==
  ASSUME Records, Secret!Init
  PROVE  Secret!StoreInv
<1>1. Secret!Idle \in JobRow /\ Secret!Idle.kind = "none" /\ Secret!FitsPlan(Secret!Idle)
  BY DEF Secret!Idle, JobRow, Secret!FitsPlan
<1>2. job \in [Writer -> JobRow] /\ Secret!JobsFit
  BY <1>1 DEF Secret!Init, Secret!JobsFit, Secret!Changing
<1>3. Secret!ChunksAreKept /\ Secret!RecordIsWhole /\ Secret!NothingIsSpliced
  BY DEF Secret!Init, Secret!ChunksAreKept, Secret!RecordIsWhole, Secret!NothingIsSpliced
<1>4. QED
  BY <1>2, <1>3 DEF Secret!Init, Secret!StoreInv, Secret!TypeOK, Secret!Results, JobRow

\* An operation of a job.
LEMMA DoingKeepsStore ==
  ASSUME Records, Secret!StoreInv, NEW p \in Writer, Secret!Do(p)
  PROVE  Secret!StoreInv'
<1>0. job \in [Writer -> JobRow] /\ Secret!FitsPlan(job[p]) /\ job[p].todo # <<>>
  BY StoreParts DEF Secret!JobsFit, Secret!Do
<1>1. job[p].kind = "read" \/ Secret!Changing(p)
  BY <1>0 DEF JobRow, Secret!FitsPlan, Secret!Changing
<1>2. QED
  BY <1>1, ReadingGoesOn, ContendedGoesOn, AloneGoesOn

\* Every step keeps the store's invariant.
LEMMA StoreKeeps ==
  ASSUME Records, Secret!StoreInv, Secret!Next \/ UNCHANGED Secret!storeVars
  PROVE  Secret!StoreInv'
<1>1. ASSUME NEW p \in Writer, Secret!Remove(p) \/ Secret!Read(p) PROVE Secret!StoreInv'
  BY <1>1, RemoveBegins, ReadBegins
<1>2. ASSUME NEW p \in Writer, Secret!Do(p) PROVE Secret!StoreInv'
  BY <1>2, DoingKeepsStore
<1>3. ASSUME NEW p \in Writer, Secret!Fails(p) PROVE Secret!StoreInv'
  BY <1>3, FailingKeepsStore
<1>4. ASSUME NEW p \in Writer, Secret!Ends(p) \/ Secret!Crash(p) PROVE Secret!StoreInv'
  BY <1>4, EndsKeepsStore
<1>5. ASSUME NEW p \in Writer, NEW rec \in Record, Secret!Save(p, rec) PROVE Secret!StoreInv'
  BY <1>5, SaveBegins
<1>6. CASE UNCHANGED Secret!storeVars
  BY <1>6 DEF Secret!storeVars, Secret!StoreInv, Secret!TypeOK, Secret!JobsFit, Secret!ChunksAreKept,
              Secret!RecordIsWhole, Secret!NothingIsSpliced, Secret!Whole, Secret!ChunkName, Secret!KnowsStored,
              Secret!Changing, Secret!Results
<1>7. QED
  BY <1>1, <1>2, <1>3, <1>4, <1>5, <1>6 DEF Secret!Next

\* While nobody changes the record, the store holds nothing but its chunks.
LEMMA StoreIsClean ==
  ASSUME Secret!StoreInv
  PROVE  Secret!NothingIsLeft
BY StoreParts DEF Secret!ChunksAreKept, Secret!NothingIsLeft

-----------------------------------------------------------------------------
(* RequestHeaders *)

\* The command is a process, and the search makes one pass at least.
Processes == Root \in Pid /\ Stable \in Nat \ {0} /\ MaxPasses \in Nat

\* A process is below ps if it is in every set that has ps and, with a process, its children.
LEMMA BelowIsLeast ==
  ASSUME NEW ps \in SUBSET Pid, NEW C \in SUBSET Pid, ps \subseteq C, Tree!ClosedUnderChildren(C)
  PROVE  Tree!Below(ps) \subseteq C
BY DEF Tree!Below

\* Who is below ps but not in it is alive, and a child of one below is below.
LEMMA BelowIsClosed ==
  ASSUME NEW ps \in SUBSET Pid
  PROVE  /\ Tree!Below(ps) \in SUBSET Pid /\ ps \subseteq Tree!Below(ps)
         /\ Tree!ClosedUnderChildren(Tree!Below(ps))
         /\ \A q \in Tree!Below(ps) \ ps : Tree!Alive(q)
<1>1. Tree!Below(ps) \in SUBSET Pid /\ ps \subseteq Tree!Below(ps) /\ Tree!ClosedUnderChildren(Tree!Below(ps))
  BY DEF Tree!Below, Tree!ClosedUnderChildren
<1>2. Tree!ClosedUnderChildren(ps \cup {q \in Pid : Tree!Alive(q)})
  BY DEF Tree!ClosedUnderChildren
<1>3. Tree!Below(ps) \subseteq ps \cup {q \in Pid : Tree!Alive(q)}
  BY <1>2, BelowIsLeast
<1>4. QED
  BY <1>1, <1>3

\* Whom a reading of the process table finds is alive.
LEMMA DiscoveredIsAlive ==
  ASSUME Processes, Tree!TypeOK
  PROVE  /\ Tree!Discovered \in SUBSET Pid
         /\ \A p \in Tree!Discovered : Tree!Alive(p)
         /\ \A p \in Pid : Tree!Alive(p) /\ p \in marked => p \in Tree!Discovered
BY BelowIsClosed DEF Tree!Discovered, Tree!TypeOK, Processes

\* While the search is over and the found rest, no reading finds anybody new: who still runs is
\* neither marked nor below the command, and what he starts is not, either.
LEMMA NobodyNewIsFound ==
  ASSUME Processes, Tree!TreeInv, phase = "kills", UNCHANGED <<group, held>>,
         \/ \E p, q \in Pid : Tree!Fork(p, q)
         \/ \E p \in Pid : Tree!Exit(p)
  PROVE  Tree!Discovered' \subseteq group \cup held
<1>0. /\ life \in [Pid -> {"none", "runs", "frozen", "dead"}] /\ parent \in [Pid -> Pid] /\ marked \in SUBSET Pid
      /\ Tree!Discovered \subseteq group \cup held /\ Root \in group /\ Root \in Pid
      /\ \A p \in group \cup held : life[p] # "runs"
      /\ \A q \in Pid : life[q] = "none" => q \notin marked
  BY DEF Tree!TreeInv, Tree!TypeOK, Tree!NothingIsLeftRunning, Tree!TheHeldRest, Tree!NobodyIsEarly, Processes
<1>1. PICK B : B = Tree!Below({Root})
  OBVIOUS
<1>2. /\ B \in SUBSET Pid /\ Root \in B /\ Tree!ClosedUnderChildren(B)
      /\ B \ {Root} \subseteq Tree!Discovered
  BY <1>0, <1>1, BelowIsClosed DEF Tree!Discovered
<1>3. B \subseteq group \cup held /\ \A p \in Pid : Tree!Alive(p) /\ p \in marked => p \in group \cup held
  BY <1>0, <1>2 DEF Tree!Discovered
<1>4. /\ Tree!ClosedUnderChildren(B)'
      /\ \A r \in marked' : Tree!Alive(r)' => r \in marked /\ Tree!Alive(r)
  <2>1. ASSUME NEW p \in Pid, NEW q \in Pid, Tree!Fork(p, q)
        PROVE  /\ Tree!ClosedUnderChildren(B)'
               /\ \A r \in marked' : Tree!Alive(r)' => r \in marked /\ Tree!Alive(r)
    <3>1. /\ life[p] = "runs" /\ life[q] = "none" /\ life' = [life EXCEPT ![q] = "runs"]
          /\ parent' = [parent EXCEPT ![q] = p]
      BY <2>1 DEF Tree!Fork
    <3>2. p \notin group \cup held /\ p \notin marked /\ p \notin B
      BY <1>0, <1>3, <3>1 DEF Tree!Alive
    <3>3. marked' = marked
      BY <2>1, <3>2 DEF Tree!Fork
    <3>4. \A r \in Pid : Tree!Alive(r)' <=> r = q \/ Tree!Alive(r)
      BY <1>0, <3>1 DEF Tree!Alive
    <3>5. \A r \in Pid : parent'[r] \in B => r # q /\ parent[r] \in B
      BY <1>0, <3>1, <3>2
    <3>6. Tree!ClosedUnderChildren(B)'
      BY <1>2, <3>4, <3>5 DEF Tree!ClosedUnderChildren
    <3>7. QED
      BY <1>0, <3>1, <3>3, <3>4, <3>6
  <2>2. ASSUME NEW p \in Pid, Tree!Exit(p)
        PROVE  /\ Tree!ClosedUnderChildren(B)'
               /\ \A r \in marked' : Tree!Alive(r)' => r \in marked /\ Tree!Alive(r)
    <3>1. /\ life' = [life EXCEPT ![p] = "dead"] /\ marked' = marked
          /\ \A r \in Pid : parent'[r] = r \/ parent'[r] = parent[r]
      BY <2>2 DEF Tree!Exit
    <3>2. \A r \in Pid : Tree!Alive(r)' => Tree!Alive(r)
      BY <1>0, <3>1 DEF Tree!Alive
    <3>3. Tree!ClosedUnderChildren(B)'
      BY <1>2, <3>1, <3>2 DEF Tree!ClosedUnderChildren
    <3>4. QED
      BY <1>0, <3>1, <3>2, <3>3
  <2>3. QED
    BY <2>1, <2>2
<1>5. Tree!Below({Root})' \subseteq B
  BY <1>2, <1>4 DEF Tree!Below
<1>6. QED
  BY <1>0, <1>3, <1>4, <1>5 DEF Tree!Discovered

\* The types and what nobody knows early, for the steps of the processes.
LEMMA ProcessesKeep ==
  ASSUME Processes, Tree!TreeInv,
         \/ \E p, q \in Pid : Tree!Fork(p, q)
         \/ \E p \in Pid : Tree!Exit(p)
  PROVE  Tree!TreeInv'
<1>0. /\ Tree!TypeOK /\ Tree!NobodyIsEarly /\ Tree!TheHeldRest /\ Tree!NothingIsLeftRunning
      /\ UNCHANGED <<tracked, phase, found, held, stable, passes>>
  BY DEF Tree!TreeInv, Tree!Fork, Tree!Exit
<1> USE DEF Tree!TypeOK, Tree!NobodyIsEarly, Tree!TheHeldRest
<1> DEFINE Kept ==
      /\ Tree!TypeOK' /\ Tree!NobodyIsEarly'
      /\ phase # "runs" => UNCHANGED group /\ \A p \in group \cup held : life'[p] # "runs"
      /\ phase = "done" => \A p \in Pid : Tree!Alive(p)' => Tree!Lost(p)'
<1>1. Kept
  <2>1. ASSUME NEW p \in Pid, NEW q \in Pid, Tree!Fork(p, q)
        PROVE  Kept
    <3>1. /\ life[p] = "runs" /\ life[q] = "none" /\ life' = [life EXCEPT ![q] = "runs"]
          /\ parent' = [parent EXCEPT ![q] = p] /\ group \subseteq group' /\ group' \subseteq group \cup {q}
          /\ marked' \subseteq marked \cup {q}
          /\ p \notin group => group' = group
          /\ p \notin marked => marked' = marked
      BY <2>1 DEF Tree!Fork
    <3>2. Tree!TypeOK'
      BY <1>0, <3>1
    <3>3. Tree!NobodyIsEarly'
      BY <1>0, <3>1 DEF Processes
    <3>4. phase # "runs" => group' = group /\ \A r \in group \cup held : life'[r] # "runs"
      BY <1>0, <3>1
    <3>5. ASSUME phase = "done", NEW r \in Pid, Tree!Alive(r)' PROVE Tree!Lost(r)'
      <4>1. Tree!Lost(p)
        BY <1>0, <3>1, <3>5 DEF Tree!NothingIsLeftRunning, Tree!Alive
      <4>2. UNCHANGED <<group, marked, tracked>>
        BY <1>0, <3>1, <4>1 DEF Tree!Lost
      <4>3. r = q \/ Tree!Alive(r)
        BY <1>0, <3>1, <3>5 DEF Tree!Alive
      <4>4. Tree!Lost(r)
        BY <1>0, <3>1, <3>5, <4>3 DEF Tree!NothingIsLeftRunning, Tree!Lost
      <4>5. QED
        BY <4>2, <4>4 DEF Tree!Lost
    <3>6. QED
      BY <3>2, <3>3, <3>4, <3>5
  <2>2. ASSUME NEW p \in Pid, Tree!Exit(p)
        PROVE  Kept
    <3>1. /\ life[p] = "runs" /\ life' = [life EXCEPT ![p] = "dead"] /\ UNCHANGED <<group, marked, tracked, held>>
          /\ parent' = [q \in Pid |-> IF parent[q] = p THEN q ELSE parent[q]]
      BY <2>2 DEF Tree!Exit
    <3>2. Tree!TypeOK'
      BY <1>0, <3>1
    <3>3. Tree!NobodyIsEarly'
      BY <1>0, <3>1 DEF Processes
    <3>4. phase # "runs" => group' = group /\ \A r \in group \cup held : life'[r] # "runs"
      BY <1>0, <3>1
    <3>5. ASSUME phase = "done", NEW r \in Pid, Tree!Alive(r)' PROVE Tree!Lost(r)'
      BY <1>0, <3>1, <3>5 DEF Tree!NothingIsLeftRunning, Tree!Alive, Tree!Lost
    <3>6. QED
      BY <3>2, <3>3, <3>4, <3>5
  <2>3. QED
    <3> HIDE DEF Kept
    <3>1. QED
      BY <2>1, <2>2
<1>2. Tree!TheHeldRest'
  BY <1>0, <1>1
<1>3. phase = "kills" => Tree!Discovered' \subseteq group \cup held
  BY <1>0, <1>1, NobodyNewIsFound
<1>4. Tree!NothingIsLeftRunning'
  BY <1>0, <1>1, <1>3 DEF Tree!NothingIsLeftRunning
<1>5. QED
  BY <1>1, <1>2, <1>4 DEF Tree!TreeInv

\* What freezes does not run, and nobody starts or ends by it.
LEMMA FrozenRest ==
  ASSUME Tree!TypeOK, NEW ps \in SUBSET Pid
  PROVE  /\ Tree!Freeze(ps) \in [Pid -> {"none", "runs", "frozen", "dead"}]
         /\ \A p \in Pid : /\ Tree!Freeze(ps)[p] = "none" <=> life[p] = "none"
                           /\ Tree!Freeze(ps)[p] = "runs" => life[p] = "runs" /\ p \notin ps
BY DEF Tree!TypeOK, Tree!Freeze

\* The tracker, the freezing and the search.
LEMMA SearchKeeps ==
  ASSUME Processes, Tree!TreeInv, Tree!Track \/ Tree!Stop \/ Tree!Scan \/ Tree!Found
  PROVE  Tree!TreeInv'
<1>0. /\ Tree!TypeOK /\ Tree!NobodyIsEarly /\ Tree!TheHeldRest
      /\ Tree!Discovered \in SUBSET Pid /\ \A p \in Tree!Discovered : Tree!Alive(p)
  BY DiscoveredIsAlive DEF Tree!TreeInv
<1>1. CASE Tree!Track
  BY <1>0, <1>1 DEF Tree!Track, Tree!processes, Tree!TreeInv, Tree!TypeOK, Tree!NobodyIsEarly, Tree!TheHeldRest,
                    Tree!NothingIsLeftRunning, Tree!Alive
<1>2. CASE Tree!Stop
  <2>1. group \cup tracked \in SUBSET Pid
    BY <1>0 DEF Tree!TypeOK
  <2>2. Tree!TypeOK'
    BY <1>0, <1>2, <2>1, FrozenRest DEF Tree!Stop, Tree!TypeOK
  <2>3. Tree!NobodyIsEarly' /\ Tree!TheHeldRest'
    BY <1>0, <1>2, <2>1, FrozenRest DEF Tree!Stop, Tree!TypeOK, Tree!NobodyIsEarly, Tree!TheHeldRest, Processes
  <2>4. QED
    BY <1>2, <2>2, <2>3 DEF Tree!Stop, Tree!TreeInv, Tree!NothingIsLeftRunning
<1>3. CASE Tree!Scan
  <2>1. /\ phase = "scans" /\ passes < MaxPasses /\ passes' = passes + 1
        /\ found' = Tree!Discovered \ held /\ stable' = IF found' = {} THEN stable + 1 ELSE 0
        /\ phase' = IF found' # {} THEN "found" ELSE IF stable' = Stable THEN "kills" ELSE "scans"
        /\ UNCHANGED <<life, parent, group, marked, tracked, held>>
    BY <1>3 DEF Tree!Scan, Tree!processes
  <2>2. /\ stable' \in 0..Stable /\ passes' \in 0..MaxPasses
        /\ phase' \in {"found", "scans"} => stable' < Stable
    BY <1>0, <2>1 DEF Tree!TypeOK, Tree!TheHeldRest, Processes
  <2>3. Tree!TypeOK'
    BY <1>0, <2>1, <2>2 DEF Tree!TypeOK
  <2>4. Tree!NobodyIsEarly'
    BY <1>0, <2>1 DEF Tree!NobodyIsEarly, Tree!Alive
  <2>5. Tree!TheHeldRest'
    BY <1>0, <2>1, <2>2 DEF Tree!TheHeldRest
  <2>6. Tree!Discovered' = Tree!Discovered
    BY <2>1 DEF Tree!Discovered, Tree!Below, Tree!ClosedUnderChildren, Tree!Alive
  <2>7. Tree!NothingIsLeftRunning'
    BY <2>1, <2>6 DEF Tree!NothingIsLeftRunning
  <2>8. QED
    BY <2>3, <2>4, <2>5, <2>7 DEF Tree!TreeInv
<1>4. CASE Tree!Found
  <2>1. found \in SUBSET Pid
    BY <1>0 DEF Tree!TypeOK
  <2>2. Tree!TypeOK'
    BY <1>0, <1>4, <2>1, FrozenRest DEF Tree!Found, Tree!TypeOK
  <2>3. Tree!NobodyIsEarly' /\ Tree!TheHeldRest'
    BY <1>0, <1>4, <2>1, FrozenRest DEF Tree!Found, Tree!TypeOK, Tree!NobodyIsEarly, Tree!TheHeldRest, Processes
  <2>4. QED
    BY <1>4, <2>2, <2>3 DEF Tree!Found, Tree!TreeInv, Tree!NothingIsLeftRunning
<1>5. QED
  BY <1>1, <1>2, <1>3, <1>4

\* The group and who is held die.
LEMMA KillKeeps ==
  ASSUME Processes, Tree!TreeInv, Tree!Kill \/ Tree!GiveUp
  PROVE  Tree!TreeInv'
<1>0. /\ Tree!TypeOK /\ Tree!NobodyIsEarly /\ Tree!TheHeldRest /\ Tree!NothingIsLeftRunning
      /\ phase \in {"kills", "scans"} /\ phase' \in {"done", "failed"} /\ (phase' = "done" => phase = "kills")
  BY DEF Tree!TreeInv, Tree!Kill, Tree!GiveUp
<1>1. /\ life' = [p \in Pid |-> IF p \in group \cup held /\ Tree!Alive(p) THEN "dead" ELSE life[p]]
      /\ parent' = [q \in Pid |-> IF parent[q] \in group \cup held THEN q ELSE parent[q]]
      /\ UNCHANGED <<group, marked, tracked, found, held, stable, passes>>
  BY DEF Tree!Kill, Tree!GiveUp, Tree!Killed
<1>2. Tree!TypeOK'
  BY <1>0, <1>1 DEF Tree!TypeOK
<1>3. Tree!NobodyIsEarly'
  BY <1>0, <1>1 DEF Tree!TypeOK, Tree!NobodyIsEarly, Processes
<1>4. Tree!TheHeldRest'
  BY <1>0, <1>1 DEF Tree!TypeOK, Tree!TheHeldRest
<1>5. ASSUME phase = "kills", NEW p \in Pid, Tree!Alive(p)' PROVE Tree!Lost(p)'
  <2>1. Tree!Alive(p) /\ p \notin group \cup held
    BY <1>0, <1>1, <1>5 DEF Tree!TypeOK, Tree!Alive
  <2>2. p \notin marked
    BY <1>0, <1>5, <2>1, DiscoveredIsAlive DEF Tree!NothingIsLeftRunning
  <2>3. p \notin tracked
    BY <1>0, <2>1 DEF Tree!TheHeldRest
  <2>4. QED
    BY <1>1, <2>1, <2>2, <2>3 DEF Tree!Lost
<1>6. QED
  BY <1>0, <1>2, <1>3, <1>4, <1>5 DEF Tree!TreeInv, Tree!NothingIsLeftRunning

\* Only the command runs.
LEMMA TreeBegins == Processes /\ Tree!Init => Tree!TreeInv
BY DEF Processes, Tree!Init, Tree!TreeInv, Tree!TypeOK, Tree!NobodyIsEarly, Tree!TheHeldRest,
       Tree!NothingIsLeftRunning

\* So every step keeps TreeInv.
LEMMA TreeKeeps ==
  ASSUME Processes, Tree!TreeInv, Tree!Next \/ UNCHANGED tree
  PROVE  Tree!TreeInv'
<1>1. ASSUME UNCHANGED tree PROVE Tree!TreeInv'
  BY <1>1 DEF tree, Tree!TreeInv, Tree!TypeOK, Tree!NobodyIsEarly, Tree!TheHeldRest, Tree!NothingIsLeftRunning,
              Tree!Discovered, Tree!Below, Tree!ClosedUnderChildren, Tree!Alive, Tree!Lost
<1>2. QED
  BY <1>1, ProcessesKeep, SearchKeeps, KillKeeps DEF Tree!Next

-----------------------------------------------------------------------------
(* ConfigMerge: credentials *)

\* An entry whose credentials are given by who touched it, for its own URL.
SoundEntry(e) ==
  /\ e \in Merge!Entry
  /\ \A c \in Merge!Credentials : Merge!IsSecret(e[c]) => e[c].by \in e.touched /\ e[c].to \in {e.where, None}

\* What holds of an entry is said of three fields.
LEMMA SoundFields ==
  ASSUME NEW e \in Merge!Entry,
         \A c \in {e.headers, e.provider, e.oauth} :
           Merge!IsSecret(c) => c.by \in e.touched /\ c.to \in {e.where, None}
  PROVE  SoundEntry(e)
BY DEF SoundEntry, Merge!Credentials, Merge!Entry

\* Binding a credential keeps who gave it; it is for the URL it is bound to if it was for any.
LEMMA BoundStays ==
  ASSUME NEW c \in Merge!Credential, NEW url \in Url \cup {Merge!Local, None}
  PROVE  /\ Merge!BoundTo(url, c) \in Merge!Credential
         /\ Merge!IsSecret(Merge!BoundTo(url, c)) =>
              /\ Merge!IsSecret(c) /\ Merge!BoundTo(url, c).by = c.by
              /\ c.to \in {url, None} => Merge!BoundTo(url, c).to \in {url, None}
BY DEF Merge!Credential, Merge!BoundTo, Merge!IsSecret

\* Two sound entries merge to a sound one: what the lower one has for another URL is dropped.
LEMMA MergeIsSound ==
  ASSUME NEW base, NEW next, base # None => SoundEntry(base), next # None => SoundEntry(next),
         Merge!Merge(base, next) # None
  PROVE  SoundEntry(Merge!Merge(base, next))
<1>1. CASE base = None \/ next = None
  BY <1>1 DEF Merge!Merge
<1>2. CASE base # None /\ next # None
  <2> DEFINE part(c) == IF next[c] # None THEN next[c]
                         ELSE IF c \in Merge!Dropped(base, next) THEN None ELSE base[c]
             url == IF next.where = None THEN base.where ELSE next.where
             by == base.touched \cup next.touched
             e == [where |-> url, headers |-> part("headers"), provider |-> part("provider"),
                   oauth |-> part("oauth"), touched |-> by]
             m == [where |-> url, headers |-> Merge!BoundTo(url, part("headers")),
                   provider |-> Merge!BoundTo(url, part("provider")),
                   oauth |-> Merge!BoundTo(url, part("oauth")), touched |-> by]
  <2>0. SoundEntry(base) /\ SoundEntry(next)
    BY <1>2
  <2>1. Merge!Merge(base, next) = m
    BY <1>2 DEF Merge!Merge, Merge!Bound
  <2>2. /\ url \in Url \cup {Merge!Local, None} /\ by \subseteq Merge!Scope
        /\ base.where \in Url \cup {Merge!Local, None} /\ next.where \in Url \cup {Merge!Local, None}
    BY <2>0 DEF SoundEntry, Merge!Entry
  <2>3. ASSUME NEW c \in Merge!Credentials
        PROVE  /\ part(c) \in Merge!Credential
               /\ Merge!IsSecret(part(c)) => part(c).by \in by /\ part(c).to \in {url, None}
    <3>1. /\ next[c] \in Merge!Credential /\ base[c] \in Merge!Credential
          /\ Merge!IsSecret(next[c]) => next[c].by \in by /\ next[c].to \in {next.where, None}
          /\ Merge!IsSecret(base[c]) => base[c].by \in by /\ base[c].to \in {base.where, None}
      BY <2>0 DEF SoundEntry, Merge!Entry, Merge!Credentials
    <3>2. None \in Merge!Credential /\ ~Merge!IsSecret(None)
      BY DEF Merge!Credential, Merge!IsSecret
    <3>3. CASE next[c] # None
      BY <3>1, <3>3
    <3>4. CASE next[c] = None /\ c \in Merge!Dropped(base, next)
      BY <3>2, <3>4
    <3>5. CASE next[c] = None /\ c \notin Merge!Dropped(base, next)
      <4>1. Merge!IsSecret(base[c]) => base[c] # Merge!Off
        BY DEF Merge!IsSecret
      <4>2. Merge!IsSecret(base[c]) => url = base.where
        BY <2>2, <3>5, <4>1 DEF Merge!Dropped
      <4>3. QED
        BY <3>1, <3>5, <4>2
    <3>6. QED
      BY <3>3, <3>4, <3>5
  <2> HIDE DEF part, url, by
  <2>4. ASSUME NEW c \in Merge!Credentials
        PROVE  /\ Merge!BoundTo(url, part(c)) \in Merge!Credential
               /\ Merge!IsSecret(Merge!BoundTo(url, part(c))) =>
                    /\ Merge!BoundTo(url, part(c)).by \in by
                    /\ Merge!BoundTo(url, part(c)).to \in {url, None}
    BY <2>2, <2>3, BoundStays
  <2>5. /\ {"headers", "provider", "oauth"} = Merge!Credentials
        /\ m \in Merge!Entry
    BY <2>2, <2>4 DEF Merge!Credentials, Merge!Entry
  <2>6. SoundEntry(m)
    BY <2>4, <2>5, SoundFields
  <2>7. QED
    BY <2>1, <2>6
<1>3. QED
  BY <1>1, <1>2

\* What a file says is sound.
LEMMA SaidIsSound ==
  ASSUME NEW scope \in Merge!Scope, NEW e \in Merge!Said(scope)
  PROVE  SoundEntry(e)
<1>1. /\ e \in [where : Url \cup {Merge!Local, None}, headers : Merge!Secret(scope), provider : Merge!Secret(scope),
                oauth : Merge!Secret(scope) \cup {Merge!Off}, touched : {{scope}}]
  BY DEF Merge!Said
<1>2. Merge!Secret(scope) \subseteq Merge!Credential
  BY DEF Merge!Secret, Merge!Credential
<1>3. e \in Merge!Entry
  BY <1>1, <1>2 DEF Merge!Entry, Merge!Credential
<1>4. \A c \in Merge!Secret(scope) \cup {Merge!Off} : Merge!IsSecret(c) => c.by = scope /\ c.to = None
  BY DEF Merge!Secret, Merge!IsSecret
<1>5. QED
  BY <1>1, <1>3, <1>4, SoundFields

\* Where the merge stands, and that what it has is sound.
MergeSound ==
  /\ at \in 1..7 /\ gated \in BOOLEAN /\ plugins \in Merge!Scope \cup {None} /\ redefined \in BOOLEAN
  /\ merged # None => SoundEntry(merged)

\* So is what every step makes of it.
LEMMA SoundKeeps ==
  ASSUME MergeSound, None \notin Merge!Scope, Merge!Next \/ UNCHANGED merge
  PROVE  MergeSound'
<1>0. Len(Merge!Sources) = 5 /\ \A i \in 1..5 : Merge!Sources[i].scope \in Merge!Scope
  BY DEF Merge!Sources, Merge!Scope
<1>1. ASSUME NEW s \in Merge!Scope, NEW t \in Merge!Scope, NEW e \in Merge!Brief(s), NEW f \in Merge!Brief(t),
             Merge!Discover(e, f)
      PROVE  MergeSound'
  <2>1. (e # None => SoundEntry(e)) /\ (f # None => SoundEntry(f))
    BY SaidIsSound DEF Merge!Brief
  <2>2. merged' # None => SoundEntry(merged')
    BY <1>1, <2>1, MergeIsSound DEF Merge!Discover
  <2>3. at' \in 1..7 /\ gated' \in BOOLEAN /\ UNCHANGED <<plugins, redefined>>
    BY <1>1 DEF Merge!Discover
  <2>4. QED
    BY <2>2, <2>3 DEF MergeSound, SoundEntry
<1>2. ASSUME at \in 2..Len(Merge!Sources), NEW mine \in {None} \cup Merge!Said(Merge!Sources[at].scope),
             NEW t \in Merge!Scope, NEW paths \in BOOLEAN, NEW imported \in Merge!Brief(t),
             Merge!Read(mine, imported, paths)
      PROVE  MergeSound'
  <2> DEFINE said == IF Merge!Sources[at].of = "pi" THEN mine ELSE Merge!Merge(imported, mine)
  <2>1. (mine # None => SoundEntry(mine)) /\ (imported # None => SoundEntry(imported))
    BY <1>0, <1>2, SaidIsSound DEF Merge!Brief
  <2>2. said # None => SoundEntry(said)
    BY <2>1, MergeIsSound
  <2>3. merged' \in {merged, Merge!Merge(merged, said)}
    BY <1>2 DEF Merge!Read
  <2> HIDE DEF said
  <2>4. merged' # None => SoundEntry(merged')
    BY <2>2, <2>3, MergeIsSound DEF MergeSound
  <2>5. /\ at' \in 1..7 /\ gated' \in BOOLEAN /\ redefined' \in BOOLEAN /\ plugins' \in Merge!Scope \cup {None}
    BY <1>0, <1>2 DEF Merge!Read, MergeSound
  <2>6. QED
    BY <2>4, <2>5 DEF MergeSound, SoundEntry
<1>3. ASSUME NEW s \in Merge!Scope, NEW e \in Merge!Brief(IF plugins = None THEN "user" ELSE plugins),
             NEW f \in Merge!Brief(s), Merge!Complete(e, f)
      PROVE  MergeSound'
  <2> DEFINE below == IF e # None THEN e ELSE f
  <2>0. (IF plugins = None THEN "user" ELSE plugins) \in Merge!Scope
    BY DEF MergeSound, Merge!Scope
  <2>1. (e # None => SoundEntry(e)) /\ (f # None => SoundEntry(f))
    BY <2>0, SaidIsSound DEF Merge!Brief
  <2>2. merged' = None \/ merged' = Merge!Merge(below, merged)
    BY <1>3 DEF Merge!Complete
  <2>3. merged' # None => SoundEntry(merged')
    BY <2>1, <2>2, MergeIsSound DEF MergeSound
  <2>4. at' \in 1..7 /\ gated' \in BOOLEAN /\ UNCHANGED <<plugins, redefined>>
    <3> DEFINE theirs == \/ gated \/ (e # None /\ plugins = "project")
                         \/ (e = None /\ f # None /\ "project" \in f.touched)
    <3>1. theirs \in BOOLEAN /\ at = 6
      BY <1>0, <1>3 DEF Merge!Complete
    <3>2. gated' = FALSE \/ gated' = theirs
      BY <1>3 DEF Merge!Complete
    <3> HIDE DEF theirs
    <3>3. at' = at + 1 /\ UNCHANGED <<plugins, redefined>>
      BY <1>3 DEF Merge!Complete
    <3>4. gated' \in BOOLEAN
      BY <3>1, <3>2, Zenon
    <3>5. QED
      BY <3>1, <3>3, <3>4
  <2>5. QED
    BY <2>3, <2>4 DEF MergeSound, SoundEntry
<1>4. CASE UNCHANGED merge
  BY <1>4 DEF merge, MergeSound, SoundEntry
<1>5. QED
  BY <1>1, <1>2, <1>3, <1>4 DEF Merge!Next

\* Nothing is merged yet.
LEMMA SoundBegins == Merge!Init => MergeSound
<1> SUFFICES ASSUME Merge!Init PROVE MergeSound
  OBVIOUS
<1>1. at \in 1..7 /\ merged = None /\ plugins \in Merge!Scope \cup {None}
  BY DEF Merge!Init
<1>2. gated \in BOOLEAN /\ redefined \in BOOLEAN
  BY DEF Merge!Init
<1>3. QED
  BY <1>1, <1>2 DEF MergeSound

\* A sound entry is well typed, and keeps its credentials.
LEMMA SoundIsKept == MergeSound => Merge!TypeOK /\ Merge!CredentialsKeepTheirUrl
<1>1. Len(Merge!Sources) + 2 = 7
  BY DEF Merge!Sources
<1>2. QED
  BY <1>1 DEF MergeSound, SoundEntry, Merge!TypeOK, Merge!CredentialsKeepTheirUrl

-----------------------------------------------------------------------------
(* Tokens and headers *)

\* BearerInv holds in every behaviour, and less than a fresh token is given after an outage only.
LEMMA BearerInvariant ==
  ASSUME Tokens
  PROVE  Spec => []Bearer!BearerInv /\ Bearer!OnlyOutagesShow
<1>1. Init => Bearer!BearerInv
  BY BearerBegins DEF Init
<1>2. Bearer!BearerInv /\ [Next]_vars => Bearer!BearerInv'
  BY BearerKeeps DEF Next, vars
<1>3. Bearer!BearerInv /\ [Next]_vars
      => [\A a \in Asker :
            answer'[a] # answer[a] /\ answer'[a] \in {"old", "failed"} => failedFor' > 0]_Bearer!bearerVars
  BY OnlyOutages DEF Next, vars
<1>4. QED
  BY <1>1, <1>2, <1>3, PTL DEF Spec, Bearer!OnlyOutagesShow

\* The store's jobs follow their plans, and every chunk is somebody's.
LEMMA StoreInvariant ==
  ASSUME Records
  PROVE  Spec => []Secret!StoreInv
<1>1. Init => Secret!StoreInv
  BY StoreBegins DEF Init
<1>2. Secret!StoreInv /\ [Next]_vars => Secret!StoreInv'
  BY StoreKeeps DEF Next, vars, store, Secret!storeVars
<1>3. QED
  BY <1>1, <1>2, PTL DEF Spec

\* No process of the command escapes the search.
LEMMA TreeInvariant ==
  ASSUME Processes
  PROVE  Spec => []Tree!TreeInv
<1>1. Init => Tree!TreeInv
  BY TreeBegins DEF Init
<1>2. Tree!TreeInv /\ [Next]_vars => Tree!TreeInv'
  BY TreeKeeps DEF Next, vars
<1>3. QED
  BY <1>1, <1>2, PTL DEF Spec

\* What is merged is sound.
LEMMA CredentialsInvariant ==
  ASSUME None \notin Merge!Scope
  PROVE  Spec => []MergeSound
<1>1. Init => MergeSound
  BY SoundBegins DEF Init
<1>2. MergeSound /\ [Next]_vars => MergeSound'
  BY SoundKeeps DEF Next, vars
<1>3. QED
  BY <1>1, <1>2, PTL DEF Spec

\* A stored token is whole, is never read as parts of two and leaves nothing behind
\* (mcp-bearer-store.ts); the command that gives a token runs once for all who wait, hides no
\* outage (mcp-bearer-command.ts) and leaves nothing running (request-headers.ts); and a credential
\* goes to no other URL than the one it was given for (config.ts).
THEOREM SecretsKept ==
  ASSUME Tokens, Records, Processes, None \notin Merge!Scope
  PROVE  Spec => SecretsAreKept
<1>1. Bearer!BearerInv => (focus = "bearer" => Bearer!RunsAreShared)
  BY DEF Bearer!BearerInv
<1>2. Secret!StoreInv => (focus = "secret" => /\ Secret!RecordIsWhole /\ Secret!NothingIsSpliced
                                              /\ Secret!NothingIsLeft)
  BY StoreIsClean DEF Secret!StoreInv
<1>3. Tree!TreeInv => (focus = "tree" => Tree!NothingIsLeftRunning)
  BY DEF Tree!TreeInv
<1>4. MergeSound => (focus = "merge" => Merge!CredentialsKeepTheirUrl)
  BY SoundIsKept
<1>5. QED
  BY <1>1, <1>2, <1>3, <1>4, BearerInvariant, StoreInvariant, TreeInvariant, CredentialsInvariant, PTL
     DEF SecretsAreKept
==============================================================================
