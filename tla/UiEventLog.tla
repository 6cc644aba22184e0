------------------------------- MODULE UiEventLog -------------------------------
(***************************************************************************)
(* The events a UI server sends to its pages (ui-server.ts): each gets the *)
(* next id and goes to every page that is connected; the log that is kept  *)
(* for pages that connect later is cut at the latest checkpoint, then at   *)
(* MaxLog entries.                                                         *)
(***************************************************************************)
EXTENDS Naturals, SequencesExt

CONSTANTS Page, MaxLog, MaxEvents

VARIABLES
  nextEventId,  \* the id of the next event
  eventLog,     \* the ids in the log, oldest first
  checkpoint,   \* latestCheckpointEventId, 0 for none
  completed,    \* the session is over: nothing is logged any more
  sseClients,   \* pages that are connected
  lastId,       \* the last event a page got, 0 for none
  based         \* history: pages that have all events since the last checkpoint they got

vars == <<nextEventId, eventLog, checkpoint, completed, sseClients, lastId, based>>

TypeOK ==
  /\ nextEventId \in 1..MaxEvents + 1 /\ checkpoint \in 0..MaxEvents /\ completed \in BOOLEAN
  /\ eventLog \in Seq(1..MaxEvents) /\ Len(eventLog) <= MaxLog
  /\ sseClients \subseteq Page /\ based \subseteq Page /\ lastId \in [Page -> 0..MaxEvents]

Init ==
  /\ nextEventId = 1 /\ eventLog = <<>> /\ checkpoint = 0 /\ completed = FALSE
  /\ sseClients = {} /\ based = Page /\ lastId = [p \in Page |-> 0]

\* getLatestCheckpointIndex(), counted from 0, and -1 as 1 more than any index
NoIndex == MaxLog + 1
CheckpointIndex(log, cp) ==
  IF cp = 0 \/ log = <<>> \/ cp < log[1] THEN NoIndex ELSE cp - log[1]

Drop(log, n) == SubSeq(log, n + 1, Len(log))

\* MUTANT of Pruned: only what a checkpoint replaces is dropped.
PrunedToCheckpoint(log, cp) ==
  LET i == CheckpointIndex(log, cp) IN
    IF Len(log) > MaxLog /\ i # NoIndex /\ i > 0 THEN Drop(log, i) ELSE log

\* pruneEventLog()
Pruned(log, cp) ==
  IF Len(log) <= MaxLog THEN log
  ELSE LET i   == CheckpointIndex(log, cp)
           cut == IF i # NoIndex /\ i > 0 THEN Drop(log, i) ELSE log
       IN Drop(cut, IF Len(cut) > MaxLog THEN Len(cut) - MaxLog ELSE 0)

\* pushEvent(), with updateStreamSummary(); `isCheckpoint`: a checkpoint or a final frame
Logged(isCheckpoint) ==
  LET cp == IF isCheckpoint THEN nextEventId ELSE checkpoint IN
  /\ ~completed /\ nextEventId <= MaxEvents
  /\ nextEventId' = nextEventId + 1 /\ checkpoint' = cp
  /\ eventLog' = Pruned(Append(eventLog, nextEventId), cp)
  /\ lastId' = [p \in Page |-> IF p \in sseClients THEN nextEventId ELSE lastId[p]]
  /\ based' = IF isCheckpoint THEN based \cup sseClients ELSE based

Push == (\E isCheckpoint \in BOOLEAN : Logged(isCheckpoint)) /\ UNCHANGED <<completed, sseClients>>

\* markCompleted() logs its last event first.
Complete == Logged(FALSE) /\ completed' = TRUE /\ UNCHANGED sseClients

\* replayEvents(): what is sent of the log, in its order: the events after the id in the header,
\* or those from the latest checkpoint on
Replayed(p, known) ==
  IF known THEN {id \in Range(eventLog) : id > lastId[p]}
  ELSE LET i == CheckpointIndex(eventLog, checkpoint)
       IN Range(IF i # NoIndex THEN Drop(eventLog, i) ELSE eventLog)

\* A page connects: again with the id of its last event, or loaded anew without one.
Connect(p) ==
  /\ p \notin sseClients /\ sseClients' = sseClients \cup {p}
  /\ \E known \in BOOLEAN :
       /\ known => lastId[p] # 0
       /\ LET got  == Replayed(p, known)
              from == IF known THEN lastId[p] ELSE 0
              gapless == IF got = {} THEN from = nextEventId - 1 ELSE from + 1 \in got
          IN /\ lastId' = [lastId EXCEPT ![p] = IF got = {} THEN from ELSE Max(got)]
             /\ based' = IF \/ gapless /\ (known => p \in based)
                            \/ checkpoint # 0 /\ checkpoint \in got
                         THEN based \cup {p} ELSE based \ {p}
  /\ UNCHANGED <<nextEventId, eventLog, checkpoint, completed>>

Disconnect(p) ==
  /\ p \in sseClients /\ sseClients' = sseClients \ {p}
  /\ UNCHANGED <<nextEventId, eventLog, checkpoint, completed, lastId, based>>

Next == Push \/ Complete \/ \E p \in Page : Connect(p) \/ Disconnect(p)

Spec == Init /\ [][Next]_vars

-----------------------------------------------------------------------------
(* Properties *)

\* The log has no holes and ends with the latest event: the index of an id is computed from the
\* first one.
LogIsContiguous ==
  /\ \A i \in 1..Len(eventLog) : eventLog[i] = nextEventId - 1 - Len(eventLog) + i
  /\ nextEventId > 1 => eventLog # <<>>

\* A connected page is up to date, and has everything since a checkpoint or since the start unless
\* more than MaxLog events came after the latest one.
PagesAreBased ==
  \A p \in sseClients :
    /\ lastId[p] = nextEventId - 1
    /\ p \in based \/ eventLog[1] > checkpoint

\* A page that has seen the latest checkpoint has everything since, or the checkpoint has left the
\* log; a page that has not gets it when it connects.
SeenIsBased ==
  /\ checkpoint < nextEventId
  /\ \A p \in Page :
       /\ lastId[p] < nextEventId
       /\ p \in sseClients => lastId[p] = nextEventId - 1
       /\ lastId[p] >= checkpoint => p \in based \/ (eventLog # <<>> /\ eventLog[1] > checkpoint)

\* Inductive: PagesAreBased follows.
EventsInv == TypeOK /\ LogIsContiguous /\ SeenIsBased
=============================================================================
