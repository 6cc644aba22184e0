------------------------------- MODULE UiSession -------------------------------
(***************************************************************************)
(* The interactive UI of a runtime (ui-session.ts, ui-server.ts): a tool   *)
(* call with a UI starts a local server for its page, or reuses the open   *)
(* one of the same tool; one page is the runtime's at a time.  A server is *)
(* known here by the call that started it.                                 *)
(***************************************************************************)
EXTENDS Naturals, Sequences

CONSTANTS Call, Tool, None,
  MaxCompleted, \* MAX_COMPLETED_SESSIONS
  MaxContexts   \* MAX_CONTEXT_UPDATES

VARIABLES
  running,    \* the runtime's owner is active
  pc,         \* maybeStartUiSession() of each call
  tool,       \* the tool each call, or its http, is for
  http,       \* the HTTP server each call started
  uiServer,   \* state.uiServer
  listening,  \* calls whose stream listener, or whose page's listeners, are registered
  reusing,    \* the server whose page a call updates
  window,     \* activeGlimpseWindow: the page it shows
  windows,    \* pages that have a native window on the screen
  typed,      \* pages with prompts, intents, notices or contexts that the agent has not read
  contexts,   \* how many of them are contexts
  saved,      \* completedUiSessions: the pages of the records, the oldest first
  shifted,    \* history: pages whose record went since the agent last read, with `saved` full
  trimmed,    \* history: pages of `typed` whose oldest context went
  crossed,    \* history: pages that another page started at the same time displaced unclosed
  late        \* history: windows that opened after their page, or lost their place to one that did

records == <<saved, shifted>>
texts   == <<typed, contexts, trimmed>>
vars == <<running, pc, tool, http, uiServer, listening, reusing, window, windows, texts, records,
          crossed, late>>

TypeOK ==
  /\ running \in BOOLEAN
  /\ pc \in [Call -> {"idle", "reading", "starting", "opening", "calling"}]
  /\ tool \in [Call -> Tool] /\ reusing \in [Call -> Call \cup {None}]
  /\ http \in [Call -> {"none", "up", "completed"}]
  /\ uiServer \in Call \cup {None} /\ window \in Call \cup {None}
  /\ saved \in Seq(Call) /\ Len(saved) <= MaxCompleted /\ contexts \in [Call -> 0 .. MaxContexts]
  /\ listening \cup windows \cup typed \cup shifted \cup trimmed \cup crossed \cup late \subseteq Call

FirstTool == CHOOSE t \in Tool : TRUE

Init ==
  /\ running = TRUE /\ uiServer = None /\ window = None /\ crossed = {} /\ late = {}
  /\ pc = [c \in Call |-> "idle"] /\ tool = [c \in Call |-> FirstTool]
  /\ http = [c \in Call |-> "none"] /\ reusing = [c \in Call |-> None]
  /\ listening = {} /\ windows = {} /\ typed = {} /\ contexts = [c \in Call |-> 0]
  /\ saved = <<>> /\ shifted = {} /\ trimmed = {}

Goto(c, s) == pc' = [pc EXCEPT ![c] = s]

-----------------------------------------------------------------------------
(* The end of a page *)

\* The pages that have a record, and those whose record goes when another one joins them.
Recorded == {saved[i] : i \in 1 .. Len(saved)}
Oldest == IF Len(saved) = MaxCompleted THEN {Head(saved)} ELSE {}

\* MUTANT of Pushed: a full list keeps its oldest records.
PushedIfRoom(h) == IF Len(saved) = MaxCompleted THEN saved ELSE Append(saved, h)

\* completedUiSessions, when h's record joins it
Pushed(h) == IF Len(saved) = MaxCompleted THEN Append(Tail(saved), h) ELSE Append(saved, h)

\* onComplete(): the page that is the runtime's leaves a record of its messages, or of a stream
\* it showed.  The user closed the windows in `closed`.
Completed(h, closed) ==
  /\ listening' = listening \ {h}
  /\ IF uiServer = h
     THEN /\ \/ saved' = Pushed(h) /\ shifted' = shifted \cup Oldest
             \/ h \notin typed /\ UNCHANGED records
          /\ uiServer' = None /\ window' = None /\ windows' = windows \ ({window} \cup closed)
     ELSE windows' = windows \ closed /\ UNCHANGED <<records, uiServer, window>>

\* markCompleted(), from the page or from the watchdog
PageCompletes(h) ==
  /\ http[h] = "up" /\ pc[h] # "starting"
  /\ http' = [http EXCEPT ![h] = "completed"] /\ Completed(h, {})
  /\ UNCHANGED <<running, pc, tool, reusing, texts, crossed, late>>

\* The user closes a native window; its page is closed while it is active.
WindowCloses(h) ==
  /\ h \in windows /\ late' = late \ {h}
  /\ \/ http[h] = "up" /\ http' = [http EXCEPT ![h] = "completed"] /\ Completed(h, {h})
     \/ /\ http[h] # "up" /\ windows' = windows \ {h}
        /\ UNCHANGED <<http, listening, records, uiServer, window>>
  /\ UNCHANGED <<running, pc, tool, reusing, texts, crossed>>

\* What was typed on these pages is read, or out of reach.
Forgotten(S) ==
  /\ typed' = typed \ S /\ trimmed' = trimmed \ S
  /\ contexts' = [h \in Call |-> IF h \in S THEN 0 ELSE contexts[h]]

\* The listeners of a completed page close after a grace period.
ListenersClose(h) ==
  /\ http[h] = "completed" /\ pc[h] = "idle"
  /\ http' = [http EXCEPT ![h] = "none"] /\ tool' = [tool EXCEPT ![h] = FirstTool]
  /\ crossed' = crossed \ {h} /\ Forgotten(crossed \cap {h})
  /\ late' = late \cup (crossed \cap windows \cap {h})
  /\ UNCHANGED <<running, pc, uiServer, listening, reusing, window, windows, records>>

-----------------------------------------------------------------------------
(* A call that has a UI *)

\* A call whose http, window and messages are gone can stand for another one.
Spare(c) ==
  /\ pc[c] = "idle" /\ http[c] = "none" /\ \A d \in Call : reusing[d] # c
  /\ c \notin windows \cup Recorded \cup shifted \cup typed

\* The open page is that of the same tool.
Reusable(t) == uiServer # None /\ tool[uiServer] = t

\* maybeStartUiSession() up to its first await; the open page of the tool is updated, by a
\* stream of results if the tool has a stream mode.
Start(c) ==
  /\ running /\ Spare(c) /\ c = CHOOSE d \in Call : Spare(d)
  /\ \E t \in Tool :
       /\ tool' = [tool EXCEPT ![c] = t]
       /\ IF Reusable(t)
          THEN /\ Goto(c, "calling") /\ reusing' = [reusing EXCEPT ![c] = uiServer]
               /\ listening' \in {listening, listening \cup {c}}
          ELSE Goto(c, "reading") /\ UNCHANGED <<reusing, listening>>
  /\ UNCHANGED <<running, http, uiServer, window, windows, texts, records, crossed, late>>

\* The resource cannot be read, the server cannot listen, or the call is cancelled.
StartFails(c) ==
  /\ pc[c] \in {"reading", "starting"} /\ Goto(c, "idle")
  /\ http' = [http EXCEPT ![c] = "none"]
  /\ UNCHANGED <<running, tool, uiServer, listening, reusing, window, windows, texts, records,
                 crossed, late>>

\* The resource is there: the open page is replaced, and a server starts to listen.
ResourceRead(c) ==
  /\ running /\ pc[c] = "reading" /\ Goto(c, "starting")
  /\ IF uiServer = None
     THEN /\ http' = [http EXCEPT ![c] = "up"] /\ UNCHANGED <<listening, records, uiServer>>
          /\ window' = None /\ windows' = windows \ {window}
     ELSE /\ http' = [http EXCEPT ![c] = "up", ![uiServer] = "completed"]
          /\ Completed(uiServer, {})
  /\ UNCHANGED <<running, tool, reusing, texts, crossed, late>>

\* It listens; a runtime that was stopped meanwhile closes it again.
Started(c) ==
  /\ pc[c] = "starting"
  /\ IF running
     THEN /\ Goto(c, "opening") /\ listening' = listening \cup {c} /\ uiServer' = c
          /\ crossed' = crossed \cup ({uiServer} \ {None}) /\ UNCHANGED http
     ELSE /\ Goto(c, "idle") /\ http' = [http EXCEPT ![c] = "completed"]
          /\ UNCHANGED <<listening, uiServer, crossed>>
  /\ UNCHANGED <<running, tool, reusing, window, windows, texts, records, late>>

\* A native window opened, or a browser, or neither.
Opened(c) ==
  /\ pc[c] = "opening" /\ Goto(c, IF running THEN "calling" ELSE "idle")
  /\ \/ /\ running /\ window' = c /\ windows' = windows \cup {c}
        /\ late' = late \cup ({window} \ {None}) \cup {h \in {c} : http[h] # "up"}
     \/ UNCHANGED <<window, windows, late>>
  /\ UNCHANGED <<running, tool, http, uiServer, listening, reusing, texts, records, crossed>>

\* The call is cancelled while its page opens; the page stays.
OpeningCancelled(c) ==
  /\ pc[c] = "opening" /\ Goto(c, "idle")
  /\ UNCHANGED <<running, tool, http, uiServer, listening, reusing, window, windows, texts,
                 records, crossed, late>>

\* The call's result, or its cancellation, is pushed to its page if that is the runtime's; a
\* call that updated the page of another one then closes its session.
Returns(c) ==
  /\ pc[c] = "calling" /\ Goto(c, "idle") /\ reusing' = [reusing EXCEPT ![c] = None]
  /\ listening' = IF reusing[c] = None THEN listening ELSE listening \ {c}
  /\ UNCHANGED <<running, tool, http, uiServer, window, windows, texts, records, crossed, late>>

-----------------------------------------------------------------------------
(* The user, the agent and the runtime *)

\* recordUiMessage() and the context updates, of which a page keeps the last ones.  A record
\* shares what its page has, as long as that listens; what arrives at a completed page without
\* one reaches the agent only as the message that is sent at once.
UserTypes(h) ==
  /\ pc[h] # "starting"
  /\ http[h] = "up" \/ (http[h] = "completed" /\ h \in Recorded)
  /\ typed' = typed \cup {h}
  /\ \/ UNCHANGED <<contexts, trimmed>>
     \/ contexts[h] < MaxContexts /\ contexts' = [contexts EXCEPT ![h] = @ + 1] /\ UNCHANGED trimmed
     \/ contexts[h] = MaxContexts /\ trimmed' = trimmed \cup {h} /\ UNCHANGED contexts
  /\ UNCHANGED <<running, pc, tool, http, uiServer, listening, reusing, window, windows, records,
                 crossed, late>>

\* executeUiMessages() takes the records that the completed pages left.
AgentReads ==
  /\ saved # <<>> /\ saved' = <<>> /\ shifted' = {} /\ Forgotten(Recorded \cup shifted)
  /\ UNCHANGED <<running, pc, tool, http, uiServer, listening, reusing, window, windows,
                 crossed, late>>

\* shutdownState() and the cleanup of initializeMcp() close the runtime's page.
RuntimeStops ==
  /\ running /\ running' = FALSE
  /\ IF uiServer = None THEN UNCHANGED <<http, listening, records, uiServer, window, windows>>
     ELSE http' = [http EXCEPT ![uiServer] = "completed"] /\ Completed(uiServer, {})
  /\ UNCHANGED <<pc, tool, reusing, texts, crossed, late>>

\* closeAll() of the manager, after the connections are closed
ManagerCloses ==
  /\ ~running /\ listening # {} /\ listening' = {}
  /\ UNCHANGED <<running, pc, tool, http, uiServer, reusing, window, windows, texts, records,
                 crossed, late>>

Next ==
  \/ AgentReads \/ RuntimeStops \/ ManagerCloses
  \/ \E c \in Call : \/ Start(c) \/ StartFails(c) \/ ResourceRead(c) \/ Started(c) \/ Opened(c)
                     \/ OpeningCancelled(c) \/ Returns(c) \/ PageCompletes(c) \/ WindowCloses(c)
                     \/ ListenersClose(c) \/ UserTypes(c)

Spec == Init /\ [][Next]_vars

-----------------------------------------------------------------------------
(* Properties *)

\* Every page that is being served is the runtime's, unless another was started at the same time:
\* a UI of another tool replaced it, and a runtime that stopped closed it.
OnePage == \A h \in Call : http[h] = "up" /\ pc[h] # "starting" => uiServer = h \/ h \in crossed

\* A native window shows a page that is being served, unless it opened too late.
WindowIsLive == \A h \in windows : http[h] = "up" \/ h \in late \cup crossed

\* What the user typed is in an open page or kept for the agent, but for what the limits on
\* records and contexts push out: that is always older than what they kept, which is still there.
NothingTypedIsLost ==
  /\ \A h \in typed : \/ http[h] = "up" \/ h \in Recorded \cup crossed
                      \/ h \in shifted /\ Len(saved) = MaxCompleted
  /\ \A h \in trimmed : h \in typed /\ contexts[h] = MaxContexts

\* The manager calls no listener of a page that has ended, but for the stream of a call that
\* updated the page and has not returned.
ListenersAreLive ==
  \A h \in listening : http[h] = "up" \/ (pc[h] = "calling" /\ reusing[h] # None)

\* A page that does not listen yet has no window, text or listeners and is not the runtime's.
StartingIsApart ==
  \A c \in Call :
    /\ pc[c] = "reading" => http[c] = "none"
    /\ pc[c] = "starting" => http[c] = "up"
    /\ pc[c] \in {"reading", "starting"} =>
         c \notin windows \cup typed \cup listening \cup {uiServer}

\* The runtime's page is served, and the active window is its window unless a later one took over.
ServerIsUp ==
  uiServer # None => /\ http[uiServer] = "up"
                     /\ uiServer \in windows => window = uiServer \/ uiServer \in late

\* Inductive: the properties above hold of what any call, page, window and stop leave behind.
UiInv == /\ TypeOK /\ OnePage /\ WindowIsLive /\ NothingTypedIsLost /\ ListenersAreLive
         /\ StartingIsApart /\ ServerIsUp
=============================================================================
