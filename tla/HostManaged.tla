---------------------------- MODULE HostManaged ----------------------------
(***************************************************************************)
(* The profile for an embedding application that owns the transport and    *)
(* the record of what was dispatched (host-managed.ts): one server with    *)
(* one selected tool.  The host creates the transport, decides when a call *)
(* is dispatched, and may throw or hang; the server may change the tool,   *)
(* of which a notification tells that may overtake or be overtaken by the  *)
(* answer to a listing; close() may come at any time.                      *)
(***************************************************************************)
EXTENDS Naturals, FiniteSets

CONSTANTS HostCall, Version, None

VARIABLES
  adapter,    \* "new", "starting", "ready", "draining", "sweeping" or "closed"
  transport,  \* "none", "creating", "delivered", "connecting", "open" or "closed"
  adopted,    \* connections has it
  gaveUp,     \* ready() no longer waits for the host's factory
  listed,     \* the answer on its way to the first listing, or the frozen definition
  frozen,     \* the catalog is: connection.selected
  offered,    \* the definition the server has now
  noted,      \* a list_changed notification is on its way
  relist,     \* connection.refresh: "none", "asked", or the answer that is on its way
  again,      \* connection.refreshRequested
  retired,    \* connection.retired has the tool
  call,       \* the tool calls
  told        \* what the model was told of a call: "none", "not run" or "other"

hostVars == <<adapter, transport, adopted, gaveUp, listed, frozen, offered, noted, relist, again,
              retired, call, told>>
startVars == <<adapter, transport, adopted, gaveUp>>
listVars  == <<listed, frozen, offered, noted, relist, again, retired>>

Fresh == [pc |-> "idle", dispatch |-> "none", sent |-> FALSE, ran |-> FALSE, aborted |-> FALSE]
Closed == adapter \in {"draining", "sweeping", "closed"}

TypeOK ==
  /\ adapter \in {"new", "starting", "ready", "draining", "sweeping", "closed"}
  /\ transport \in {"none", "creating", "delivered", "connecting", "open", "closed"}
  /\ {adopted, gaveUp, frozen, noted, again, retired} \subseteq BOOLEAN
  /\ listed \in Version \cup {None} /\ offered \in Version
  /\ relist \in Version \cup {"none", "asked"}
  /\ call \in [HostCall -> [pc : {"idle", "approving", "checking", "host", "settled"},
                        dispatch : {"none", "checking", "waiting", "done", "failed"},
                        sent : BOOLEAN, ran : BOOLEAN, aborted : BOOLEAN]]
  /\ told \in [HostCall -> {"none", "not run", "other"}]

Init ==
  /\ adapter = "new" /\ transport = "none" /\ adopted = FALSE /\ gaveUp = FALSE
  /\ listed = None /\ frozen = FALSE /\ offered = (CHOOSE v \in Version : TRUE) /\ noted = FALSE
  /\ relist = "none" /\ again = FALSE /\ retired = FALSE
  /\ call = [c \in HostCall |-> Fresh] /\ told = [c \in HostCall |-> "none"]

-----------------------------------------------------------------------------
(* ready(): connectServer() for the server, beside others that may fail. *)

Ready ==
  /\ adapter = "new" /\ adapter' = "starting" /\ transport' = "creating"
  /\ UNCHANGED <<adopted, gaveUp, listVars, call, told>>

\* The host's factory answers; after close() the transport is closed at once.
Delivered ==
  /\ transport = "creating" /\ transport' = IF Closed THEN "closed" ELSE "delivered"
  /\ UNCHANGED <<adapter, adopted, gaveUp, listVars, call, told>>

\* abortable() rejects when the lifetime ends, unless the transport came first.
GivesUp ==
  /\ transport = "creating" /\ Closed /\ ~gaveUp /\ gaveUp' = TRUE
  /\ UNCHANGED <<adapter, transport, adopted, listVars, call, told>>

\* The connection is recorded; when close() has swept them already, it is closed here.
Adopt ==
  /\ transport = "delivered" /\ ~gaveUp /\ ~adopted /\ adopted' = TRUE
  /\ transport' = IF Closed THEN "closed" ELSE "connecting"
  /\ UNCHANGED <<adapter, gaveUp, listVars, call, told>>

\* The server answers the first listing with what it has now.
FirstListing ==
  /\ transport = "connecting" /\ listed = None /\ listed' = offered /\ transport' = "open"
  /\ UNCHANGED <<adapter, adopted, gaveUp, frozen, offered, noted, relist, again, retired, call, told>>

\* The catalog is frozen; a notification that came before gets its re-list now.
Selected ==
  /\ adapter = "starting" /\ transport = "open" /\ ~frozen /\ frozen' = TRUE /\ adapter' = "ready"
  /\ IF again /\ relist = "none" THEN relist' = "asked" /\ again' = FALSE ELSE UNCHANGED <<relist, again>>
  /\ UNCHANGED <<transport, adopted, gaveUp, listed, offered, noted, retired, call, told>>

\* Connecting fails, here or for another server: start() closes the adapter.
StartFails ==
  /\ adapter = "starting" /\ adapter' = "draining"
  /\ call' = [c \in HostCall |-> [call[c] EXCEPT !.aborted = TRUE]]
  /\ UNCHANGED <<transport, adopted, gaveUp, listVars, told>>

-----------------------------------------------------------------------------
(* The tool list. *)

\* The server changes the tool, and says so.
Change(v) ==
  /\ v # offered /\ offered' = v /\ noted' = TRUE
  /\ UNCHANGED <<startVars, listed, frozen, relist, again, retired, call, told>>

\* requestCatalogRefresh()
ListChanged ==
  /\ noted /\ transport \in {"connecting", "open"} /\ noted' = FALSE
  /\ IF frozen /\ relist = "none" THEN relist' = "asked" /\ UNCHANGED again
     ELSE again' = TRUE /\ UNCHANGED relist
  /\ UNCHANGED <<startVars, listed, frozen, offered, retired, call, told>>

ServerLists ==
  /\ relist = "asked" /\ relist' = offered
  /\ UNCHANGED <<startVars, listed, frozen, offered, noted, again, retired, call, told>>

\* The answer arrives, or the request fails: a tool that is not what was frozen is
\* retired for good, and a notification of meanwhile lists once more.
Relisted(ok) ==
  /\ IF ok THEN relist \in Version ELSE relist # "none"
  /\ retired' = (retired \/ ~ok \/ relist # listed)
  /\ relist' = IF again THEN "asked" ELSE "none"
  /\ again' = FALSE
  /\ UNCHANGED <<startVars, listed, frozen, offered, noted, call, told>>

-----------------------------------------------------------------------------
(* executeTool(), and the call object the host is given. *)

Settle(c, said) ==
  /\ call' = [call EXCEPT ![c].pc = "settled"]
  /\ told' = [told EXCEPT ![c] = said]

Usable(c) == ~Closed /\ transport = "open" /\ ~call[c].aborted

Execute(c) ==
  /\ call[c].pc = "idle" /\ frozen
  /\ IF ~Closed /\ transport = "open" THEN call' = [call EXCEPT ![c].pc = "approving"] /\ UNCHANGED told
     ELSE Settle(c, "not run")
  /\ UNCHANGED <<startVars, listVars>>

\* The broker answers, or the wait for it is aborted.
Approved(c, allowed) ==
  /\ call[c].pc = "approving"
  /\ IF allowed /\ Usable(c) THEN call' = [call EXCEPT ![c].pc = "checking"] /\ UNCHANGED told
     ELSE Settle(c, "not run")
  /\ UNCHANGED <<startVars, listVars>>

\* isRetired() has awaited the re-lists under way.
Checked(c) ==
  /\ call[c].pc = "checking" /\ relist = "none"
  /\ IF retired THEN Settle(c, "not run") ELSE call' = [call EXCEPT ![c].pc = "host"] /\ UNCHANGED told
  /\ UNCHANGED <<startVars, listVars>>

\* The host calls dispatch(), once.
Dispatch(c) ==
  /\ call[c].pc = "host" /\ call[c].dispatch = "none"
  /\ call' = [call EXCEPT ![c].dispatch = "checking"] /\ UNCHANGED <<startVars, listVars, told>>

Unavailable(c) == call[c].pc = "settled" \/ ~Usable(c)

\* send(): after the re-lists, the request goes out, or it never will.
Send(c) ==
  /\ call[c].dispatch = "checking" /\ relist = "none"
  /\ call' = IF Unavailable(c) \/ retired THEN [call EXCEPT ![c].dispatch = "failed"]
             ELSE [call EXCEPT ![c].dispatch = "waiting", ![c].sent = TRUE]
  /\ UNCHANGED <<startVars, listVars, told>>

\* The server runs the tool, whoever still waits for it.
Runs(c) ==
  /\ call[c].sent /\ ~call[c].ran /\ transport # "closed"
  /\ call' = [call EXCEPT ![c].ran = TRUE] /\ UNCHANGED <<startVars, listVars, told>>

\* A result the schema accepts arrives, or the request fails once it was sent: an
\* error of the server, an invalid result, an abort, a timeout, a lost connection.
Answered(c, ok) ==
  /\ call[c].dispatch = "waiting" /\ (ok => call[c].ran)
  /\ call' = [call EXCEPT ![c].dispatch = IF ok THEN "done" ELSE "failed"]
  /\ UNCHANGED <<startVars, listVars, told>>

\* onToolCall() returns what the model is to see.
HostReturns(c) == call[c].pc = "host" /\ Settle(c, "other") /\ UNCHANGED <<startVars, listVars>>

\* onToolCall() throws: dispatch()'s error as it is, or another one, also while the
\* dispatch it did not await is still under way.
HostThrows(c) ==
  /\ call[c].pc = "host" /\ Settle(c, IF call[c].sent THEN "other" ELSE "not run")
  /\ UNCHANGED <<startVars, listVars>>

\* Pi aborts the call.
AbortCall(c) ==
  /\ call[c].pc \in {"approving", "checking", "host"} /\ ~call[c].aborted
  /\ call' = [call EXCEPT ![c].aborted = TRUE] /\ UNCHANGED <<startVars, listVars, told>>

\* A call the host holds no longer: its identity serves the next one.
Over(c) ==
  /\ call[c].pc = "settled" /\ call[c].dispatch \in {"none", "done", "failed"}
  /\ ~call[c].sent \/ call[c].ran
  /\ call' = [call EXCEPT ![c] = Fresh] /\ told' = [told EXCEPT ![c] = "none"]
  /\ UNCHANGED <<startVars, listVars>>

-----------------------------------------------------------------------------
(* close(), and the connection's own end. *)

Close ==
  /\ adapter \in {"new", "starting", "ready"}
  /\ adapter' = "draining" /\ call' = [c \in HostCall |-> [call[c] EXCEPT !.aborted = TRUE]]
  /\ UNCHANGED <<transport, adopted, gaveUp, listVars, told>>

\* The calls in flight have settled, or five seconds are over.
Drained == adapter = "draining" /\ adapter' = "sweeping"
           /\ UNCHANGED <<transport, adopted, gaveUp, listVars, call, told>>

Swept ==
  /\ adapter = "sweeping" /\ adapter' = "closed"
  /\ transport' = IF adopted THEN "closed" ELSE transport
  /\ UNCHANGED <<adopted, gaveUp, listVars, call, told>>

Disconnects ==
  /\ transport = "open" /\ transport' = "closed" /\ UNCHANGED <<adapter, adopted, gaveUp, listVars, call, told>>

Next ==
  \/ Ready \/ Delivered \/ GivesUp \/ Adopt \/ FirstListing \/ Selected \/ StartFails
  \/ (\E v \in Version : Change(v)) \/ ListChanged \/ ServerLists \/ (\E ok \in BOOLEAN : Relisted(ok))
  \/ \E c \in HostCall : Execute(c) \/ Checked(c) \/ Dispatch(c) \/ Send(c) \/ Runs(c)
       \/ HostReturns(c) \/ HostThrows(c) \/ AbortCall(c) \/ Over(c)
  \/ \E c \in HostCall, yes \in BOOLEAN : Approved(c, yes) \/ Answered(c, yes)
  \/ Close \/ Drained \/ Swept \/ Disconnects

-----------------------------------------------------------------------------
\* The model is told that a tool "was not run" only of a call that the server has
\* not run and never will, also when the host throws while its dispatch() still
\* waits for a re-list (host-managed.ts:107, 408-411, 502-504).
NotRunIsTrue == \A c \in HostCall : told[c] = "not run" => ~call[c].sent /\ ~call[c].ran

\* No request goes out under a definition the adapter could know to be another than
\* the frozen one: the tool is as it was registered, or the notification of its
\* change has not arrived (host-managed.ts:244-271, 410).
NothingStaleIsSent ==
  [][\A c \in HostCall : ~call[c].sent /\ call'[c].sent => offered = listed \/ noted]_hostVars

\* Once close() has returned, the host's transport is closed, or its factory has not
\* delivered one yet, or what it delivered is about to be adopted and closed
\* (host-managed.ts:282-284, 306-310).
NoTransportIsLeft ==
  adapter = "closed" => transport \in {"none", "creating", "closed"} \/ (transport = "delivered" /\ ~gaveUp)

\* A call that has not reached the host sent nothing, what the server ran was sent, and
\* only a call that passed the checks of a frozen catalog is dispatched.
CallsAreOrdered ==
  \A c \in HostCall :
    /\ call[c].pc \in {"idle", "approving", "checking"} => call[c].dispatch = "none"
    /\ call[c].dispatch = "none" => ~call[c].sent
    /\ call[c].ran => call[c].sent
    /\ call[c].pc # "idle" => frozen
    /\ told[c] = "not run" => call[c].pc = "settled"

\* The transport belongs to the connection from its adoption on; who gave the factory up
\* is closing, and gets no transport any more.
TransportIsOwned ==
  /\ adapter = "new" => transport = "none"
  /\ transport \in {"connecting", "open"} => adopted
  /\ transport \in {"none", "creating"} => ~adopted
  /\ gaveUp => Closed /\ transport \in {"creating", "closed"}
  /\ adapter = "closed" => transport \notin {"connecting", "open"}

\* Until the tool is retired, a definition that is not the listed one is on its way: in a
\* notification, in a re-list that was asked for, or in its answer.
ChangeIsOnItsWay ==
  /\ transport \in {"none", "creating", "delivered"} => listed = None
  /\ transport = "open" => listed # None
  /\ ~frozen => relist = "none"
  /\ frozen => listed # None /\ (relist = "none" => ~again)
  /\ listed # None /\ ~retired =>
       offered = listed \/ noted \/ again \/ relist = "asked" \/ relist \in Version \ {listed}

\* Inductive.
HostInv == TypeOK /\ CallsAreOrdered /\ TransportIsOwned /\ ChangeIsOnItsWay /\ NotRunIsTrue
=============================================================================
