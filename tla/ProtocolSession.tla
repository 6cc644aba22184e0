-------------------------- MODULE ProtocolSession --------------------------
(***************************************************************************)
(* An extension's own methods on a server's connection                     *)
(* (runtime-protocol.ts, and index.ts that resolves the connection): one   *)
(* namespace that an extension registers and disposes, its sessions on one *)
(* connection, and the streams, watches and requests of a session.  An     *)
(* operation pins the connection, so that no idle check closes it.  The    *)
(* caller, a handler that throws, the server, the connection and the       *)
(* owner of the runtime all end operations, in any order.                  *)
(***************************************************************************)
EXTENDS Naturals, FiniteSets, FiniteSetsExt

CONSTANTS Visit, Operation, None

VARIABLES
  connected,   \* the transport has not closed
  owned,       \* the owner of the runtime has not been aborted
  enrolled,    \* the namespace is registered
  visit,       \* the sessions: "idle", "resolving", "orphan" (of a disposed registration) or "open"
  operation,   \* streams, watches and requests
  pins,        \* connection.activeProtocolOperations
  serves,      \* streams the server runs
  informed     \* of these, the ones whose end at this side it was told

protocolVars == <<connected, owned, enrolled, visit, operation, pins, serves, informed>>
outside == <<connected, owned, enrolled>>

NoOperation == [kind |-> "none", of |-> None, pc |-> "none", dispatched |-> FALSE]

TypeOK ==
  /\ {connected, owned, enrolled} \subseteq BOOLEAN
  /\ visit \in [Visit -> {"idle", "resolving", "orphan", "open"}]
  /\ operation \in [Operation -> [kind : {"none", "stream", "watch", "request"}, of : Visit \cup {None},
                       pc : {"none", "open", "sending", "ending", "finished"}, dispatched : BOOLEAN]]
  /\ pins \in 0..Cardinality(Operation)
  /\ serves \subseteq Operation /\ informed \subseteq serves

Init ==
  /\ connected = TRUE /\ owned = TRUE /\ enrolled = FALSE
  /\ visit = [s \in Visit |-> "idle"] /\ operation = [o \in Operation |-> NoOperation]
  /\ pins = 0 /\ serves = {} /\ informed = {}

Active(o) == operation[o].pc \in {"open", "sending"}
Of(s) == {o \in Operation : operation[o].of = s /\ Active(o)}

\* The operations under way.
Pinning == {o \in Operation : operation[o].pc \in {"open", "sending", "ending"}}

\* finish() of each: its entry goes, its pin is released once, and unless the server
\* ended it, the server is told: by a notification, or by the end of the request's
\* own stream.  A request is aborted, and releases its pin when it has rejected.
Ended(ops, cancelled) ==
  LET streams == {o \in ops : operation[o].kind # "request"} IN
  /\ operation' = [o \in Operation |->
       IF o \notin ops THEN operation[o]
       ELSE [operation[o] EXCEPT !.pc = IF operation[o].kind = "request" THEN "ending" ELSE "finished"]]
  /\ pins' = pins - Cardinality(streams)
  /\ informed' = informed \cup {o \in ops \cap serves : cancelled /\ connected' /\ operation[o].dispatched}

-----------------------------------------------------------------------------
(* Registrations and sessions. *)

Register ==
  /\ ~enrolled /\ enrolled' = TRUE
  /\ UNCHANGED <<connected, owned, visit, operation, pins, serves, informed>>

\* dispose(): the namespace is free again, and its sessions are closed.
Dispose ==
  /\ enrolled /\ enrolled' = FALSE
  /\ visit' = [s \in Visit |-> IF visit[s] = "open" THEN "idle"
                             ELSE IF visit[s] = "resolving" THEN "orphan" ELSE visit[s]]
  /\ UNCHANGED <<connected, owned, serves>>
  /\ Ended(UNION {Of(s) : s \in {s \in Visit : visit[s] = "open"}}, TRUE)

Connect(s) ==
  /\ enrolled /\ visit[s] = "idle" /\ visit' = [visit EXCEPT ![s] = "resolving"]
  /\ UNCHANGED <<outside, operation, pins, serves, informed>>

\* MUTANT of Connected: a registration that was disposed meanwhile still gets its session.
ConnectedAnyway(s) ==
  /\ visit[s] \in {"resolving", "orphan"}
  /\ visit' = [visit EXCEPT ![s] = IF connected /\ owned THEN "open" ELSE "idle"]
  /\ UNCHANGED <<outside, operation, pins, serves, informed>>

\* The resolver has connected the server, or failed; createProtocolSession().
Connected(s) ==
  /\ visit[s] \in {"resolving", "orphan"}
  /\ \E works \in BOOLEAN :
       visit' = [visit EXCEPT ![s] =
                   IF works /\ visit[s] = "resolving" /\ connected /\ owned THEN "open" ELSE "idle"]
  /\ UNCHANGED <<outside, operation, pins, serves, informed>>

CloseSession(s) ==
  /\ visit[s] = "open" /\ visit' = [visit EXCEPT ![s] = "idle"]
  /\ UNCHANGED <<outside, serves>> /\ Ended(Of(s), TRUE)

\* The connection closes or the runtime's owner is aborted: every session ends.
AllEnd ==
  /\ visit' = [s \in Visit |-> IF visit[s] = "open" THEN "idle" ELSE visit[s]]
  /\ Ended({o \in Operation : Active(o)}, TRUE)

ConnectionCloses ==
  /\ connected /\ connected' = FALSE /\ UNCHANGED <<owned, enrolled, serves>> /\ AllEnd
OwnerAborts ==
  /\ owned /\ owned' = FALSE /\ UNCHANGED <<connected, enrolled, serves>> /\ AllEnd

-----------------------------------------------------------------------------
(* Operations of a session. *)

Opens(o, s, kind) ==
  /\ visit[s] = "open" /\ operation[o].pc = "none"
  /\ operation' = [operation EXCEPT ![o] = [kind |-> kind, of |-> s, pc |-> "open", dispatched |-> FALSE]]
  /\ pins' = pins + 1
  /\ UNCHANGED <<outside, visit, serves, informed>>

\* The microtask after openStream(): a stream that has finished is never sent.
Dispatch(o) ==
  /\ operation[o].kind = "stream" /\ operation[o].pc = "open"
  /\ operation' = [operation EXCEPT ![o].pc = "sending", ![o].dispatched = TRUE]
  /\ serves' = serves \cup {o}
  /\ UNCHANGED <<outside, visit, pins, informed>>

\* The caller cancels; a handler throws, in its stream or its watch; send() rejects,
\* or the request's own stream ends early.
Cancel(o) ==
  /\ Active(o) /\ operation[o].kind # "request"
  /\ UNCHANGED <<outside, visit, serves>> /\ Ended({o}, TRUE)

\* The server's result, its error or its cancellation of a stream; a late one, of a
\* stream that has finished at this side, is dropped by its id.
ServerEnds(o) ==
  /\ o \in serves /\ connected /\ serves' = serves \ {o}
  /\ UNCHANGED <<outside, visit>>
  /\ IF Active(o)
     THEN /\ operation' = [operation EXCEPT ![o].pc = "finished"] /\ pins' = pins - 1
          /\ informed' = informed \ {o}
     ELSE UNCHANGED <<operation, pins>> /\ informed' = informed \ {o}

\* A request settles, by its answer or by the abort of its session.
RequestSettles(o) ==
  /\ operation[o].kind = "request" /\ operation[o].pc \in {"open", "ending"}
  /\ operation' = [operation EXCEPT ![o].pc = "finished"] /\ pins' = pins - 1
  /\ UNCHANGED <<outside, visit, serves, informed>>

\* What is over at both sides: its identity serves the next operation.
Forgotten(o) ==
  /\ operation[o].pc = "finished" /\ (o \notin serves \/ ~connected)
  /\ operation' = [operation EXCEPT ![o] = NoOperation] /\ serves' = serves \ {o}
  /\ informed' = informed \ {o} /\ UNCHANGED <<outside, visit, pins>>

Next ==
  \/ Register \/ Dispose \/ ConnectionCloses \/ OwnerAborts
  \/ \E s \in Visit : Connect(s) \/ Connected(s) \/ CloseSession(s)
  \/ \E o \in Operation, s \in Visit, kind \in {"stream", "watch", "request"} : Opens(o, s, kind)
  \/ \E o \in Operation : Dispatch(o) \/ Cancel(o) \/ ServerEnds(o) \/ RequestSettles(o) \/ Forgotten(o)

-----------------------------------------------------------------------------
\* The connection is pinned exactly while an operation is under way, however many
\* ends it meets: the idle check neither closes it too early nor is kept from it for
\* ever (runtime-protocol.ts:249-259, server-manager.ts:2245).
PinsAreOperations == pins = Cardinality(Pinning)

\* No session survives its registration, its connection or its runtime, also when it
\* was still connecting as they ended, and no stream or watch survives its session.
NothingOutlivesItsOwner ==
  /\ \A s \in Visit : visit[s] = "open" => enrolled /\ connected /\ owned
  /\ \A o \in Operation : Active(o) => visit[operation[o].of] = "open"

\* A server on an open connection does not go on with a stream nobody here follows:
\* it was told, also when the end came while the request was being sent.
ServerIsInformed ==
  connected => \A o \in serves : operation[o].pc = "finished" => o \in informed

\* Only a live registration resolves sessions.  What an operation's record says fits
\* together: it has a session from its start to its end, only a request ends by its
\* answer, and only a stream that was sent is served.
RecordsFit ==
  /\ \A s \in Visit : visit[s] = "resolving" => enrolled
  /\ \A o \in Operation :
       /\ operation[o].pc = "none" <=> operation[o].kind = "none"
       /\ operation[o].kind # "none" => operation[o].of \in Visit
       /\ operation[o].pc = "sending" => operation[o].kind = "stream" /\ operation[o].dispatched
       /\ operation[o].pc = "ending" => operation[o].kind = "request"
       /\ o \in serves => /\ operation[o].kind = "stream" /\ operation[o].dispatched
                          /\ operation[o].pc \in {"sending", "finished"}

\* Inductive.
ProtocolInv ==
  TypeOK /\ RecordsFit /\ PinsAreOperations /\ NothingOutlivesItsOwner /\ ServerIsInformed
=============================================================================
