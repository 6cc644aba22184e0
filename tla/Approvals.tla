----------------------------- MODULE Approvals -----------------------------
(***************************************************************************)
(* Who may run a tool: tool-approval.ts, session-approvals.ts, and         *)
(* consent-manager.ts as ui-server.ts asks it.  One server, seen by calls  *)
(* of the agent and of an app page.  A decision is made by a broker (an    *)
(* extension that claims the request), by what the session remembers, or   *)
(* in a dialog; the session may move to another branch of its history, and *)
(* the server's definition may be replaced, at every await.                *)
(*                                                                         *)
(* A key is a tool with the hashes of its definition and its arguments.    *)
(* Of the server's definition, an object in the configuration, only this   *)
(* matters: is it still the one that a call, a dialog or a grant was about.*)
(***************************************************************************)
EXTENDS Naturals, FiniteSets

CONSTANTS Caller, Key, Branch, None

VARIABLES
  position,    \* the branch of the session's history that is active
  entries,     \* the approval entries on each branch
  grant,       \* state.approvedServers[server]: none, of the live definition, or of an old one
  approved,    \* state.approvedToolCalls
  consent,     \* the consent manager's decision: "unset", "allow" or "deny"
  request,     \* the tool calls that are being decided
  chosen,      \* the user granted the live definition server-wide since the last restore
  unsaved      \* decisions whose entry could not be written

approvalVars == <<position, entries, grant, approved, consent, request, chosen, unsaved>>

Nothing == [keys |-> {}, consent |-> "unset"]
\* A call holds the map of grants and the definition it began with; `asked` says
\* that its dialog is about the definition and the branch that are live.
Quiet == [pc |-> "idle", key |-> None, sameMap |-> FALSE, sameServer |-> FALSE, asked |-> FALSE]

TypeOK ==
  /\ position \in Branch
  /\ entries \in [Branch -> [keys : SUBSET Key, consent : {"unset", "allow", "deny"}]]
  /\ grant \in {"none", "live", "old"} /\ approved \subseteq Key
  /\ consent \in {"unset", "allow", "deny"}
  /\ request \in [Caller -> [pc : {"idle", "broker", "dialog"}, key : Key \cup {None},
                             sameMap : BOOLEAN, sameServer : BOOLEAN, asked : BOOLEAN]]
  /\ chosen \in BOOLEAN /\ unsaved \subseteq Key \cup {"consent"}

Init ==
  /\ position = (CHOOSE b \in Branch : TRUE) /\ entries = [b \in Branch |-> Nothing]
  /\ grant = "none" /\ approved = {} /\ consent = "unset"
  /\ request = [c \in Caller |-> Quiet] /\ chosen = FALSE /\ unsaved = {}

\* The call runs, or is answered with what blocked it.
Decided(c) == request' = [request EXCEPT ![c] = Quiet]

\* rememberToolApproval(): in the state's set of now, and one entry on the
\* branch of now; a failure to write it is swallowed.
Remember(k) ==
  /\ approved' = approved \cup {k}
  /\ IF k \in approved THEN UNCHANGED <<entries, unsaved>>
     ELSE \E saved \in BOOLEAN :
            /\ entries' = IF saved THEN [entries EXCEPT ![position].keys = @ \cup {k}] ELSE entries
            /\ unsaved' = IF saved THEN unsaved ELSE unsaved \cup {k}

-----------------------------------------------------------------------------
(* A call is about to run: ensureToolCallApproved(), up to the broker. *)

Begin(c, k) ==
  /\ request[c].pc = "idle"
  /\ request' = [request EXCEPT ![c] = [Quiet EXCEPT !.pc = "broker", !.key = k,
                                          !.sameMap = TRUE, !.sameServer = TRUE]]
  /\ UNCHANGED <<position, entries, grant, approved, consent, chosen, unsaved>>

\* POST /proxy/tools/call: the page's consent is checked first.
PageBegins(c, k) == consent = "allow" /\ Begin(c, k)

\* A handler claimed the request.  It allows this call, or it denies, throws or
\* answers something unknown: the gate keeps nothing of it.
BrokerDecides(c) ==
  /\ request[c].pc = "broker" /\ Decided(c)
  /\ UNCHANGED <<position, entries, grant, approved, consent, chosen, unsaved>>

BrokerAllowsForSession(c) ==
  /\ request[c].pc = "broker" /\ Decided(c) /\ Remember(request[c].key)
  /\ UNCHANGED <<position, grant, consent, chosen>>

GrantHolds(c) == request[c].sameMap /\ grant = "live"

\* Nobody claims the request: what the session remembers decides, or the
\* approveTools setting (`needed`); then the user is asked, where there is one.
BrokerAbstains(c, needed, hasUi) ==
  /\ request[c].pc = "broker"
  /\ grant' = IF request[c].sameMap /\ ~GrantHolds(c) THEN "none" ELSE grant
  /\ IF ~GrantHolds(c) /\ request[c].key \notin approved /\ needed /\ hasUi
     THEN request' = [request EXCEPT ![c].pc = "dialog", ![c].asked = TRUE]
     ELSE Decided(c)
  /\ UNCHANGED <<position, entries, approved, consent, chosen, unsaved>>

\* "Allow once" or "Deny", or the dialog is dismissed or aborted.
UserDecides(c) ==
  /\ request[c].pc = "dialog" /\ Decided(c)
  /\ UNCHANGED <<position, entries, grant, approved, consent, chosen, unsaved>>

\* "Allow for session".
UserAllowsForSession(c) ==
  /\ request[c].pc = "dialog" /\ Decided(c) /\ Remember(request[c].key)
  /\ UNCHANGED <<position, grant, consent, chosen>>

\* "Allow server for this session": refused when the branch or the server changed meanwhile.
UserAllowsServer(c) ==
  /\ request[c].pc = "dialog" /\ Decided(c)
  /\ grant' = IF request[c].sameMap /\ request[c].sameServer THEN "live" ELSE grant
  /\ chosen' = (chosen \/ request[c].asked)
  /\ UNCHANGED <<position, entries, approved, consent, unsaved>>

-----------------------------------------------------------------------------
(* The page's consent, the branch, and the configuration. *)

\* POST /proxy/ui/consent: registerDecision().
PageDecides(decision) ==
  /\ consent' = decision
  /\ \E saved \in BOOLEAN :
       /\ entries' = IF saved THEN [entries EXCEPT ![position].consent = decision] ELSE entries
       /\ unsaved' = IF saved THEN unsaved \ {"consent"} ELSE unsaved \cup {"consent"}
  /\ UNCHANGED <<position, grant, approved, request, chosen>>

\* MUTANT of Restore: what was approved on the other branch stays approved.
RestoreAdding(b) ==
  /\ approved' = approved \cup entries'[b].keys /\ consent' = entries'[b].consent
  /\ grant' = "none" /\ chosen' = FALSE /\ unsaved' = {}
  /\ request' = [c \in Caller |-> [request[c] EXCEPT !.sameMap = FALSE, !.asked = FALSE]]

\* restoreSessionApprovalState(): a new map of grants, and the decisions of the branch.
Restore(b) ==
  /\ approved' = entries'[b].keys /\ consent' = entries'[b].consent
  /\ grant' = "none" /\ chosen' = FALSE /\ unsaved' = {}
  /\ request' = [c \in Caller |-> [request[c] EXCEPT !.sameMap = FALSE, !.asked = FALSE]]

\* "session_tree": the user goes to another branch.
Navigate(b) == b # position /\ position' = b /\ UNCHANGED entries /\ Restore(b)

\* The user goes back to a point of the branch and starts a new one there: a
\* branch is its decisions, so it takes the place of one nobody is on.
Fork(b, keys) ==
  /\ b # position /\ keys \subseteq entries[position].keys /\ position' = b
  /\ entries' = [entries EXCEPT ![b] = [keys |-> keys, consent |-> entries[position].consent]]
  /\ Restore(b)

\* A panel, a registration or a reload puts another definition in its place.
Replace ==
  /\ grant' = IF grant = "none" THEN "none" ELSE "old"
  /\ request' = [c \in Caller |-> [request[c] EXCEPT !.sameServer = FALSE, !.asked = FALSE]]
  /\ chosen' = FALSE
  /\ UNCHANGED <<position, entries, approved, consent, unsaved>>

Next ==
  \/ \E c \in Caller, k \in Key : Begin(c, k) \/ PageBegins(c, k)
  \/ \E c \in Caller : BrokerDecides(c) \/ BrokerAllowsForSession(c)
       \/ UserDecides(c) \/ UserAllowsForSession(c) \/ UserAllowsServer(c)
  \/ \E c \in Caller, needed, hasUi \in BOOLEAN : BrokerAbstains(c, needed, hasUi)
  \/ \E decision \in {"allow", "deny"} : PageDecides(decision)
  \/ \E b \in Branch : Navigate(b) \/ \E keys \in SUBSET Key : Fork(b, keys)
  \/ Replace

-----------------------------------------------------------------------------
\* A call that runs on a server-wide grant runs on one the user gave for the
\* definition that serves now, in a dialog of the branch that is active now: a
\* dialog or a broker that answers after the branch or the definition changed
\* gives no authority over what took its place (tool-approval.ts:222-229, 263-272).
GrantsAreChosen == \A c \in Caller : request[c].pc = "broker" /\ GrantHolds(c) => chosen

\* What is approved now is what the active branch records, so leaving and coming
\* back changes nothing; only an entry that could not be written makes them differ.
DecisionsFollowBranch ==
  /\ entries[position].keys \subseteq approved
  /\ approved \ entries[position].keys \subseteq unsaved
  /\ "consent" \in unsaved \/ consent = entries[position].consent

\* Only the user's choice makes a grant of the live definition, and a dialog about the
\* definition and the branch that are live now was opened for them; a call has a key.
GrantsAreAsked ==
  /\ grant = "live" => chosen
  /\ \A c \in Caller : request[c].pc # "idle" =>
       /\ request[c].key \in Key
       /\ request[c].pc = "dialog" /\ request[c].sameMap /\ request[c].sameServer => request[c].asked

\* Inductive: GrantsAreChosen follows.
ApprovalsInv == TypeOK /\ GrantsAreAsked /\ DecisionsFollowBranch
=============================================================================
