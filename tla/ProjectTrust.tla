---------------------------- MODULE ProjectTrust ----------------------------
(***************************************************************************)
(* Which servers and script tools of a project's own configuration may run *)
(* (project-server-trust.ts, as init.ts, commands.ts and index.ts use it). *)
(* The approvals file is shared by every process of the user; a process    *)
(* reads it, changes it and renames it into place, without a lock.  The    *)
(* project's files may change at any time.  A definition is what the       *)
(* approval is about (`what`) and its directTools, the one setting the     *)
(* panel may change without asking again.                                  *)
(***************************************************************************)
EXTENDS Naturals, FiniteSets

CONSTANTS Process, Project, What, None

VARIABLES
  defined,    \* the project's configuration on disk
  approvals,  \* the approvals file: a server and the hash of its definition
  gate,       \* a process's pass over the project's servers
  accepted    \* what the user accepted: in a dialog, or by an install under this name

trustVars == <<defined, approvals, gate, accepted>>

Definition == [what : What, direct : BOOLEAN]
Approval == [server : Project, def : Definition]
\* A project nobody trusts, a terminal, a run without one, and such a run where
\* the user's settings or flag allow unapproved servers.
Mode == {"untrusted", "tui", "headless", "allow"}
Gates == [pc : {"idle", "gating", "asking", "saving", "running"}, mode : Mode,
          plan : [Project -> Definition \cup {None}], todo : SUBSET Project, known : SUBSET Project,
          blocked : SUBSET Project, draft : SUBSET Approval]
Idle == [pc |-> "idle", mode |-> "untrusted", plan |-> [s \in Project |-> None],
         todo |-> {}, known |-> {}, blocked |-> {}, draft |-> {}]

TypeOK ==
  /\ defined \in [Project -> Definition \cup {None}] /\ approvals \subseteq Approval
  /\ accepted \subseteq Project \X What
  /\ gate \in [Process -> Gates]

Init ==
  /\ defined = [s \in Project |-> None] /\ approvals = {}
  /\ gate = [p \in Process |-> Idle] /\ accepted = {}

\* saveApproval(): one record for a server of the project.
Saved(s, d) == {a \in approvals : a.server # s} \cup {[server |-> s, def |-> d]}

-----------------------------------------------------------------------------
(* applyProjectServerTrust() and what follows of it in a process. *)

\* A server whose definition, as loaded, has its approval in the file.
IsApproved(s, d) == [server |-> s, def |-> d] \in approvals

Becomes(p, g) == gate' = [gate EXCEPT ![p] = g]

\* The configuration and the approvals are read once.
Load(p, mode) ==
  /\ gate[p].pc = "idle"
  /\ Becomes(p, [Idle EXCEPT !.pc = "gating", !.mode = mode, !.plan = defined,
       !.todo = {s \in Project : defined[s] # None}, !.known = {s \in Project : IsApproved(s, defined[s])}])
  /\ UNCHANGED <<defined, approvals, accepted>>

\* The first server that has not been decided, in the configuration's order.
Upcoming(p) == CHOOSE s \in gate[p].todo : TRUE

Passed(g, s) == [g EXCEPT !.todo = @ \ {s}, !.known = @ \ {s}, !.pc = "gating", !.draft = {}]
Blocked(g, s) == [Passed(g, s) EXCEPT !.plan[s] = None, !.blocked = @ \cup {s}]

Gate(p) ==
  /\ gate[p].pc = "gating" /\ gate[p].todo # {}
  /\ LET s == Upcoming(p)
         mode == gate[p].mode IN
       IF mode # "untrusted" /\ (s \in gate[p].known \/ mode = "allow") THEN Becomes(p, Passed(gate[p], s))
       ELSE IF mode = "tui" THEN Becomes(p, [gate[p] EXCEPT !.pc = "asking"])
       ELSE Becomes(p, Blocked(gate[p], s))
  /\ UNCHANGED <<defined, approvals, accepted>>

\* The user allows what the dialog shows, the definition as it was loaded; the
\* file is read here and replaced in the next step.
Allow(p) ==
  /\ gate[p].pc = "asking"
  /\ LET s == Upcoming(p)
         d == gate[p].plan[s] IN
       /\ Becomes(p, [gate[p] EXCEPT !.pc = "saving", !.draft = Saved(s, d)])
       /\ accepted' = accepted \cup {<<s, d.what>>}
  /\ UNCHANGED <<defined, approvals>>

Renames(p) ==
  /\ gate[p].pc = "saving" /\ approvals' = gate[p].draft /\ Becomes(p, Passed(gate[p], Upcoming(p)))
  /\ UNCHANGED <<defined, accepted>>

Deny(p) ==
  /\ gate[p].pc = "asking" /\ Becomes(p, Blocked(gate[p], Upcoming(p)))
  /\ UNCHANGED <<defined, approvals, accepted>>

Run(p) ==
  /\ gate[p].pc = "gating" /\ gate[p].todo = {} /\ Becomes(p, [gate[p] EXCEPT !.pc = "running"])
  /\ UNCHANGED <<defined, approvals, accepted>>

Quit(p) ==
  /\ gate[p].pc # "idle" /\ Becomes(p, Idle)
  /\ UNCHANGED <<defined, approvals, accepted>>

-----------------------------------------------------------------------------
(* What else writes the files. *)

\* The user, or another program, edits the project's configuration.
Edit(s, d) ==
  /\ d # defined[s] /\ defined' = [defined EXCEPT ![s] = d]
  /\ UNCHANGED <<approvals, gate, accepted>>

\* keepProjectServerApprovals(): a server that was approved as it was before the
\* save stays so, when nothing but its directTools changed.
Keeps(s, before, after) == IsApproved(s, before) /\ before.what = after.what

\* The panel saves a directTools choice: it reads the configuration, writes the
\* setting and reads it again; another program may write the entry in between
\* (`meanwhile`).
PanelSaves(p, s, direct, meanwhile) ==
  /\ gate[p].pc = "running" /\ defined[s] # None
  /\ LET after == [what |-> meanwhile, direct |-> direct] IN
       /\ defined' = [defined EXCEPT ![s] = after]
       /\ approvals' = IF gate[p].mode # "untrusted" /\ Keeps(s, defined[s], after)
                       THEN Saved(s, after) ELSE approvals
  /\ UNCHANGED <<gate, accepted>>

\* An install into the project that the user confirmed: the entry is written, and
\* approved as the loader now makes it, with the other files it merges.  The
\* server has to be new to the process.
Install(p, s, effective) ==
  /\ gate[p].pc = "running" /\ gate[p].mode # "untrusted" /\ gate[p].plan[s] = None /\ s \notin gate[p].blocked
  /\ LET d == [what |-> effective, direct |-> FALSE] IN
       /\ defined' = [defined EXCEPT ![s] = d] /\ approvals' = Saved(s, d)
       /\ accepted' = accepted \cup {<<s, effective>>}
  /\ UNCHANGED gate

Next ==
  \/ \E p \in Process : Gate(p) \/ Allow(p) \/ Renames(p) \/ Deny(p) \/ Run(p) \/ Quit(p)
  \/ \E p \in Process, mode \in Mode : Load(p, mode)
  \/ \E p \in Process, s \in Project, direct \in BOOLEAN, w \in What : PanelSaves(p, s, direct, w)
  \/ \E p \in Process, s \in Project, w \in What : Install(p, s, w)
  \/ \E s \in Project, d \in Definition \cup {None} : Edit(s, d)

-----------------------------------------------------------------------------
\* The approvals file holds only what the user accepted, for any interleaving of
\* processes, dialogs and edits: a panel's save creates no approval, and an answer
\* is about what the dialog showed (project-server-trust.ts:227-233).
ApprovalsWereGiven == \A a \in approvals : <<a.server, a.def.what>> \in accepted

\* A project server that runs in a process runs as the user accepted it, unless
\* the user's own settings let unapproved servers run where nobody can be asked.
RunsWhatWasAllowed ==
  \A p \in Process, s \in Project :
    gate[p].pc = "running" /\ gate[p].plan[s] # None /\ gate[p].mode # "allow" =>
      <<s, gate[p].plan[s].what>> \in accepted

\* What a pass over the project's servers goes by: what waits to be decided has a definition,
\* what it knows and what it is about to write was accepted, and so was what it let through.
PassIsHonest(g, given) ==
  /\ g.pc \in {"asking", "saving"} => g.todo # {}
  /\ \A s \in g.todo : g.plan[s] # None
  /\ \A s \in g.known : <<s, g.plan[s].what>> \in given
  /\ \A a \in g.draft : <<a.server, a.def.what>> \in given
  /\ \A s \in Project :
       \/ g.plan[s] = None \/ g.mode = "allow" \/ s \in g.todo
       \/ <<s, g.plan[s].what>> \in given
  /\ g.pc = "saving" => LET s == CHOOSE s \in g.todo : TRUE IN <<s, g.plan[s].what>> \in given
  /\ g.pc = "running" => g.todo = {}

\* Inductive: RunsWhatWasAllowed follows.
TrustInv == TypeOK /\ ApprovalsWereGiven /\ \A p \in Process : PassIsHonest(gate[p], accepted)
=============================================================================
