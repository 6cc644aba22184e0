--------------------------- MODULE RequestHeaders ---------------------------
(***************************************************************************)
(* Killing the command that derives a request's headers                    *)
(* (request-headers-command.ts), with everything it has started.  Its      *)
(* descendants are found in the process table: by their parents, and by a  *)
(* token in their environment.  They run on meanwhile: they fork, end,     *)
(* leave the group, clear their environment, lose their parents.  One      *)
(* reading of the process table is one step; the second pass is there for  *)
(* readings that take longer.                                              *)
(***************************************************************************)
EXTENDS Naturals, FiniteSets

CONSTANTS Pid, Root, MaxPasses, Stable  \* in the code MaxPasses = 16, Stable = 2

VARIABLES
  life,    \* what each process is: "none", "runs", "frozen" or "dead"
  parent,  \* the process that started it, or itself once that has ended
  group,   \* the processes of the command's group
  marked,  \* the processes that carry the cleanup token
  tracked, \* trackedPosixDescendantPids
  phase,   \* "runs", "scans", "found", "kills", "done" or "failed"
  found,   \* candidates of the last scan that were not frozen
  held,    \* frozenPids
  stable,  \* stablePasses
  passes   \* pass

treeVars == <<life, parent, group, marked, tracked, phase, found, held, stable, passes>>
processes == <<life, parent, group, marked>>

TypeOK ==
  /\ life \in [Pid -> {"none", "runs", "frozen", "dead"}] /\ parent \in [Pid -> Pid]
  /\ group \subseteq Pid /\ marked \subseteq Pid /\ tracked \subseteq Pid /\ held \subseteq Pid
  /\ phase \in {"runs", "scans", "found", "kills", "done", "failed"}
  /\ found \subseteq Pid /\ stable \in 0..Stable /\ passes \in 0..MaxPasses

Init ==
  /\ life = [p \in Pid |-> IF p = Root THEN "runs" ELSE "none"] /\ parent = [p \in Pid |-> p]
  /\ group = {Root} /\ marked = {Root} /\ tracked = {} /\ phase = "runs"
  /\ found = {} /\ held = {} /\ stable = 0 /\ passes = 0

Alive(p) == life[p] \in {"runs", "frozen"}

-----------------------------------------------------------------------------
(* The command and what it starts. *)

\* A process starts another, which may leave the group or drop the environment.
Fork(p, q) ==
  /\ life[p] = "runs" /\ life[q] = "none"
  /\ life' = [life EXCEPT ![q] = "runs"] /\ parent' = [parent EXCEPT ![q] = p]
  /\ \E same, keeps \in BOOLEAN :
       /\ group' = IF same /\ p \in group THEN group \cup {q} ELSE group
       /\ marked' = IF keeps /\ p \in marked THEN marked \cup {q} ELSE marked
  /\ UNCHANGED <<tracked, phase, found, held, stable, passes>>

\* A process ends; its children belong to nobody here.
Exit(p) ==
  /\ life[p] = "runs" /\ life' = [life EXCEPT ![p] = "dead"]
  /\ parent' = [q \in Pid |-> IF parent[q] = p THEN q ELSE parent[q]]
  /\ UNCHANGED <<group, marked, tracked, phase, found, held, stable, passes>>

-----------------------------------------------------------------------------
(* collectPosixProcessPids() and killRequestHeadersCommand(). *)

\* Who is in ps, or descends from one of them by parents: the least set that has these
\* and, with a process, its children that are alive.
ClosedUnderChildren(C) == \A q \in Pid : Alive(q) /\ parent[q] \in C => q \in C
Below(ps) == {p \in Pid : \A C \in SUBSET Pid : ps \subseteq C /\ ClosedUnderChildren(C) => p \in C}

\* One reading of the process table.
Discovered == (Below({Root}) \ {Root}) \cup {p \in marked : Alive(p)}

Freeze(ps) == [p \in Pid |-> IF p \in ps /\ life[p] = "runs" THEN "frozen" ELSE life[p]]

\* The tracker notes, every 50 ms, whom it finds.
Track ==
  /\ phase = "runs" /\ tracked' = tracked \cup Discovered
  /\ UNCHANGED <<processes, phase, found, held, stable, passes>>

\* The command ended, ran out of time or was aborted: its group and the tracked freeze.
Stop ==
  /\ phase = "runs" /\ phase' = "scans"
  /\ life' = Freeze(group \cup tracked) /\ held' = tracked
  /\ UNCHANGED <<parent, group, marked, tracked, found, stable, passes>>

\* A pass reads the process table; two that find nobody new end the search.
Scan ==
  /\ phase = "scans" /\ passes < MaxPasses /\ passes' = passes + 1
  /\ found' = Discovered \ held
  /\ stable' = IF found' = {} THEN stable + 1 ELSE 0
  /\ phase' = IF found' # {} THEN "found" ELSE IF stable' = Stable THEN "kills" ELSE "scans"
  /\ UNCHANGED <<processes, tracked, held>>

Found ==
  /\ phase = "found" /\ phase' = "scans" /\ life' = Freeze(found) /\ held' = held \cup found
  /\ UNCHANGED <<parent, group, marked, tracked, found, stable, passes>>

\* The group and the frozen are killed, also when the tree did not come to rest or the
\* process table could not be read.
Killed(ps) ==
  /\ life' = [p \in Pid |-> IF p \in ps /\ Alive(p) THEN "dead" ELSE life[p]]
  /\ parent' = [q \in Pid |-> IF parent[q] \in ps THEN q ELSE parent[q]]
  /\ UNCHANGED <<group, marked, tracked, found, held, stable, passes>>

Kill == phase = "kills" /\ phase' = "done" /\ Killed(group \cup held)
GiveUp == phase = "scans" /\ phase' = "failed" /\ Killed(group \cup held)

Next ==
  \/ \E p, q \in Pid : Fork(p, q)
  \/ \E p \in Pid : Exit(p)
  \/ Track \/ Stop \/ Scan \/ Found \/ Kill \/ GiveUp

-----------------------------------------------------------------------------
\* A process that dropped the token and has no chain of parents to the command left
\* cannot be found, unless the tracker knew it.
Lost(p) == p \notin marked \cup tracked \cup group

\* The search ends only when nobody who could be found is still at large, whatever
\* forked between two readings of the process table; when the command is reported as
\* done, nothing it started runs any more, except who could not be found.
NothingIsLeftRunning ==
  /\ phase = "kills" => Discovered \subseteq group \cup held
  /\ phase = "done" => \A p \in Pid : Alive(p) => Lost(p)

\* Who has not been started is known to nobody.
NobodyIsEarly ==
  /\ life[Root] # "none" /\ Root \in group
  /\ \A q \in Pid : life[q] = "none" => /\ q \notin group \cup marked \cup tracked \cup found \cup held
                                         /\ \A r \in Pid \ {q} : parent[r] # q

\* From the first freeze on, the group and who is held do nothing more, and who was tracked
\* is held; the search goes on until enough passes found nobody.
TheHeldRest ==
  /\ phase # "runs" => /\ tracked \subseteq held
                        /\ \A p \in group \cup held : life[p] # "runs"
  /\ phase \in {"runs", "scans", "found"} => stable < Stable

\* Inductive.
TreeInv == TypeOK /\ NobodyIsEarly /\ TheHeldRest /\ NothingIsLeftRunning
=============================================================================
