----------------------------- MODULE MetadataCache -----------------------------
(***************************************************************************)
(* The metadata cache file (metadata-cache.ts) that the Pi processes of a  *)
(* user share, for one server.  An update reads the file, computes its new *)
(* contents and renames them into place without a lock: other processes    *)
(* work between the two.  What a session writes comes from                 *)
(* captureMetadata() and the app catalog passes of init.ts.                *)
(***************************************************************************)
EXTENDS Naturals

CONSTANTS Session, Hash, Scopes, None, MaxTime

VARIABLES
  entry,       \* the server's entry in the file
  time,        \* listings and catalogs are numbered as they arrive
  step,       \* what a session is doing
  hash,        \* the configuration of the server that a session runs with, or None
  snapshot,    \* the entry its startup read
  own,         \* sessionMetadata, with what is read from it again
  draft,       \* the entry it is about to save
  write,       \* the update it has read the file for
  raced        \* history: sessions that will replace a file they have not read

vars == <<entry, time, step, hash, snapshot, own, draft, write, raced>>

\* res: the scope of the listing its resources and prompts come from; shape: the tool definition
\* the output shape was learned against; apps: the app catalog, with or without a full signature
Entries == [hash : Hash, at : 1..MaxTime, failed : BOOLEAN, scope : Scopes, tool : 0..2,
            shape : 0..2, res : Scopes \cup {"none"}, apps : 0..MaxTime, signed : BOOLEAN]

TypeOK ==
  /\ entry \in Entries \cup {None} /\ time \in 0..MaxTime
  /\ step \in [Session -> {"off", "starting", "startup", "running", "listed", "writing"}]
  /\ hash \in [Session -> Hash \cup {None}] /\ raced \subseteq Session
  /\ snapshot \in [Session -> Entries \cup {None}] /\ own \in [Session -> Entries \cup {None}]
  /\ draft \in [Session -> Entries \cup {None}]
  /\ write \in [Session -> {None} \cup [kind : {"startup", "listing", "shape", "apps", "signature"},
                                        entry : Entries \cup {None}]]

Init ==
  /\ entry = None  /\ time = 0 /\ raced = {}
  /\ step = [s \in Session |-> "off"] /\ hash = [s \in Session |-> None]
  /\ snapshot = [s \in Session |-> None] /\ own = snapshot /\ draft = snapshot /\ write = snapshot

-----------------------------------------------------------------------------
(* What an update makes of an entry *)

\* isServerCacheValid(), without a declared time to live
Valid(e, h) == e # None /\ e.hash = h /\ ~e.failed /\ e.scope = "shared"

\* withoutSessionOnlyCatalog()
Persisted(e) == IF e.scope = "shared" THEN e ELSE [e EXCEPT !.apps = 0, !.signed = FALSE]

\* keepOutputShapes()
KeptShape(previous, h, tool) ==
  IF previous # None /\ previous.hash = h /\ previous.scope # "private" /\ previous.tool = tool
  THEN previous.shape ELSE 0

\* MUTANT of StartupMerged: the file is not compared with the snapshot.
StartupMergedBlindly(disk, e, old) == e

\* saveMetadataCache() with a startup snapshot, for one server
StartupMerged(disk, e, old) ==
  IF e.failed THEN IF disk = old THEN e ELSE disk
  ELSE IF disk # None /\ ~disk.failed /\ disk.hash = e.hash
  THEN IF disk.at > e.at THEN disk
       ELSE LET kept   == KeptShape(disk, e.hash, e.tool)
                merged == [e EXCEPT !.shape = IF kept = 0 THEN @ ELSE kept]
            IN IF merged.apps = 0 /\ disk.apps # 0
               THEN Persisted([merged EXCEPT !.apps = disk.apps, !.signed = disk.signed])
               ELSE merged
  ELSE e

\* captureMetadata(): what the session may still use of its last listing
Fallback(s, scope) ==
  IF own[s] # None /\ (own[s].scope # "private" \/ scope = "private") THEN own[s] ELSE None

\* captureMetadata() of a listing of `tool`; `existing` is the entry it read from the file
Captured(s, existing, tool, scope, failed) ==
  LET fallback == Fallback(s, scope)
      valid    == Valid(existing, hash[s])
      apps     == IF fallback # None /\ fallback.apps # 0 THEN fallback
                  ELSE IF valid THEN existing ELSE None
  IN [hash |-> hash[s], at |-> time + 1, failed |-> FALSE, scope |-> scope, tool |-> tool,
      shape |-> KeptShape(existing, hash[s], tool),
      res |-> IF ~failed THEN scope
              ELSE IF fallback # None THEN fallback.res ELSE IF valid THEN existing.res ELSE "none",
      apps |-> IF apps = None THEN 0 ELSE apps.apps,
      signed |-> IF apps = None THEN FALSE ELSE apps.signed]

\* A discovery at startup that failed
Marker(s) == [hash |-> hash[s], at |-> time + 1, failed |-> TRUE, scope |-> "shared", tool |-> 0,
              shape |-> 0, res |-> "none", apps |-> 0, signed |-> FALSE]

\* Its time and its output shape are in the file only.
Owned(e) == [e EXCEPT !.at = 1, !.shape = 0]

-----------------------------------------------------------------------------
(* Sessions *)

\* A server is contacted at startup for its catalog, unless that failed before with the same
\* configuration or the listing is a private one.
NeedsDiscovery(e, h) ==
  e # None => ~Valid(e, h) /\ ~(e.failed /\ e.hash = h) /\ e.scope # "private"

\* initializeMcp() reads the cache; `resident`: the server is contacted in any case.
Startup(s) ==
  /\ step[s] = "off"
  /\ \E h \in Hash, resident \in BOOLEAN :
       /\ hash' = [hash EXCEPT ![s] = h]
       /\ IF resident \/ NeedsDiscovery(entry, h)
          THEN /\ step' = [step EXCEPT ![s] = "starting"]
               /\ snapshot' = [snapshot EXCEPT ![s] = entry]
          ELSE step' = [step EXCEPT ![s] = "running"] /\ UNCHANGED snapshot
  /\ own' = [own EXCEPT ![s] = None]
  /\ UNCHANGED <<entry, time, draft, write, raced>>

\* The pass lists the server, or fails to; a failure that is transient or for a server that was
\* not to be discovered leaves no marker.
StartupListed(s) ==
  /\ step[s] = "starting" /\ time < MaxTime
  /\ \/ \E tool \in 1..2, scope \in Scopes, failed \in BOOLEAN :
          LET e == Captured(s, snapshot[s], tool, scope, failed) IN
          /\ own' = [own EXCEPT ![s] = Owned(e)] /\ draft' = [draft EXCEPT ![s] = Persisted(e)]
          /\ step' = [step EXCEPT ![s] = "startup"] /\ time' = time + 1
     \/ /\ NeedsDiscovery(snapshot[s], hash[s]) /\ draft' = [draft EXCEPT ![s] = Marker(s)]
        /\ step' = [step EXCEPT ![s] = "startup"] /\ time' = time + 1 /\ UNCHANGED own
     \/ step' = [step EXCEPT ![s] = "running"] /\ UNCHANGED <<own, draft, time>>
  /\ snapshot' = IF step'[s] = "running" THEN [snapshot EXCEPT ![s] = None] ELSE snapshot
  /\ UNCHANGED <<entry, hash, write, raced>>

\* updateMetadataCache(): what is listed later is captured with the file as it is
Listed(s) ==
  /\ step[s] = "running" /\ time < MaxTime /\ time' = time + 1
  /\ \E tool \in 1..2, scope \in Scopes, failed \in BOOLEAN :
       LET e == Captured(s, entry, tool, scope, failed) IN
       own' = [own EXCEPT ![s] = Owned(e)] /\ draft' = [draft EXCEPT ![s] = Persisted(e)]
  /\ step' = [step EXCEPT ![s] = "listed"]
  /\ UNCHANGED <<entry, hash, snapshot, write, raced>>

\* updateMetadataCacheFile() reads the file.
Reads(s, kind, e) ==
  /\ write' = [write EXCEPT ![s] = [kind |-> kind, entry |-> e]]
  /\ step' = [step EXCEPT ![s] = "writing"]

Saves(s) ==
  /\ \/ step[s] = "startup" /\ Reads(s, "startup", StartupMerged(entry, draft[s], snapshot[s]))
     \/ step[s] = "listed" /\ Reads(s, "listing", draft[s])
  /\ draft' = [draft EXCEPT ![s] = None]
  /\ UNCHANGED <<entry, time, hash, snapshot, own, raced>>

\* saveObservedOutput(): a tool as the session lists it gave a result.
SavesOutput(s) ==
  /\ step[s] = "running" /\ own[s] # None
  /\ entry # None /\ entry.hash = hash[s] /\ entry.tool = own[s].tool
  /\ Reads(s, "shape", [entry EXCEPT !.shape = own[s].tool])
  /\ UNCHANGED <<entry, time, hash, snapshot, own, draft, raced>>

\* saveExecutorCatalog() finds the listing that the catalog belongs to.
Shareable(s) == own[s].scope = "shared" /\ Valid(entry, hash[s])

\* The end of refreshExecutorCatalog()
AppsFetched(s) ==
  /\ step[s] = "running" /\ own[s] # None /\ time < MaxTime /\ time' = time + 1
  /\ own' = [own EXCEPT ![s].apps = time + 1, ![s].signed = FALSE]
  /\ IF Shareable(s)
     THEN Reads(s, "apps", [entry EXCEPT !.apps = time + 1, !.signed = FALSE])
     ELSE UNCHANGED <<step, write>>
  /\ UNCHANGED <<entry, hash, snapshot, draft, raced>>

\* cacheExecutorSignature()
Described(s) ==
  /\ step[s] = "running" /\ own[s] # None /\ own[s].apps # 0
  /\ own' = [own EXCEPT ![s].signed = TRUE]
  /\ IF own[s].scope = "shared" /\ entry # None /\ entry.hash = hash[s] /\ entry.apps # 0
     THEN Reads(s, "signature", [entry EXCEPT !.signed = TRUE])
     ELSE UNCHANGED <<step, write>>
  /\ UNCHANGED <<entry, time, hash, snapshot, draft, raced>>

\* The rename
Replaces(s) ==
  /\ step[s] = "writing" /\ step' = [step EXCEPT ![s] = "running"]
  /\ entry' = write[s].entry
  /\ write' = [write EXCEPT ![s] = None] /\ snapshot' = [snapshot EXCEPT ![s] = None]
  /\ raced' = (raced \ {s}) \cup {t \in Session \ {s} : step[t] = "writing"}
  /\ UNCHANGED <<time, hash, own, draft>>

\* The process ends or dies, before or after the rename.
Ends(s) ==
  /\ step[s] # "off" /\ step' = [step EXCEPT ![s] = "off"]
  /\ own' = [own EXCEPT ![s] = None] /\ draft' = [draft EXCEPT ![s] = None]
  /\ write' = [write EXCEPT ![s] = None] /\ snapshot' = [snapshot EXCEPT ![s] = None]
  /\ hash' = [hash EXCEPT ![s] = None]
  /\ raced' = raced \ {s} /\ UNCHANGED <<entry, time>>

Next == \E s \in Session : \/ Startup(s) \/ StartupListed(s) \/ Listed(s) \/ Saves(s)
                           \/ SavesOutput(s) \/ AppsFetched(s) \/ Described(s) \/ Replaces(s) \/ Ends(s)

Spec == Init /\ [][Next]_vars

-----------------------------------------------------------------------------
(* Properties *)

\* An output shape in the file was learned against the definition of the tool that is listed there.
ShapesMatchTools == entry # None /\ entry.shape # 0 => entry.shape = entry.tool

\* Resources and prompts of a private listing are in no entry that other sessions use, and an app
\* catalog is in the file only with a listing that may be shared.
PrivateStaysPrivate ==
  entry # None => /\ entry.scope # "private" => entry.res # "private"
                  /\ entry.apps # 0 => entry.scope = "shared"

Replacement(s, kinds) == /\ step[s] = "writing" /\ step'[s] = "running"
                         /\ write[s].kind \in kinds /\ s \notin raced

\* What a startup pass saves destroys nothing that was saved during the pass: a failure replaces
\* only what the startup read, a listing no newer one, no output shape that still fits and no app
\* catalog that may be shared.
StartupDestroysNothing ==
  [][\A s \in Session : Replacement(s, {"startup"}) /\ entry # None /\ entry' # entry =>
       \/ entry'.failed /\ entry = snapshot[s]
       \/ ~entry'.failed /\ (entry.failed \/ entry.hash # entry'.hash)
       \/ /\ ~entry'.failed /\ entry.hash = entry'.hash /\ entry.at <= entry'.at
          /\ entry.shape = 0 \/ entry.tool # entry'.tool \/ entry.scope = "private" \/ entry'.shape # 0
          /\ entry.apps = 0 \/ entry'.apps # 0 \/ entry'.scope # "shared"]_vars

\* An output shape, an app catalog or a signature is added to the listing that is there, and no other
\* catalog gets lost.
UpdatesAreNarrow ==
  [][\A s \in Session : Replacement(s, {"shape", "apps", "signature"}) =>
       /\ entry # None /\ entry' # None
       /\ [entry' EXCEPT !.shape = 0, !.apps = 0, !.signed = FALSE]
            = [entry EXCEPT !.shape = 0, !.apps = 0, !.signed = FALSE]
       /\ Replacement(s, {"signature", "shape"}) => entry'.apps = entry.apps]_vars

-----------------------------------------------------------------------------
\* What the properties rest on: every entry on its way to the file is as those in it must be,
\* and what a session has for its next step is there.
Sound(e) ==
  e # None => /\ e.shape # 0 => e.shape = e.tool
              /\ e.scope # "private" => e.res # "private"
              /\ e.apps # 0 => e.scope = "shared"

EntriesAreSound ==
  /\ Sound(entry)
  /\ \A s \in Session :
       /\ Sound(snapshot[s]) /\ Sound(draft[s])
       /\ own[s] # None => own[s].shape = 0 /\ (own[s].scope # "private" => own[s].res # "private")
       /\ write[s] # None => Sound(write[s].entry)
       /\ step[s] # "off" => hash[s] # None
       /\ step[s] \in {"startup", "listed"} => draft[s] # None
       /\ step[s] = "writing" => write[s] # None

\* A file that was not replaced since it was read loses nothing by what is to replace it.
Keeps(s, e) ==
  /\ write[s].kind = "startup" /\ entry # None /\ e # entry =>
       \/ e.failed /\ entry = snapshot[s]
       \/ ~e.failed /\ (entry.failed \/ entry.hash # e.hash)
       \/ /\ ~e.failed /\ entry.hash = e.hash /\ entry.at <= e.at
          /\ entry.shape = 0 \/ entry.tool # e.tool \/ entry.scope = "private" \/ e.shape # 0
          /\ entry.apps = 0 \/ e.apps # 0 \/ e.scope # "shared"
  /\ write[s].kind \in {"shape", "apps", "signature"} =>
       /\ entry # None /\ e # None
       /\ [e EXCEPT !.shape = 0, !.apps = 0, !.signed = FALSE]
            = [entry EXCEPT !.shape = 0, !.apps = 0, !.signed = FALSE]
       /\ write[s].kind # "apps" => e.apps = entry.apps

UnracedKeep == \A s \in Session \ raced : step[s] = "writing" => Keeps(s, write[s].entry)

\* Inductive.
CacheInv == TypeOK /\ EntriesAreSound /\ UnracedKeep
=============================================================================
