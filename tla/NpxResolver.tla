---------------------------- MODULE NpxResolver ----------------------------
(***************************************************************************)
(* Finding the binary behind an npx command (npx-resolver.ts).  npm keeps  *)
(* a directory for each specification it was asked for; a directory is     *)
(* found by the package it holds.  What was found is kept for TTL in a     *)
(* file that every process reads, changes and renames.  One package, asked *)
(* for as it comes ("any") or at exact version 1 ("one").                  *)
(***************************************************************************)
EXTENDS Naturals

CONSTANTS Starter, Dir, Keep, None   \* Keep stands for CACHE_TTL_MS

VARIABLES
  holds,   \* the version that each directory holds, 0 if none
  newest,  \* the directory that was changed last
  kept,    \* the cache file: for "any" and "one", [bin, of, left] or None
  starter, \* where each resolution is
  moved    \* history: the directory of a kept entry has changed since

npxVars == <<holds, newest, kept, starter, moved>>
Specs == {"any", "one"}
Entries == [bin : Dir, of : 1..2, left : 0..Keep] \cup {None}
NoStart == [pc |-> "idle", spec |-> "any", file |-> None, bin |-> None]

TypeOK ==
  /\ holds \in [Dir -> 0..2] /\ newest \in Dir
  /\ kept \in [Specs -> Entries] /\ moved \in [Specs -> BOOLEAN]
  /\ starter \in [Starter -> [pc : {"idle", "installing", "saving", "resolved"}, spec : Specs,
                              file : [Specs -> Entries] \cup {None}, bin : Dir \cup {None}]]

Init ==
  /\ holds = [d \in Dir |-> 0] /\ newest = (CHOOSE d \in Dir : TRUE)
  /\ kept = [s \in Specs |-> None] /\ moved = [s \in Specs |-> FALSE]
  /\ starter = [p \in Starter |-> NoStart]

-----------------------------------------------------------------------------
(* resolveNpxBinary() *)

\* A directory that holds the package, at the exact version if there is one.
Fits(d, spec) == holds[d] # 0 /\ (spec = "one" => holds[d] = 1)

\* findCachedPackageDir(): the one that was changed last.
Found(spec) ==
  LET fit == {d \in Dir : Fits(d, spec)} IN
  IF fit = {} THEN None ELSE IF newest \in fit THEN newest ELSE CHOOSE d \in fit : TRUE

\* The kept entry serves for its time, while its file exists.
Cached(spec) ==
  /\ kept[spec] # None /\ kept[spec].left > 0 /\ holds[kept[spec].bin] # 0
  /\ spec = "one" => kept[spec].of = 1

Goes(p, pc, spec, bin, file) ==
  starter' = [starter EXCEPT ![p] = [pc |-> pc, spec |-> spec, file |-> file, bin |-> bin]]

\* Up to the first await: the cache, the directories, or npm is started.
Resolve(p, spec) ==
  /\ starter[p].pc = "idle"
  /\ IF Cached(spec) THEN Goes(p, "resolved", spec, kept[spec].bin, None)
     ELSE IF Found(spec) # None THEN Goes(p, "saving", spec, Found(spec), kept)
     ELSE Goes(p, "installing", spec, None, None)
  /\ UNCHANGED <<holds, newest, kept, moved>>

\* npm has ended, failed, or was killed after thirty seconds: the directories are
\* looked at once more; the original command is the fallback.
Installed(p) ==
  /\ starter[p].pc = "installing"
  /\ LET bin == Found(starter[p].spec) IN
     IF bin # None THEN Goes(p, "saving", starter[p].spec, bin, kept)
     ELSE starter' = [starter EXCEPT ![p] = NoStart]
  /\ UNCHANGED <<holds, newest, kept, moved>>

\* saveCacheEntry() renames over what was in the file when it was read, or fails.
Save(p) ==
  /\ starter[p].pc = "saving"
  /\ \/ /\ holds[starter[p].bin] # 0
        /\ kept' = [starter[p].file EXCEPT ![starter[p].spec] =
                      [bin |-> starter[p].bin, of |-> holds[starter[p].bin], left |-> Keep]]
        /\ moved' = [s \in Specs |-> IF s = starter[p].spec THEN FALSE
                                     ELSE kept'[s] # None /\ kept'[s].of # holds[kept'[s].bin]]
     \/ UNCHANGED <<kept, moved>>
  /\ Goes(p, "resolved", starter[p].spec, starter[p].bin, None) /\ UNCHANGED <<holds, newest>>

\* The signal aborts an installation, or the resolution's caller is done with it.
Done(p) ==
  /\ starter[p].pc \in {"installing", "resolved"} /\ starter' = [starter EXCEPT ![p] = NoStart]
  /\ UNCHANGED <<holds, newest, kept, moved>>

\* npm installs, updates or removes what a directory holds.
Npm(d, v) ==
  /\ v # holds[d] /\ holds' = [holds EXCEPT ![d] = v] /\ newest' = d
  /\ moved' = [s \in Specs |-> moved[s] \/ (kept[s] # None /\ kept[s].bin = d)]
  /\ \A p \in Starter : starter[p].pc # "saving"   \* found and saved without an await
  /\ UNCHANGED <<kept, starter>>

Ages ==
  /\ \E s \in Specs : kept[s] # None /\ kept[s].left > 0
  /\ kept' = [s \in Specs |-> IF kept[s] = None THEN None
                              ELSE [kept[s] EXCEPT !.left = IF @ > 0 THEN @ - 1 ELSE 0]]
  /\ \A p \in Starter : starter[p].pc # "saving"
  /\ UNCHANGED <<holds, newest, starter, moved>>

Next ==
  \/ \E p \in Starter, s \in Specs : Resolve(p, s)
  \/ \E p \in Starter : Installed(p) \/ Save(p) \/ Done(p)
  \/ \E d \in Dir, v \in 0..2 : Npm(d, v)
  \/ Ages

-----------------------------------------------------------------------------
\* The inductive invariant.  An entry says what its directory held; once npm has changed that,
\* `moved` says so.  What is about to be saved was found in this turn and still fits.
EntriesAreTrue == \A s \in Specs : kept[s] # None /\ ~moved[s] => kept[s].of = holds[kept[s].bin]
SavingFits ==
  \A p \in Starter : starter[p].pc = "saving" =>
    starter[p].bin # None /\ starter[p].file # None /\ Fits(starter[p].bin, starter[p].spec)
NpxInv == TypeOK /\ EntriesAreTrue /\ SavingFits

\* A server that names an exact version gets it, whatever else npm keeps of the
\* package (CHANGELOG.md:420), unless npm has changed a directory since its entry was
\* kept: then it gets what the directory holds now, for the rest of the entry's time.
PinnedIsHonoured ==
  [][\A p \in Starter :
       starter'[p].pc = "resolved" /\ starter[p].pc # "resolved" /\ starter'[p].spec = "one"
       => holds[starter'[p].bin] = 1 \/ moved["one"]]_npxVars
=============================================================================
