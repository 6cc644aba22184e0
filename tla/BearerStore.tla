---------------------------- MODULE BearerStore ----------------------------
(***************************************************************************)
(* A server's bearer token in the operating system's credential store      *)
(* (mcp-bearer-store.ts), which limits the size of an entry: a long record *)
(* is written as chunks, named by its digest, and a manifest that names    *)
(* them.  Saving, removing and reading are runs of single store            *)
(* operations; each may fail, the process may end between two of them, and *)
(* another process may work on the same record.                            *)
(***************************************************************************)
EXTENDS Naturals, Sequences

CONSTANTS Writer, Record, Long, Parts, None  \* Long \subseteq Record, of Parts chunks each

VARIABLES
  stored,    \* the record that the server's entry holds or whose manifest it is, or None
  chunk,    \* the chunks in the store, under their names
  job,      \* what each process is at: the operations it still has to do
  result,   \* whether its last reading gave parts of two records
  littered, \* history: cleaning up was cut short, or one of the last two came to pass
  torn,     \* history: a removal was cut short, and nothing was written since
  unseen,   \* history: a save could not read what it replaced
  contended \* history: two processes worked on the record at once, and nothing was written since

storeVars == <<stored, chunk, job, result, littered, torn, unseen, contended>>

ChunkNames == Long \X (1..Parts)

\* chunkAccount(): the digest says whose part it is; two records share none.
ChunkName(rec, i) == <<rec, i>>

Idle == [kind |-> "none", rec |-> None, prev |-> None, todo |-> <<>>, got |-> {},
         alone |-> TRUE]
Results == {"none", "splice"}

\* One operation on the store; a tolerant one ends its job quietly when it fails.
Op(do, name, tolerant) == [do |-> do, name |-> name, tolerant |-> tolerant]
Ops == [do : {"write", "remove", "read"}, name : ChunkNames \cup {None}, tolerant : BOOLEAN]

TypeOK ==
  /\ stored \in Record \cup {None} /\ chunk \in [ChunkNames -> Record \cup {None}]
  /\ job \in [Writer -> [kind : {"none", "save", "remove", "read", "clean"}, rec : Record \cup {None},
                         prev : Record \cup {None}, todo : Seq(Ops), got : SUBSET (Record \cup {None}),
                         alone : BOOLEAN]]
  /\ result \in [Writer -> Results]
  /\ {littered, torn, unseen, contended} \subseteq BOOLEAN

Init ==
  /\ stored = None /\ chunk = [n \in ChunkNames |-> None]
  /\ job = [p \in Writer |-> Idle] /\ result = [p \in Writer |-> "none"]
  /\ littered = FALSE /\ torn = FALSE /\ unseen = FALSE
  /\ contended = FALSE

\* One operation for each chunk of a record, if it is long.
ForChunks(rec, do, tolerant) ==
  IF rec \in Long THEN [i \in 1..Parts |-> Op(do, ChunkName(rec, i), tolerant)] ELSE <<>>

Starts(p, kind, rec, prev, todo) ==
  /\ job[p].kind = "none"
  /\ LET meets == {q \in Writer \ {p} : kind # "read" /\ job[q].kind \notin {"none", "read"}} IN
     job' = [q \in Writer |->
       IF q # p THEN [job[q] EXCEPT !.alone = @ /\ q \notin meets]
       ELSE [kind |-> kind, rec |-> rec, prev |-> prev, todo |-> todo, got |-> {}, alone |-> meets = {}]]
  /\ result' = [result EXCEPT ![p] = "none"]
  /\ contended' = (contended \/ ~job'[p].alone)
  /\ unseen' = (unseen \/ (kind = "save" /\ prev # stored))
  /\ littered' = (littered \/ unseen' \/ contended')
  /\ UNCHANGED <<stored, chunk, torn>>

\* writeBearerRecordToStore(), whose first reading yields the previous manifest or fails.
Save(p, rec) ==
  \E prev \in {stored, None} :
    Starts(p, "save", rec, prev, ForChunks(rec, "write", FALSE) \o <<Op("write", None, FALSE)>>
                           \o IF prev # rec THEN ForChunks(prev, "remove", TRUE) ELSE <<>>)

\* removeBearerRecordFromStore(), after its reading.
Remove(p) == Starts(p, "remove", None, None, ForChunks(stored, "remove", FALSE) \o <<Op("remove", None, FALSE)>>)

\* readBearerRecordFromStore(), after its reading of the entry.
Read(p) == stored # None /\ Starts(p, "read", stored, None, ForChunks(stored, "read", FALSE))

Store(o, rec) ==
  /\ stored' = IF o.name # None \/ o.do = "read" THEN stored ELSE IF o.do = "write" THEN rec ELSE None
  /\ chunk' = IF o.name = None \/ o.do = "read" THEN chunk
              ELSE [chunk EXCEPT ![o.name] = IF o.do = "write" THEN rec ELSE None]

\* The next operation of the job; what is written to the entry makes the record whole.
Do(p) ==
  /\ job[p].todo # <<>>
  /\ LET o == Head(job[p].todo)  whole == o.name = None /\ o.do \in {"write", "remove"} IN
     /\ Store(o, job[p].rec)
     /\ job' = [job EXCEPT ![p].todo = Tail(@), ![p].got = IF o.do = "read" THEN @ \cup {chunk[o.name]} ELSE @]
     /\ torn' = (~whole /\ (torn \/ job[p].kind = "remove"))
     /\ contended' = (contended /\ ~(whole /\ job[p].alone))
     /\ unseen' = (unseen /\ ~(whole /\ job[p].alone))
  /\ UNCHANGED <<result, littered>>

\* MUTANT of CleanUp: the chunks of a failed save go, whoever else needs them.
CleanUpAlways(prev, rec) == ForChunks(rec, "remove", TRUE)

\* The chunks of a failed save go, unless the manifest it read names the same.
CleanUp(prev, rec) == IF prev = rec THEN <<>> ELSE ForChunks(rec, "remove", TRUE)

\* The operation fails.
Fails(p) ==
  /\ job[p].todo # <<>> /\ UNCHANGED <<stored, chunk, torn, unseen, contended>>
  /\ LET o == Head(job[p].todo)  j == job[p] IN
     IF o.tolerant
     THEN job' = [job EXCEPT ![p] = Idle] /\ littered' = TRUE /\ UNCHANGED result
     ELSE IF j.kind = "save"
     THEN /\ job' = [job EXCEPT ![p].kind = "clean", ![p].todo = CleanUp(j.prev, j.rec)]
          /\ UNCHANGED <<result, littered>>
     ELSE job' = [job EXCEPT ![p] = Idle] /\ UNCHANGED <<result, littered>>

\* What a reading found: the record, an error if a chunk is missing, or parts of two.
Parsed(j) == IF j.got \subseteq {j.rec} \/ None \in j.got THEN "none" ELSE "splice"

Ends(p) ==
  /\ job[p].kind # "none" /\ job[p].todo = <<>>
  /\ job' = [job EXCEPT ![p] = Idle]
  /\ result' = IF job[p].kind = "read" THEN [result EXCEPT ![p] = Parsed(job[p])] ELSE result
  /\ UNCHANGED <<stored, chunk, littered, torn, unseen, contended>>

Crash(p) ==
  /\ job[p].kind # "none"
  /\ job' = [job EXCEPT ![p] = Idle]
  /\ littered' = (littered \/ job[p].kind \in {"save", "clean"})
  /\ UNCHANGED <<stored, chunk, result, torn, unseen, contended>>

Next == \E p \in Writer :
  Remove(p) \/ Read(p) \/ Do(p) \/ Fails(p) \/ Ends(p) \/ Crash(p) \/ \E rec \in Record : Save(p, rec)

-----------------------------------------------------------------------------
Whole(rec) == \A i \in 1..Parts : rec \in Long => chunk[ChunkName(rec, i)] = rec

\* What the entry names is there in full at every moment, whatever save failed or was
\* cut short; only a removal that was, processes at work on the record at once, and a
\* save that could not read what it replaces leave it unreadable
\* (mcp-bearer-store.ts:177-180).
RecordIsWhole == stored # None /\ ~torn /\ ~contended /\ ~unseen => Whole(stored)

\* A reading gives a record as it was saved or an error, never parts of two, also
\* while another process writes.
NothingIsSpliced == \A p \in Writer : result[p] # "splice"

\* Nothing of a token stays behind its replacement or removal, unless cleaning up
\* failed, the save did not see it, or two processes were at it.
NothingIsLeft ==
  ~littered /\ (\A p \in Writer : job[p].kind \in {"none", "read"})
  => \A n \in ChunkNames : chunk[n] # None => n[1] = stored

-----------------------------------------------------------------------------
\* What the properties rest on.
Manifest == Op("write", None, FALSE)
HasTodo(j, o) == \E i \in 1..Len(j.todo) : j.todo[i] = o
Changing(p) == job[p].kind \in {"save", "remove", "clean"}

\* What a job still has to do is of its kind: a save writes its chunks, then the manifest,
\* and then removes those of the record it replaced, if that is another one.
FitsPlan(j) ==
  /\ j.kind = "none" => j.todo = <<>>
  /\ j.kind = "read" => j.got \subseteq {j.rec, None}
  /\ \A i \in 1..Len(j.todo) : LET o == j.todo[i] IN
       /\ j.kind = "read" => o.do = "read" /\ o.name # None /\ o.name[1] = j.rec
       /\ j.kind = "remove" => o.do = "remove" /\ ~o.tolerant
       /\ j.kind = "clean" => /\ o.do = "remove" /\ o.tolerant /\ o.name # None
                             /\ o.name[1] = j.rec /\ j.prev # j.rec
       /\ j.kind = "save" =>
            \/ o.do = "write" /\ ~o.tolerant /\ (o.name # None => o.name[1] = j.rec) /\ HasTodo(j, Manifest)
            \/ /\ o.do = "remove" /\ o.tolerant /\ o.name # None
               /\ o.name[1] = j.prev /\ j.prev # j.rec
  /\ j.kind = "save" => /\ \A i \in 1..Len(j.todo) : \A k \in 1..i - 1 :
                              j.todo[k].name = None \/ j.todo[k].do = "remove" => j.todo[i].do = "remove"
                        /\ j.rec # None
                        /\ HasTodo(j, Manifest) /\ j.prev # j.rec
                           => \A n \in ChunkNames : n[1] = j.prev => HasTodo(j, Op("remove", n, TRUE))
  /\ j.kind = "remove" => \A i \in 1..Len(j.todo) : \A k \in 1..i - 1 : j.todo[k].name # None

\* Who changes the record alone knows what is stored: before it writes the manifest, what it
\* read; and the chunks it has written are there.
KnowsStored(p) ==
  LET j == job[p] IN
  /\ j.kind = "save" =>
       IF HasTodo(j, Manifest)
       THEN /\ j.prev = stored \/ unseen
            /\ \A n \in ChunkNames : n[1] = j.rec => chunk[n] = j.rec \/ HasTodo(j, Op("write", n, FALSE))
       ELSE stored = j.rec
  /\ j.kind = "clean" => j.prev = stored \/ unseen

\* Every job follows its plan; one that met nobody is alone with the record and knows it.
JobsFit ==
  \A p \in Writer :
    /\ FitsPlan(job[p])
    /\ Changing(p) /\ job[p].alone => KnowsStored(p) /\ \A q \in Writer \ {p} : ~Changing(q)
    /\ Changing(p) /\ ~contended => job[p].alone

\* A chunk in the store is the current record's, or somebody who changes it will remove it,
\* or write the manifest that names it.
ChunksAreKept ==
  /\ \A n \in ChunkNames : chunk[n] \in {None, n[1]}
  /\ contended \/ unseen => littered
  /\ ~littered => \A n \in ChunkNames : chunk[n] # None =>
       \/ /\ n[1] = stored
          /\ \A p \in Writer : job[p].kind = "remove" => HasTodo(job[p], Op("remove", n, FALSE))
       \/ \E p \in Writer : /\ job[p].kind = "save" /\ HasTodo(job[p], Manifest)
                            /\ n[1] = job[p].rec
       \/ \E p \in Writer : /\ job[p].kind \in {"save", "clean"}
                            /\ HasTodo(job[p], Op("remove", n, TRUE))

\* Inductive.
StoreInv == TypeOK /\ JobsFit /\ ChunksAreKept /\ RecordIsWhole /\ NothingIsSpliced
=============================================================================
