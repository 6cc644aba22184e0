---------------------------- MODULE CredentialStore ----------------------------
(***************************************************************************)
(* The OAuth credentials of one server name (mcp-auth.ts): the record in   *)
(* the operating system's store, in one value or as a manifest and chunks, *)
(* or in an encrypted file, the legacy plaintext file, and the cache of    *)
(* this process.                                                           *)
(*                                                                         *)
(* Operations are synchronous, so in one process they do not overlap, but  *)
(* every call to the store may fail and the process may die between two    *)
(* calls.  Another process may act between two operations of this one.     *)
(* An entry is [url, tok, client]: a field holds the url it was obtained   *)
(* for.  An entry with both fields is too large for one value where the    *)
(* store limits values.                                                    *)
(***************************************************************************)
EXTENDS Naturals

CONSTANTS Url, Null, MaxRotation

VARIABLES
  backend,  \* "chunking", "plain" or "file"
  main,     \* the record of the account: an entry, and whether only its manifest
  chunks,   \* the chunks in the store: <<entry, index>>, the digest standing for the entry
  legacy,   \* the plaintext entry
  cache,    \* authEntryCache: the entry or Null, if it is on
  op,       \* the operation in progress
  rotation, \* counts token responses, to tell them apart
  \* history: the store failed or the process died; the record lost chunks by a removal
  \* cut short or a failed rewrite of itself; another process wrote; a logout returned
  faulted, damaged, foreign, forgotten

storeVars == <<backend, main, chunks, legacy, cache, op, rotation, faulted, damaged, foreign, forgotten>>

Tok   == Url \X (0..MaxRotation)
Entry == [url : Url, tok : Tok \cup {Null}, client : Url \cup {Null}]
Slots(e) == {e} \X {1, 2}
NoRecord == [entry |-> Null, split |-> FALSE]
Unknown == [on |-> FALSE, entry |-> Null]
Known(e) == [on |-> TRUE, entry |-> e]
Idle == [at |-> "idle", new |-> Null, old |-> NoRecord, i |-> 0, why |-> "save"]

\* shouldChunkAuthPayload()
Splits(e) == backend = "chunking" /\ e.tok # Null /\ e.client # Null
Record(e) == [entry |-> e, split |-> Splits(e)]
SlotsOf(r) == IF r.split THEN Slots(r.entry) ELSE {}
Readable == SlotsOf(main) \subseteq chunks

StoreTypeOK ==
  /\ backend \in {"chunking", "plain", "file"}
  /\ main \in [entry : Entry \cup {Null}, split : BOOLEAN]
  /\ chunks \subseteq Entry \X {1, 2}
  /\ legacy \in Entry \cup {Null}
  /\ cache \in [on : BOOLEAN, entry : Entry \cup {Null}]
  /\ op \in [at : {"idle", "chunk", "main", "stale", "undo", "legacy", "remove-chunks",
                  "remove-main", "remove-legacy"},
            new : Entry \cup {Null}, old : [entry : Entry \cup {Null}, split : BOOLEAN],
            i : 0..3, why : {"save", "import", "remove"}]
  /\ rotation \in 0..MaxRotation
  /\ {faulted, damaged, foreign, forgotten} \subseteq BOOLEAN

\* A first run, a plaintext entry of an older version, or a split record of a version that
\* split on every platform.
StoreStarts(b) ==
  /\ backend \in b
  /\ LET e == [url |-> CHOOSE u \in Url : TRUE, tok |-> <<CHOOSE u \in Url : TRUE, 0>>,
               client |-> CHOOSE u \in Url : TRUE] IN
     \/ main = NoRecord /\ chunks = {} /\ legacy \in {Null, e}
     \/ /\ backend # "file" /\ main = [entry |-> e, split |-> TRUE] /\ chunks = Slots(e)
        /\ legacy \in {Null, e}
  /\ cache = Unknown /\ op = Idle /\ rotation = 0
  /\ faulted = FALSE /\ damaged = FALSE /\ foreign = FALSE /\ forgotten = FALSE

StoreInit == StoreStarts({"chunking", "plain", "file"})

-----------------------------------------------------------------------------
(* Reading *)

\* What a read of the store finds: the record, or the plaintext to be imported.
Stored == IF main.entry # Null THEN main.entry
          ELSE IF backend = "file" THEN Null ELSE legacy
Imports == main.entry = Null /\ backend # "file" /\ legacy # Null
\* A split record is rewritten as one value where the store does not limit values.
Compacts == main.split /\ ~Splits(main.entry)

\* MUTANT of WriteBegins: the manifest is written before its chunks.
ManifestFirst(e, why) ==
  op' = [at |-> "main", new |-> e, old |-> main, i |-> 1, why |-> why]

\* writeSecureAuthEntryToStore() reads the previous manifest, then writes chunks or a value.
WriteBegins(e, why) ==
  op' = [at |-> IF Splits(e) THEN "chunk" ELSE "main", new |-> e, old |-> main, i |-> 1, why |-> why]

\* readAuthEntry(): an ordinary read, which may import or compact.
Read ==
  /\ op = Idle /\ ~cache.on /\ Readable
  /\ IF Imports \/ Compacts
     THEN WriteBegins(Stored, "import") /\ UNCHANGED <<cache, legacy>>
     ELSE /\ cache' = Known(Stored) /\ UNCHANGED op
          /\ legacy' = IF main.entry # Null /\ backend # "file" THEN Null ELSE legacy
  /\ UNCHANGED <<backend, main, chunks, rotation, faulted, damaged, foreign, forgotten>>

-----------------------------------------------------------------------------
(* Writing *)

Base == IF cache.entry = Null
        THEN [url |-> Null, tok |-> Null, client |-> Null] ELSE cache.entry

\* updateTokens(): what was stored for another url is dropped.
WithTokens(u, t) == [url |-> u, tok |-> t, client |-> IF Base.url = u THEN Base.client ELSE Null]
\* updateClientInfo()
WithClient(u) == [url |-> u, tok |-> IF Base.url = u THEN Base.tok ELSE Null, client |-> u]

\* saveAuthEntry() of an update of what getAuthEntry() returned
Save(e) ==
  /\ op = Idle /\ cache.on
  /\ WriteBegins(e, "save") /\ forgotten' = FALSE
  /\ UNCHANGED <<backend, main, chunks, legacy, cache, faulted, damaged, foreign>>

UpdateTokens(u) ==
  /\ rotation < MaxRotation /\ rotation' = rotation + 1
  /\ Save(WithTokens(u, <<u, rotation + 1>>))
UpdateClientInfo(u) == UNCHANGED rotation /\ Save(WithClient(u))
\* clearClientInfo(), and clearOAuthState(), which writes an entry without a state again
Clear ==
  /\ Base.url # Null /\ UNCHANGED rotation
  /\ Save([Base EXCEPT !.client = Null]) \/ Save(Base)

\* MUTANT of WriteChunk: one chunk too many.
WriteChunkPastEnd ==
  /\ op.at = "chunk" /\ chunks' = chunks \cup {<<op.new, op.i>>}
  /\ op' = [op EXCEPT !.at = IF op.i = 3 THEN "main" ELSE "chunk", !.i = op.i + 1]
  /\ UNCHANGED <<backend, main, legacy, cache, rotation, faulted, damaged, foreign, forgotten>>

\* The chunks of a split record are written in order, before its manifest.
WriteChunk ==
  /\ op.at = "chunk" /\ chunks' = chunks \cup {<<op.new, op.i>>}
  /\ op' = [op EXCEPT !.at = IF op.i = 2 THEN "main" ELSE "chunk", !.i = op.i + 1]
  /\ UNCHANGED <<backend, main, legacy, cache, rotation, faulted, damaged, foreign, forgotten>>

\* The manifest or the value replaces the record in one call; a file is renamed into place.
WriteMain ==
  /\ op.at = "main" /\ main' = Record(op.new)
  /\ op' = [op EXCEPT !.at = IF op.old.split /\ SlotsOf(op.old) # SlotsOf(Record(op.new))
                             THEN "stale" ELSE "legacy"]
  /\ damaged' = FALSE
  /\ UNCHANGED <<backend, chunks, legacy, cache, rotation, faulted, foreign, forgotten>>

\* tryRemoveChunkPayloads(), one call each; a failure ends it and is not reported.
RemoveStale ==
  /\ op.at \in {"stale", "undo"}
  /\ LET r == IF op.at = "stale" THEN op.old ELSE Record(op.new)
         left == SlotsOf(r) \cap chunks
         done == [op EXCEPT !.at = IF op.at = "stale" THEN "legacy" ELSE "idle"] IN
     \/ /\ left # {} /\ \E c \in left :
             /\ \A d \in left : c[2] <= d[2]
             /\ chunks' = chunks \ {c}
             /\ damaged' = (damaged \/ c \in SlotsOf(main))
        /\ UNCHANGED <<op, faulted>>
     \/ /\ left = {} /\ op' = (IF op.at = "undo" THEN Idle ELSE done)
        /\ UNCHANGED <<chunks, damaged, faulted>>
     \/ /\ left # {} /\ op' = (IF op.at = "undo" THEN Idle ELSE done)
        /\ faulted' = TRUE /\ UNCHANGED <<chunks, damaged>>
  /\ UNCHANGED <<backend, main, legacy, cache, rotation, foreign, forgotten>>

\* A chunk or the record cannot be written: the new chunks are removed, the caller told.
WriteFails ==
  /\ op.at \in {"chunk", "main"} /\ faulted' = TRUE
  /\ op' = IF Splits(op.new) THEN [op EXCEPT !.at = "undo"] ELSE Idle
  /\ UNCHANGED <<backend, main, chunks, legacy, cache, rotation, damaged, foreign, forgotten>>

\* The cache is published, then the plaintext entry removed.
WriteEnds ==
  /\ op.at = "legacy" /\ op' = Idle
  /\ cache' = Known(op.new)
  /\ \/ legacy' = (IF backend = "file" THEN legacy ELSE Null) /\ UNCHANGED faulted
     \/ UNCHANGED legacy /\ faulted' = TRUE /\ backend # "file" /\ legacy # Null
  /\ foreign' = FALSE
  /\ UNCHANGED <<backend, main, chunks, rotation, damaged, forgotten>>

-----------------------------------------------------------------------------
(* Removal, crashes and other processes *)

\* removeAuthEntry()
Remove ==
  /\ op = Idle
  /\ op' = [Idle EXCEPT !.at = IF main.split THEN "remove-chunks" ELSE "remove-main",
                        !.why = "remove", !.old = main]
  /\ UNCHANGED <<backend, main, chunks, legacy, cache, rotation, faulted, damaged, foreign, forgotten>>

RemoveChunks ==
  /\ op.at = "remove-chunks"
  /\ LET left == SlotsOf(main) \cap chunks IN
     IF left = {} THEN op' = [op EXCEPT !.at = "remove-main"] /\ UNCHANGED <<chunks, damaged>>
     ELSE /\ \E c \in left : (\A d \in left : c[2] <= d[2]) /\ chunks' = chunks \ {c}
          /\ damaged' = TRUE /\ UNCHANGED op
  /\ UNCHANGED <<backend, main, legacy, cache, rotation, faulted, foreign, forgotten>>

RemoveMain ==
  /\ op.at = "remove-main" /\ main' = NoRecord /\ damaged' = FALSE
  /\ cache' = Unknown /\ foreign' = FALSE
  /\ op' = [op EXCEPT !.at = "remove-legacy"]
  /\ UNCHANGED <<backend, chunks, legacy, rotation, faulted, forgotten>>

RemoveLegacy ==
  /\ op.at = "remove-legacy" /\ op' = Idle
  /\ legacy' = (IF backend = "file" THEN legacy ELSE Null) /\ forgotten' = TRUE
  /\ UNCHANGED <<backend, main, chunks, cache, rotation, faulted, damaged, foreign>>

RemoveFails ==
  /\ op.at \in {"remove-chunks", "remove-main", "remove-legacy"} /\ op' = Idle /\ faulted' = TRUE
  /\ UNCHANGED <<backend, main, chunks, legacy, cache, rotation, damaged, foreign, forgotten>>

\* The process dies; the next one starts with an empty cache.
Crash ==
  /\ op' = Idle /\ cache' = Unknown /\ foreign' = FALSE
  /\ faulted' = (faulted \/ op # Idle)
  /\ UNCHANGED <<backend, main, chunks, legacy, rotation, damaged, forgotten>>

\* Another process saves an entry of its own, in one step.
OtherProcess ==
  /\ op = Idle /\ Readable /\ rotation < MaxRotation /\ rotation' = rotation + 1
  /\ \E u \in Url, c \in Url \cup {Null} :
       /\ c \in {u, Null}
       /\ LET e == [url |-> u, tok |-> <<u, rotation + 1>>, client |-> c] IN
          /\ main' = Record(e)
          /\ chunks' = (chunks \ SlotsOf(main)) \cup SlotsOf(Record(e))
  /\ legacy' = IF backend = "file" THEN legacy ELSE Null
  /\ foreign' = TRUE /\ forgotten' = FALSE
  /\ UNCHANGED <<backend, cache, op, faulted, damaged>>

\* invalidateAuthEntryCache(), before a retry after an unauthorized answer
Invalidate ==
  /\ op = Idle /\ cache.on /\ cache' = Unknown /\ foreign' = FALSE
  /\ UNCHANGED <<backend, main, chunks, legacy, op, rotation, faulted, damaged, forgotten>>

StoreNext == \/ Read \/ \E u \in Url : UpdateTokens(u) \/ UpdateClientInfo(u)
             \/ Clear \/ WriteChunk \/ WriteMain \/ RemoveStale \/ WriteFails \/ WriteEnds
             \/ Remove \/ RemoveChunks \/ RemoveMain \/ RemoveLegacy \/ RemoveFails
             \/ Crash \/ OtherProcess \/ Invalidate

StoreSpec == StoreInit /\ [][StoreNext]_storeVars

-----------------------------------------------------------------------------
(* Properties *)

\* Wherever a write stops, by a failure or a crash, the record can be read: it is the old
\* entry or the new one.  Excepted are a removal cut short and a failed write of an
\* unchanged entry, whose clean-up removes the chunks it shares with the record.
RecordIsReadable == ~damaged => Readable

\* No secret of a replaced or removed record stays in a store that never failed.
NoStaleChunks == op = Idle /\ ~faulted => chunks = SlotsOf(main)

\* The cache holds what a read of the store would return, until another process writes.
CacheIsStored ==
  op = Idle /\ cache.on /\ ~foreign /\ ~damaged => cache.entry = Stored

\* Tokens and client of an entry were obtained for the url it names.
OfOneUrl(e) == (e.tok # Null => e.tok[1] = e.url) /\ (e.client # Null => e.client = e.url)
OneUrl == \A e \in {main.entry, legacy} \ {Null} : OfOneUrl(e)

\* After a logout has returned no read finds credentials, until somebody saves.
LogoutForgets == forgotten => Stored = Null

\* The five of them.
RecordsHold == RecordIsReadable /\ NoStaleChunks /\ CacheIsStored /\ OneUrl /\ LogoutForgets

-----------------------------------------------------------------------------
(* The inductive invariant: what makes these hold. *)

\* How far an operation is says what is in the store: the chunks are there before the manifest,
\* the record before the old chunks go, and nothing is left of it before the plaintext goes.
OperationIsStaged ==
  /\ op.at = "idle" => op = Idle
  /\ main.split => main.entry # Null
  /\ op.at \in {"chunk", "main", "undo", "stale", "legacy"} => op.new # Null /\ ~forgotten
  /\ op.at = "chunk" => Splits(op.new) /\ op.i \in {1, 2} /\ (op.i = 2 => <<op.new, 1>> \in chunks)
  /\ op.at = "main" => SlotsOf(Record(op.new)) \subseteq chunks
  /\ op.at \in {"chunk", "main"} => op.old = main
  /\ op.at \in {"stale", "legacy"} => main = Record(op.new)
  /\ op.at = "stale" => op.old.split /\ SlotsOf(op.old) # SlotsOf(main)
  /\ op.at = "remove-legacy" => main = NoRecord /\ ~cache.on

\* In a store that never failed the chunks are the record's, or those an operation writes or
\* removes, and only a removal of the record damages it.
ChunksAreInUse ==
  ~faulted =>
    /\ chunks \subseteq SlotsOf(main) \cup
         CASE op.at \in {"chunk", "main"} -> SlotsOf(Record(op.new))
           [] op.at = "stale" -> SlotsOf(op.old)
           [] OTHER -> {}
    /\ op.at # "undo" /\ (op.at = "remove-main" => chunks = {})
    /\ damaged => op.at \in {"remove-chunks", "remove-main"}

\* The cache keeps what a read would return until a write of this process has replaced the record.
CacheFollows ==
  op.at \notin {"stale", "legacy"} /\ cache.on /\ ~foreign /\ ~damaged => cache.entry = Stored

\* Everything an entry is made from was obtained for its url.
SourcesAreOfOneUrl ==
  \A e \in {main.entry, legacy, cache.entry, op.new} \ {Null} : OfOneUrl(e)

StoreInv == StoreTypeOK /\ RecordIsReadable /\ LogoutForgets /\ OperationIsStaged /\ ChunksAreInUse
          /\ CacheFollows /\ SourcesAreOfOneUrl
=============================================================================
