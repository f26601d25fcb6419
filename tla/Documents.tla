------------------------------ MODULE Documents ------------------------------
(***************************************************************************)
(* One document and its chunks: DocumentRepository                         *)
(* (src/ipa/db/repositories/document.py), ChunkRepository                  *)
(* (src/ipa/db/repositories/chunk.py) and the writing half of              *)
(* PgVectorStore (src/ipa/db/vector.py), whose refresh_metadata copies the *)
(* document's tag and status onto its chunks so that search can filter     *)
(* without a join.                                                         *)
(*                                                                         *)
(* Actors are concurrent sessions.  They follow the contract of            *)
(* VectorStore: whoever changes the document or writes chunks calls        *)
(* refresh_metadata afterwards, and repeats it when it fails.              *)
(*                                                                         *)
(* SQLAlchemy is external: an entity keeps the column values it was loaded *)
(* with, and a flush updates the columns whose value differs from them.    *)
(* The row lock of that UPDATE is held to the commit, so flush and commit  *)
(* are one step.                                                           *)
(***************************************************************************)
EXTENDS Integers

CONSTANTS
    Actors,     \* sessions that change the document or its chunks
    Keys,       \* chunk keys (chunk_index, embed_model)
    Values      \* values of a column

ASSUME DocumentsAssumption == Values \subseteq Nat \ {0} /\ Values # {}

VARIABLES
    copies,     \* rows of documents with the digest of the document
    document,   \* the committed columns of the document; all 0: no such row
    chunks,     \* chunks[k]: the metadata of the chunk row k, or NoChunk
    pc,         \* pc[a]: the next statement of actor a
    entity,     \* entity[a]: the column values a loaded with session.get
    patch,      \* patch[a]: the columns a's DocumentPatch sets, 0 for unset
    seen,       \* seen[a]: the columns refresh_metadata read for a
    given,      \* history: given[c] is the last value a patch set c to
    stale,      \* history: columns whose last patch had loaded an old value
    overlapped  \* history: the last refresh wrote columns it read too early

vars == <<copies, document, chunks, pc, entity, patch, seen, given, stale, overlapped>>

\* The columns that are copied to the chunks.
Columns == {"tag_id", "status"}

Row == [Columns -> Values \cup {0}]
NoColumns == [c \in Columns |-> 0]

\* A chunk whose metadata has not been refreshed holds NoColumns.
NoChunk == [c \in Columns |-> -1]

\* The patched columns.
Set(p) == {c \in Columns : p[c] # 0}

Init ==
    /\ copies = 0
    /\ document = NoColumns
    /\ chunks = [k \in Keys |-> NoChunk]
    /\ pc = [a \in Actors |-> "idle"]
    /\ entity = [a \in Actors |-> NoColumns]
    /\ patch = [a \in Actors |-> NoColumns]
    /\ seen = [a \in Actors |-> NoColumns]
    /\ given = NoColumns
    /\ stale = {}
    /\ overlapped = FALSE

Goto(a, point) == pc' = [pc EXCEPT ![a] = point]

----------------------------------------------------------------------------
(* Documents *)

\* find_by_sha256: whoever finds a document does not create one.
find_by_sha256(a) ==
    /\ pc[a] = "idle"
    /\ copies = 0
    /\ Goto(a, "create")
    /\ UNCHANGED <<copies, document, chunks, entity, patch, seen, given, stale, overlapped>>

\* The unique constraint on sha256.
Sha256Taken == copies > 0

\* create: the row is inserted, or IntegrityError rolls the session back.
create(a) ==
    /\ pc[a] = "create"
    /\ Goto(a, "idle")
    /\ IF Sha256Taken
          THEN UNCHANGED <<copies, document, given>>
          ELSE /\ copies' = copies + 1
               /\ document' \in [Columns -> Values]
               /\ given' = document'
    /\ UNCHANGED <<chunks, entity, patch, seen, stale, overlapped>>

\* patch: session.get loads the row, or it was loaded earlier in the session.
\* An unknown id ends the call.
SessionGet(a, p) ==
    /\ pc[a] = "idle"
    /\ copies > 0
    /\ Set(p) # {}
    /\ entity' = [entity EXCEPT ![a] = document]
    /\ patch' = [patch EXCEPT ![a] = p]
    /\ Goto(a, "flush")
    /\ UNCHANGED <<copies, document, chunks, seen, given, stale, overlapped>>

\* Mutant: the UPDATE writes every column of the entity.
WholeRow(loaded, p) == [c \in Columns |-> IF p[c] # 0 THEN p[c] ELSE loaded[c]]

\* The columns after the UPDATE of a patched entity: only an attribute that
\* differs from its loaded value is written.
Flushed(loaded, p) ==
    [c \in Columns |-> IF p[c] # 0 /\ p[c] # loaded[c] THEN p[c] ELSE document[c]]

\* patch: setattr, flush and the commit of the session.
Flush(a) ==
    /\ pc[a] = "flush"
    /\ document' = Flushed(entity[a], patch[a])
    /\ given' = [c \in Columns |-> IF c \in Set(patch[a]) THEN patch[a][c] ELSE given[c]]
    /\ stale' = {c \in Columns : IF c \in Set(patch[a]) THEN entity[a][c] # document[c]
                                                        ELSE c \in stale}
    /\ entity' = [entity EXCEPT ![a] = NoColumns]
    /\ patch' = [patch EXCEPT ![a] = NoColumns]
    /\ Goto(a, "select")
    /\ UNCHANGED <<copies, chunks, seen, overlapped>>

\* The session is rolled back or its process dies.
Rollback(a) ==
    /\ pc[a] \in {"create", "flush"}
    /\ entity' = [entity EXCEPT ![a] = NoColumns]
    /\ patch' = [patch EXCEPT ![a] = NoColumns]
    /\ Goto(a, "idle")
    /\ UNCHANGED <<copies, document, chunks, seen, given, stale, overlapped>>

----------------------------------------------------------------------------
(* Chunks *)

\* upsert: INSERT ... ON CONFLICT DO UPDATE replaces the metadata, so the
\* copied columns are gone.  A chunk refers to its document.
upsert(a, batch) ==
    /\ pc[a] = "idle"
    /\ copies > 0
    /\ batch # {}
    /\ chunks' = [k \in Keys |-> IF k \in batch THEN NoColumns ELSE chunks[k]]
    /\ Goto(a, "select")
    /\ UNCHANGED <<copies, document, entity, patch, seen, given, stale, overlapped>>

\* delete_document: the rows of every model.
delete_document(a) ==
    /\ pc[a] = "idle"
    /\ chunks' = [k \in Keys |-> NoChunk]
    /\ UNCHANGED <<copies, document, pc, entity, patch, seen, given, stale, overlapped>>

\* refresh_metadata for its own sake.
Refresh(a) ==
    /\ pc[a] = "idle"
    /\ Goto(a, "select")
    /\ UNCHANGED <<copies, document, chunks, entity, patch, seen, given, stale, overlapped>>

\* refresh_metadata reads the document; an unknown one ends the call.
SelectDocument(a) ==
    /\ pc[a] = "select"
    /\ seen' = [seen EXCEPT ![a] = document]
    /\ Goto(a, IF copies = 0 THEN "idle" ELSE "update")
    /\ UNCHANGED <<copies, document, chunks, entity, patch, given, stale, overlapped>>

\* Mutant: meta || denorm with its operands swapped, so that old members win.
MergedUnder(meta, denorm) == IF meta = NoColumns THEN denorm ELSE meta

\* meta || denorm: the members of denorm replace those of meta.
Merged(meta, denorm) == denorm

\* refresh_metadata writes what it read to every row of the document.
UpdateChunks(a) ==
    /\ pc[a] = "update"
    /\ chunks' = [k \in Keys |-> IF chunks[k] = NoChunk THEN NoChunk
                                 ELSE Merged(chunks[k], seen[a])]
    /\ overlapped' = (seen[a] # document)
    /\ seen' = [seen EXCEPT ![a] = NoColumns]
    /\ Goto(a, "idle")
    /\ UNCHANGED <<copies, document, entity, patch, given, stale>>

\* refresh_metadata fails and its caller calls it again.
RefreshFails(a) ==
    /\ pc[a] = "update"
    /\ seen' = [seen EXCEPT ![a] = NoColumns]
    /\ Goto(a, "select")
    /\ UNCHANGED <<copies, document, chunks, entity, patch, given, stale, overlapped>>

Next ==
    \E a \in Actors :
        \/ find_by_sha256(a)
        \/ create(a)
        \/ \E p \in Row : SessionGet(a, p)
        \/ Flush(a)
        \/ Rollback(a)
        \/ \E batch \in SUBSET Keys : upsert(a, batch)
        \/ delete_document(a)
        \/ Refresh(a)
        \/ SelectDocument(a)
        \/ UpdateChunks(a)
        \/ RefreshFails(a)

Spec == Init /\ [][Next]_vars

----------------------------------------------------------------------------
(* Properties *)

\* Every variable has its type.
TypeOK ==
    /\ copies \in Nat
    /\ IF copies = 0 THEN document = NoColumns ELSE document \in [Columns -> Values]
    /\ chunks \in [Keys -> Row \cup {NoChunk}]
    /\ pc \in [Actors -> {"idle", "create", "flush", "select", "update"}]
    /\ entity \in [Actors -> Row] /\ patch \in [Actors -> Row] /\ seen \in [Actors -> Row]
    /\ given \in Row
    /\ stale \in SUBSET Columns
    /\ overlapped \in BOOLEAN

\* "only fields explicitly set are applied": a column has the value that the
\* last patch naming it gave, whatever patches of other columns, loaded
\* before it and flushed after it, were committed.  The exception is a patch
\* that loaded a value another session has replaced since: when it sets the
\* column to that old value, SQLAlchemy sees no change and writes nothing.
PatchIsApplied == \A c \in Columns \ stale : document[c] = given[c]

\* "Any caller that mutates one of those on the document must invoke this, or
\* search filters go stale": when every caller has, the metadata of every
\* chunk is that of the document, unless the last refresh to write had read
\* the document before its last change (its two statements lock nothing).
FiltersAreFresh ==
    (\A a \in Actors : pc[a] = "idle") /\ ~ overlapped
        => \A k \in Keys : chunks[k] # NoChunk => chunks[k] = document
=============================================================================
