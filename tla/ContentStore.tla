---------------------------- MODULE ContentStore ----------------------------
(***************************************************************************)
(* The content of one document in MongoContentStore                        *)
(* (src/ipa/storage/content.py) and the start-up of the processes that     *)
(* write it (init_storage in src/ipa/storage/factory.py): put_extraction,  *)
(* put_raw_response, delete_document, ensure_bucket and ensure_indexes.    *)
(* put_pages appears here with one page; ContentPages has its batches.     *)
(*                                                                         *)
(* MongoDB and MinIO are external: one server operation is one step, a     *)
(* unique index refuses a second row of a key, replace_one with upsert     *)
(* looks for a row before it inserts one, and a TTL index lets rows        *)
(* disappear.                                                              *)
(***************************************************************************)
EXTENDS Naturals, FiniteSets

CONSTANTS
    Processes,      \* API and worker processes
    Versions,       \* version numbers of the document's extractions
    MaxRecords,     \* bound on the writes
    MaxDeletes      \* bound on the delete_document calls

ASSUME ContentStoreAssumption ==
    /\ MaxRecords \in Nat
    /\ MaxDeletes \in Nat
    /\ Versions # {}

VARIABLES
    bucket,     \* the bucket exists
    built,      \* the indexes that exist
    rows,       \* the stored documents: [coll, version, id]
    made,       \* writes of a document so far
    pc,         \* pc[p]: the next server operation of process p
    version,    \* version[p]: the version p is putting
    base,       \* base[p]: made when p called delete_document
    deletes     \* delete_document calls so far

vars == <<bucket, built, rows, made, pc, version, base, deletes>>

Collections == {"pages", "extractions", "raw_responses"}

\* id: the number of the write that stored it.  Pages and raw responses have
\* no version.
Records == [coll : Collections, version : Versions \cup {0}, id : 1 .. MaxRecords]

\* ensure_indexes: what it does after each create_index.
AfterIndex ==
    [uniq_document_page |-> "uniq_document_version",
     uniq_document_version |-> "idx_document_id",
     idx_document_id |-> "idx_document_step",
     idx_document_step |-> "ttl_30d",
     ttl_30d |-> "up"]

\* The collections that the unique indexes are on.
UniqueOn == [uniq_document_page |-> "pages", uniq_document_version |-> "extractions"]

Points == {"down", "bucket", "make", "up", "find", "insert", "conflict", "upsert", "absent",
           "deleted"} \cup Collections \cup DOMAIN AfterIndex

Goto(p, point) == pc' = [pc EXCEPT ![p] = point]

Init ==
    /\ bucket = FALSE
    /\ built = {}
    /\ rows = {}
    /\ made = 0
    /\ pc = [p \in Processes |-> "down"]
    /\ version \in [Processes -> {CHOOSE v \in Versions : TRUE}]
    /\ base = [p \in Processes |-> 0]
    /\ deletes = 0

----------------------------------------------------------------------------
(* Start-up *)

\* create_app does not call init_storage; a deployment may do it before.
Start(p) ==
    /\ pc[p] = "down"
    /\ \E point \in {"bucket", "up"} : Goto(p, point)
    /\ UNCHANGED <<bucket, built, rows, made, version, base, deletes>>

\* ensure_bucket: bucket_exists ...
BucketExists(p) ==
    /\ pc[p] = "bucket"
    /\ Goto(p, IF bucket THEN "uniq_document_page" ELSE "make")
    /\ UNCHANGED <<bucket, built, rows, made, version, base, deletes>>

\* ... and make_bucket, which the server refuses when another process was
\* faster: the error ends this start-up.
MakeBucket(p) ==
    /\ pc[p] = "make"
    /\ Goto(p, IF bucket THEN "down" ELSE "uniq_document_page")
    /\ bucket' = TRUE
    /\ UNCHANGED <<built, rows, made, version, base, deletes>>

Stored(coll) == {r \in rows : r.coll = coll}

\* Two rows of a collection have the same key.
Duplicated(coll) == \E a, b \in Stored(coll) : a # b /\ a.version = b.version

\* create_index: an index that exists is left alone; a unique one cannot be
\* built over duplicates, and the error ends this start-up.
CreateIndex(p) ==
    LET name == pc[p]
    IN  /\ name \in DOMAIN AfterIndex
        /\ IF name \in DOMAIN UniqueOn \ built /\ Duplicated(UniqueOn[name])
              THEN Goto(p, "down") /\ UNCHANGED built
              ELSE Goto(p, AfterIndex[name]) /\ built' = built \cup {name}
        /\ UNCHANGED <<bucket, rows, made, version, base, deletes>>

\* The process dies, or an operation of its start-up raises.
Die(p) ==
    /\ pc[p] # "down"
    /\ Goto(p, "down")
    /\ UNCHANGED <<bucket, built, rows, made, version, base, deletes>>

----------------------------------------------------------------------------
(* put_extraction *)

Exists(v) == \E r \in Stored("extractions") : r.version = v

PutExtraction(p, v) ==
    /\ pc[p] = "up"
    /\ Goto(p, "find")
    /\ version' = [version EXCEPT ![p] = v]
    /\ UNCHANGED <<bucket, built, rows, made, base, deletes>>

\* find_one: an existing version is a ConflictError.
FindOne(p) ==
    /\ pc[p] = "find"
    /\ Goto(p, IF Exists(version[p]) THEN "conflict" ELSE "insert")
    /\ UNCHANGED <<bucket, built, rows, made, version, base, deletes>>

NewId == made + 1

\* The server stores one document in place of some others.
Store(coll, v, replaced) ==
    /\ made < MaxRecords
    /\ made' = made + 1
    /\ rows' = (rows \ replaced) \cup {[coll |-> coll, version |-> v, id |-> NewId]}

\* Mutant: the index is not unique.
NeverRefused(p) == FALSE

\* The unique index refuses a version that exists.
Refused(p) == "uniq_document_version" \in built /\ Exists(version[p])

\* insert_one succeeds; the caller gets the answer, or it is lost and the
\* caller gets an IpaError.
InsertOne(p) ==
    /\ pc[p] = "insert"
    /\ ~ Refused(p)
    /\ Store("extractions", version[p], {})
    /\ Goto(p, "up")
    /\ UNCHANGED <<bucket, built, version, base, deletes>>

\* DuplicateKeyError: another writer inserted first.
InsertRefused(p) ==
    /\ pc[p] = "insert"
    /\ Refused(p)
    /\ Goto(p, "conflict")
    /\ UNCHANGED <<bucket, built, rows, made, version, base, deletes>>

\* The caller handles the outcome of its call.
Handled(p) ==
    /\ pc[p] \in {"conflict", "deleted"}
    /\ Goto(p, "up")
    /\ UNCHANGED <<bucket, built, rows, made, version, base, deletes>>

----------------------------------------------------------------------------
(* put_raw_response and a one-page put_pages *)

PutRawResponse(p) ==
    /\ pc[p] = "up"
    /\ Store("raw_responses", 0, {})
    /\ UNCHANGED <<bucket, built, pc, version, base, deletes>>

\* Raw responses expire after 30 days, once their TTL index exists.
Expire ==
    /\ "ttl_30d" \in built
    /\ \E r \in Stored("raw_responses") : rows' = rows \ {r}
    /\ UNCHANGED <<bucket, built, made, pc, version, base, deletes>>

PutPage(p) ==
    /\ pc[p] = "up"
    /\ Goto(p, "upsert")
    /\ UNCHANGED <<bucket, built, rows, made, version, base, deletes>>

\* replace_one finds a row of the page and replaces it ...
ReplacePage(p) ==
    /\ pc[p] = "upsert"
    /\ \E old \in Stored("pages") : Store("pages", 0, {old})
    /\ Goto(p, "up")
    /\ UNCHANGED <<bucket, built, version, base, deletes>>

\* ... or none, and inserts one; where the index refuses it, it looks again.
InsertPage(p) ==
    \/ /\ pc[p] = "upsert" /\ Stored("pages") = {}
       /\ Goto(p, "absent")
       /\ UNCHANGED <<bucket, built, rows, made, version, base, deletes>>
    \/ /\ pc[p] = "absent"
       /\ IF "uniq_document_page" \in built /\ Stored("pages") # {}
             THEN Goto(p, "upsert") /\ UNCHANGED <<rows, made>>
             ELSE Goto(p, "up") /\ Store("pages", 0, {})
       /\ UNCHANGED <<bucket, built, version, base, deletes>>

----------------------------------------------------------------------------
(* delete_document *)

DeleteDocument(p) ==
    /\ pc[p] = "up"
    /\ deletes < MaxDeletes
    /\ deletes' = deletes + 1
    /\ base' = [base EXCEPT ![p] = made]
    /\ Goto(p, "pages")
    /\ UNCHANGED <<bucket, built, rows, made, version>>

\* Mutant: a collection is forgotten.
AfterDeleteSkipping(coll) == IF coll = "pages" THEN "raw_responses" ELSE "deleted"

AfterDelete(coll) ==
    CASE coll = "pages" -> "extractions"
      [] coll = "extractions" -> "raw_responses"
      [] coll = "raw_responses" -> "deleted"

\* delete_many on one collection after the other.
DeleteMany(p) ==
    /\ pc[p] \in Collections
    /\ rows' = rows \ Stored(pc[p])
    /\ Goto(p, AfterDelete(pc[p]))
    /\ UNCHANGED <<bucket, built, made, version, base, deletes>>

\* A server operation of a call fails: IpaError, the rest is not done.
CallFails(p) ==
    /\ pc[p] \in {"find", "insert", "upsert", "absent"} \cup Collections
    /\ Goto(p, "up")
    /\ UNCHANGED <<bucket, built, rows, made, version, base, deletes>>

Next ==
    \/ \E p \in Processes :
        \/ Start(p)
        \/ BucketExists(p)
        \/ MakeBucket(p)
        \/ CreateIndex(p)
        \/ Die(p)
        \/ \E v \in Versions : PutExtraction(p, v)
        \/ FindOne(p)
        \/ InsertOne(p)
        \/ InsertRefused(p)
        \/ Handled(p)
        \/ DeleteDocument(p)
        \/ DeleteMany(p)
        \/ PutRawResponse(p)
        \/ PutPage(p)
        \/ ReplacePage(p)
        \/ InsertPage(p)
        \/ CallFails(p)
    \/ Expire

Spec == Init /\ [][Next]_vars

----------------------------------------------------------------------------
(* Properties *)

\* Every variable has its type.
TypeOK ==
    /\ bucket \in BOOLEAN /\ built \in SUBSET DOMAIN AfterIndex
    /\ rows \in SUBSET Records
    /\ made \in 0 .. MaxRecords
    /\ pc \in [Processes -> Points]
    /\ version \in [Processes -> Versions]
    /\ base \in [Processes -> 0 .. MaxRecords]
    /\ deletes \in 0 .. MaxDeletes

\* "append-only, unique on (document_id, version)" from the moment some
\* process got that index built, also for the processes that did not call
\* ensure_indexes: two writers that both found no row of a version do not
\* both store one.  Before that moment the code does not keep the promise.
OneRowPerVersion == "uniq_document_version" \in built => ~ Duplicated("extractions")

\* "Delete all content": when delete_document returns, only what was written
\* since it was called can be left.
DeletedIsGone ==
    \A p \in Processes : pc[p] = "deleted" => \A r \in rows : r.id > base[p]
=============================================================================
