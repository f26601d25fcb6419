---------------------------- MODULE ContentPages ----------------------------
(***************************************************************************)
(* MongoContentStore.put_pages (src/ipa/storage/content.py) for one        *)
(* document: pages are upserted in batches, a batch is an asyncio.gather   *)
(* of concurrent replace_one calls, and a caller whose put_pages failed    *)
(* tries again with a new transcription.  The actions are composed with    *)
(* the life of the client they go through in Storage.                      *)
(*                                                                         *)
(* asyncio.gather raises at the first failure and neither awaits nor       *)
(* cancels the other calls of the batch: they go on as strays.             *)
(*                                                                         *)
(* MongoDB is external: an upsert looks for a row of the page and replaces *)
(* it, or inserts one.  Where the unique index on (document_id, page) is,  *)
(* an upsert whose insertion was overtaken starts again.  Nothing in the   *)
(* repository calls init_storage, which creates that index: it is there    *)
(* from some moment on, or never.                                          *)
(***************************************************************************)
EXTENDS Naturals, FiniteSets

CONSTANTS
    NumPages,           \* pages of the document
    UPSERT_BATCH_SIZE,  \* upserts issued concurrently per batch
    Attempts            \* bound on the calls of put_pages

ASSUME ContentPagesAssumption ==
    /\ NumPages \in Nat /\ Attempts \in Nat
    /\ UPSERT_BATCH_SIZE \in Nat \ {0}

VARIABLES
    unique,     \* the unique index exists
    rows,       \* rows[p]: the attempts whose text some row of page p holds
    flying,     \* upserts that were sent: pairs <<attempt, page>>
    missed,     \* those among them that found no row and will insert one
    call,       \* call[a]: the state of the a-th call of put_pages
    start,      \* start[a]: first page of its present batch
    left        \* history: the strays, upserts that outlived their call

vars == <<unique, rows, flying, missed, call, start, left>>

Pages == 1 .. NumPages
Calls == 1 .. Attempts

\* Mutant: the last page of a batch is left out.
BatchTooShort(first) == {p \in Pages : first <= p /\ p + 1 < first + UPSERT_BATCH_SIZE}

\* pages[start : start + UPSERT_BATCH_SIZE]
Batch(first) == {p \in Pages : first <= p /\ p < first + UPSERT_BATCH_SIZE}

Upserts(a, first) == {<<a, p>> : p \in Batch(first)}

Init ==
    /\ unique = FALSE
    /\ rows = [p \in Pages |-> {}]
    /\ flying = {}
    /\ missed = {}
    /\ call = [a \in Calls |-> "new"]
    /\ start = [a \in Calls |-> 1]
    /\ left = {}

\* ensure_indexes, of any process: the index is built, unless there are
\* duplicates already.
CreateIndex ==
    /\ ~ unique
    /\ \A p \in Pages : \A a, b \in rows[p] : a = b
    /\ unique' = TRUE
    /\ UNCHANGED <<rows, flying, missed, call, start, left>>

\* The calls of one document come one after the other.
MayCall(a) ==
    /\ call[a] = "new"
    /\ \A b \in Calls : b < a => call[b] \in {"returned", "raised"}

\* put_pages is called.  With no pages it returns at once.
PutPages(a) ==
    /\ MayCall(a)
    /\ call' = [call EXCEPT ![a] = IF Pages = {} THEN "returned" ELSE "batch"]
    /\ flying' = flying \cup Upserts(a, 1)
    /\ UNCHANGED <<unique, rows, missed, start, left>>

\* An upsert is over for its caller.
Landed(u) ==
    /\ flying' = flying \ {u}
    /\ missed' = missed \ {u}

\* Mutant: the update only sets what an insertion would ($setOnInsert).
KeptOnMatch(u) == {rows : old \in rows[u[2]]}

\* The table with one row of the page replaced.
Replaced(u) == {[rows EXCEPT ![u[2]] = (@ \ {old}) \cup {u[1]}] : old \in rows[u[2]]}

\* replace_one finds a row of the page and replaces it.
Replace(u) ==
    /\ u \in flying \ missed
    /\ rows' \in Replaced(u)
    /\ Landed(u)
    /\ UNCHANGED <<unique, call, start, left>>

\* replace_one finds no row ...
Miss(u) ==
    /\ u \in flying \ missed
    /\ rows[u[2]] = {}
    /\ missed' = missed \cup {u}
    /\ UNCHANGED <<unique, rows, flying, call, start, left>>

\* Mutant: the index on (document_id, page) is not unique.
NeverRefused(u) == FALSE

\* The unique index refuses a second row of a page.
Refused(u) == unique /\ rows[u[2]] # {}

Inserted(u) == [rows EXCEPT ![u[2]] = @ \cup {u[1]}]

\* ... and inserts one; where the index refuses it, it looks again.
Insert(u) ==
    /\ u \in missed
    /\ IF Refused(u)
          THEN /\ missed' = missed \ {u}
               /\ UNCHANGED <<rows, flying>>
          ELSE /\ rows' = Inserted(u)
               /\ Landed(u)
    /\ UNCHANGED <<unique, call, start, left>>

\* An upsert fails, or was done and its answer is lost: put_pages raises
\* IpaError if it still waits for it.
UpsertFails(u) ==
    /\ u \in flying
    /\ \/ rows' \in {rows} \cup Replaced(u)
       \/ u \in missed /\ ~ Refused(u) /\ rows' = Inserted(u)
    /\ Landed(u)
    /\ call' = [call EXCEPT ![u[1]] = IF @ = "batch" THEN "raised" ELSE @]
    /\ left' = left \cup IF call[u[1]] = "batch" THEN {v \in flying : v[1] = u[1]} \ {u} ELSE {}
    /\ UNCHANGED <<unique, start>>

\* Mutant: the loop does not advance.
SameStart(a) == start[a]

\* range(0, len(pages), UPSERT_BATCH_SIZE)
NextStart(a) == start[a] + UPSERT_BATCH_SIZE

\* Every upsert of the batch was answered.
BatchOver(a) ==
    /\ call[a] = "batch"
    /\ \A p \in Pages : <<a, p>> \notin flying

\* The next batch, or the end.
NextBatch(a) ==
    LET first == NextStart(a)
    IN  /\ BatchOver(a)
        /\ IF first <= NumPages
              THEN /\ start' = [start EXCEPT ![a] = first]
                   /\ flying' = flying \cup Upserts(a, first)
                   /\ UNCHANGED call
              ELSE /\ call' = [call EXCEPT ![a] = "returned"]
                   /\ UNCHANGED <<start, flying>>
        /\ UNCHANGED <<unique, rows, missed, left>>

----------------------------------------------------------------------------
(* Properties *)

\* Every variable has its type.
TypeOK ==
    /\ unique \in BOOLEAN
    /\ rows \in [Pages -> SUBSET Calls]
    /\ flying \in SUBSET (Calls \X Pages)
    /\ missed \in SUBSET flying
    /\ call \in [Calls -> {"new", "batch", "returned", "raised"}]
    /\ start \in [Calls -> Nat]
    /\ left \in SUBSET (Calls \X Pages)

\* Once a call of put_pages has returned, every page of the document is
\* stored: no batch and no last, shorter batch is left out.  With the unique
\* index it is stored in one row: although strays of a failed call and the
\* upserts of its retry both saw no row, they make no second one.  Without it
\* they do, against "a retried step overwrites rather than duplicates".
ReturnedIsComplete ==
    \A a \in Calls : call[a] = "returned" =>
        \A p \in Pages : rows[p] # {} /\ (unique => Cardinality(rows[p]) = 1)

\* What is true of the code: when a call has returned and no later one was
\* made, the text of every page is stored as that call gave it, with one
\* exception: an upsert that a failed call left running may land after the
\* retry and put the old text back.  With the unique index there is no other
\* text beside it.
RetryOverwrites ==
    \A a \in Calls :
        /\ call[a] = "returned"
        /\ \A b \in Calls : b > a => call[b] = "new"
        => \A p \in Pages : \E b \in Calls :
              /\ b = a \/ <<b, p>> \in left
              /\ b \in rows[p]
              /\ unique => rows[p] = {b}

\* put_pages comes back, with a result or with an error.
PutReturns ==
    \A a \in Calls : call[a] = "batch" ~> call[a] \in {"returned", "raised"}
=============================================================================
