----------------------------- MODULE Extractions -----------------------------
(***************************************************************************)
(* ExtractionRepository (src/ipa/db/repositories/extraction.py): the       *)
(* append-only extraction versions of a document, one of them current, and *)
(* the validations recorded over them, written by concurrent sessions.     *)
(*                                                                         *)
(* add() is four statements with other sessions in between: read the next  *)
(* version number, take the UPDATE's snapshot, unflag the current row,     *)
(* insert the new one.  What keeps two of them apart are the two unique    *)
(* indexes of the table and PostgreSQL's waiting for an uncommitted key    *)
(* or row, which is modelled as one writer at a time per document: every   *)
(* transaction that has unflagged or inserted a row of a document makes    *)
(* the other unflagging or inserting sessions wait.                        *)
(***************************************************************************)
EXTENDS Naturals, FiniteSets

CONSTANTS
    Documents,      \* document ids
    Sessions,       \* sessions opened by session_scope
    MaxVersion,     \* bound on version numbers
    MaxValidations, \* bound on the validations of a transaction
    None            \* no session, no document

ASSUME ExtractionsAssumption ==
    /\ MaxVersion \in Nat
    /\ MaxValidations \in Nat
    /\ None \notin Sessions

VARIABLES
    db,             \* db[d]: committed rows, as version numbers and flagged ones
    wip,            \* wip[d]: the writer's rows (db[d] when there is no writer)
    writer,         \* writer[d]: the session with uncommitted rows of d, or None
    pc,             \* pc[s]: the next statement of session s
    reg,            \* reg[s]: the local variables of the add() s is executing
    adds,           \* history: successful adds of committed transactions
    more,           \* history: successful adds of the writer's transaction
    validated,      \* committed validations
    validating      \* validating[s]: validations of the open transaction of s

vars == <<db, wip, writer, pc, reg, adds, more, validated, validating>>

Versions == 1 .. MaxVersion

\* The rows of one document: the versions it has, the ones with is_current.
ExtractionVersion == [versions : SUBSET Versions, current : SUBSET Versions]

NoRows == [versions |-> {}, current |-> {}]

\* A validation: its document_id, and its extraction_version_id as the
\* document and the version of the row that has this id.
Validation == [document_id : Documents, of : Documents, version : Versions]

View(s, d) == IF writer[d] = s THEN wip[d] ELSE db[d]

Unlocked(s, d) == writer[d] \in {None, s}

\* Mutant: the + 1 is forgotten once there is a version.
LastVersion(rows) ==
    CHOOSE v \in 1 .. MaxVersion + 1 :
        /\ \A w \in rows.versions : w <= v
        /\ v \in rows.versions \/ rows.versions = {}

\* coalesce(max(version), 0) + 1
NextVersion(rows) ==
    CHOOSE v \in 1 .. MaxVersion + 1 :
        /\ \A w \in rows.versions : w < v
        /\ v = 1 \/ v - 1 \in rows.versions

Idle == [doc |-> None, version |-> 0, known |-> FALSE, hit |-> {}, base |-> 0]

Init ==
    /\ db = [d \in Documents |-> NoRows]
    /\ wip = db
    /\ writer = [d \in Documents |-> None]
    /\ pc = [s \in Sessions |-> "idle"]
    /\ reg = [s \in Sessions |-> Idle]
    /\ adds = [d \in Documents |-> 0]
    /\ more = [d \in Documents |-> 0]
    /\ validated = {}
    /\ validating = [s \in Sessions |-> {}]

----------------------------------------------------------------------------
(* add() *)

\* version = SELECT coalesce(max(version), 0) + 1.  The call is given a tag,
\* and the document, that may be known or not.
SelectVersion(s, d, known) ==
    LET v == NextVersion(View(s, d))
    IN  /\ pc[s] = "idle"
        /\ v \in Versions
        /\ pc' = [pc EXCEPT ![s] = "update"]
        /\ reg' = [reg EXCEPT ![s] = [doc |-> d, version |-> v, known |-> known,
                                      hit |-> {}, base |-> adds[d]]]
        /\ UNCHANGED <<db, wip, writer, adds, more, validated, validating>>

\* UPDATE ... WHERE is_current: the statement's snapshot finds the rows.
FindCurrent(s) ==
    /\ pc[s] = "update"
    /\ pc' = [pc EXCEPT ![s] = "unflag"]
    /\ reg' = [reg EXCEPT ![s].hit = View(s, reg[s].doc).current]
    /\ UNCHANGED <<db, wip, writer, adds, more, validated, validating>>

\* ... and each is locked, read again, and unflagged if it is still current.
\* With no row found, or none left, the statement writes nothing.
UnflagCurrent(s) ==
    LET d == reg[s].doc
        rows == View(s, d)
        hit == reg[s].hit
    IN  /\ pc[s] = "unflag"
        /\ hit # {} => Unlocked(s, d)
        /\ IF hit \cap rows.current = {}
              THEN UNCHANGED <<wip, writer>>
              ELSE /\ writer' = [writer EXCEPT ![d] = s]
                   /\ wip' = [wip EXCEPT ![d] = [rows EXCEPT !.current = @ \ hit]]
        /\ pc' = [pc EXCEPT ![s] = "insert"]
        /\ UNCHANGED <<db, reg, adds, more, validated, validating>>

\* Mutant: a unique index is missing.
VersionNeverTaken(rows, v) == FALSE

\* The unique constraint (document_id, version).
VersionTaken(rows, v) == v \in rows.versions

\* The partial unique index on document_id where is_current.
CurrentTaken(rows) == rows.current # {}

\* What the INSERT runs into: a unique index, or a foreign key, because
\* document_id or tag_id is of no row.
Refused(rows, add) ==
    VersionTaken(rows, add.version) \/ CurrentTaken(rows) \/ ~ add.known

\* flush(): the row is inserted with is_current = true.
InsertVersion(s) ==
    LET d == reg[s].doc
        v == reg[s].version
        rows == View(s, d)
    IN  /\ pc[s] = "insert"
        /\ Unlocked(s, d)
        /\ ~ Refused(rows, reg[s])
        /\ writer' = [writer EXCEPT ![d] = s]
        /\ wip' = [wip EXCEPT ![d] = [versions |-> rows.versions \cup {v},
                                      current |-> rows.current \cup {v}]]
        /\ more' = [more EXCEPT ![d] = @ + 1]
        /\ pc' = [pc EXCEPT ![s] = "idle"]
        /\ reg' = [reg EXCEPT ![s] = Idle]
        /\ UNCHANGED <<db, adds, validated, validating>>

\* The transaction of s is forgotten.
Undo(s) ==
    /\ wip' = [d \in Documents |-> IF writer[d] = s THEN db[d] ELSE wip[d]]
    /\ more' = [d \in Documents |-> IF writer[d] = s THEN 0 ELSE more[d]]
    /\ writer' = [d \in Documents |-> IF writer[d] = s THEN None ELSE writer[d]]
    /\ validating' = [validating EXCEPT ![s] = {}]
    /\ UNCHANGED <<db, adds, validated>>

\* Mutant: the INSERT has a savepoint of its own, so the unflagging survives
\* its failure and the session goes on.
ConflictKeepsUnflag(s) ==
    LET rows == View(s, reg[s].doc)
    IN  /\ pc[s] = "insert"
        /\ Unlocked(s, reg[s].doc)
        /\ Refused(rows, reg[s])
        /\ pc' = [pc EXCEPT ![s] = "idle"]
        /\ reg' = [reg EXCEPT ![s] = Idle]
        /\ UNCHANGED <<db, wip, writer, adds, more, validated, validating>>

\* flush(): IntegrityError, of an index or of a foreign key, becomes
\* ConflictError.  The failed flush rolls the transaction back, and the
\* session refuses every call until rollback().
InsertConflict(s) ==
    LET rows == View(s, reg[s].doc)
    IN  /\ pc[s] = "insert"
        /\ Unlocked(s, reg[s].doc)
        /\ Refused(rows, reg[s])
        /\ Undo(s)
        /\ pc' = [pc EXCEPT ![s] = "conflict"]
        /\ UNCHANGED reg

----------------------------------------------------------------------------
(* add_validation() *)

\* Mutant: the foreign key is missing.
AnyVersion(s, v) == TRUE

\* The foreign key of extraction_version_id: the row is one the transaction
\* can see.  That of document_id is another one: nothing asks for a version
\* of the same document.
VersionExists(s, v) == v.version \in View(s, v.of).versions

AddValidation(s, v) ==
    /\ pc[s] = "idle"
    /\ Cardinality(validating[s]) < MaxValidations
    /\ VersionExists(s, v)
    /\ validating' = [validating EXCEPT ![s] = @ \cup {v}]
    /\ UNCHANGED <<db, wip, writer, pc, reg, adds, more, validated>>

----------------------------------------------------------------------------
(* session_scope *)

Writes(s) == validating[s] # {} \/ \E d \in Documents : writer[d] = s

Commit(s) ==
    /\ pc[s] = "idle"
    /\ Writes(s)
    /\ db' = [d \in Documents |-> View(s, d)]
    /\ adds' = [d \in Documents |-> IF writer[d] = s THEN adds[d] + more[d] ELSE adds[d]]
    /\ more' = [d \in Documents |-> IF writer[d] = s THEN 0 ELSE more[d]]
    /\ writer' = [d \in Documents |-> IF writer[d] = s THEN None ELSE writer[d]]
    /\ validated' = validated \cup validating[s]
    /\ validating' = [validating EXCEPT ![s] = {}]
    /\ UNCHANGED <<wip, pc, reg>>

\* The body raised (a ConflictError, or the IntegrityError of a validation,
\* always ends here), the process died, or the server aborted the transaction
\* to resolve a deadlock.
Rollback(s) ==
    /\ pc[s] # "idle" \/ Writes(s)
    /\ Undo(s)
    /\ pc' = [pc EXCEPT ![s] = "idle"]
    /\ reg' = [reg EXCEPT ![s] = Idle]

Next ==
    \E s \in Sessions :
        \/ \E d \in Documents, known \in BOOLEAN : SelectVersion(s, d, known)
        \/ FindCurrent(s)
        \/ UnflagCurrent(s)
        \/ InsertVersion(s)
        \/ InsertConflict(s)
        \/ \E v \in Validation : AddValidation(s, v)
        \/ Commit(s)
        \/ Rollback(s)

Spec == Init /\ [][Next]_vars

----------------------------------------------------------------------------
(* Properties *)

\* Every variable has its type.
TypeOK ==
    /\ db \in [Documents -> ExtractionVersion]
    /\ wip \in [Documents -> ExtractionVersion]
    /\ writer \in [Documents -> Sessions \cup {None}]
    /\ pc \in [Sessions -> {"idle", "update", "unflag", "insert", "conflict"}]
    /\ reg \in [Sessions -> [doc : Documents \cup {None}, version : 0 .. MaxVersion,
                             known : BOOLEAN, hit : SUBSET Versions, base : Nat]]
    /\ adds \in [Documents -> Nat]
    /\ more \in [Documents -> Nat]
    /\ validated \in SUBSET Validation
    /\ validating \in [Sessions -> SUBSET Validation]

\* No add is lost and none reuses a number: the committed versions of a
\* document are 1 .. n for the n adds that returned and were committed, in
\* whatever order sessions read their number, unflagged and inserted.
VersionsCountAdds == \A d \in Documents : db[d].versions = 1 .. adds[d]

\* A document with extractions has one current version, the newest, at every
\* instant another session can look: add() never leaves it with none or two.
CurrentIsLatest ==
    \A d \in Documents :
        db[d].current = {v \in db[d].versions : \A w \in db[d].versions : w <= v}

\* "ConflictError: When a concurrent insert raced this one".  What is true of
\* the code: an add() of a known document and tag raises ConflictError only
\* when another session committed a version after this add read its number:
\* neither an uncommitted version, nor one that was rolled back, nor an earlier
\* add of the same transaction leads to it.  An add() of an unknown document
\* or tag raises the same ConflictError without any race.
ConflictHasCause ==
    \A s \in Sessions :
        pc[s] = "conflict" /\ reg[s].known => adds[reg[s].doc] > reg[s].base

\* A committed validation is about a committed version, although it may be
\* one that the validating transaction itself still had to commit.  (It may
\* be of another document than the validation's own.)
ValidationsRefer ==
    \A v \in validated : v.version \in db[v.of].versions
=============================================================================
