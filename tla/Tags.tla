-------------------------------- MODULE Tags --------------------------------
(***************************************************************************)
(* TagRepository (src/ipa/db/repositories/tag.py) for one slug: the tag's  *)
(* version counter, its rows of fields and the snapshots of its versions,  *)
(* written by concurrent sessions.                                         *)
(*                                                                         *)
(* The service that calls the repository is not written yet.  A session    *)
(* creates the tag, or may read it and then, in one transaction, calls     *)
(* bump_version, replace_fields or both, in either order.  It may freeze   *)
(* the outgoing version between the bump and the new fields, and the new   *)
(* version at the end, each with the fields list_fields shows it then.     *)
(*                                                                         *)
(* PostgreSQL is external: READ COMMITTED; a statement works on the rows   *)
(* committed when it began and waits for rows and unique keys that another *)
(* open transaction has written.  A deadlock ends in a rollback.           *)
(***************************************************************************)
EXTENDS Naturals, FiniteSets

CONSTANTS
    Sessions,    \* sessions opened by session_scope
    Positions,   \* TagFieldCreate.position: any integers
    Keys,        \* field keys
    MaxWrites,   \* bound on the field lists written
    MaxVersion,  \* bound on the version counter
    None         \* no session

ASSUME TagsAssumption ==
    /\ MaxWrites \in Nat /\ MaxVersion \in Nat
    /\ None \notin Sessions

VARIABLES
    version,    \* the committed tags.version; 0: no such tag
    fields,     \* the committed rows of tag_fields
    snapshots,  \* the committed rows of tag_versions, as <<version, list>>
    writer,     \* the session that wrote the tags row and is still open, or None
    pc,         \* pc[s]: where session s is
    reg,        \* reg[s]: its local variables and uncommitted writes
    writes,     \* field lists written so far: tells rows apart
    was,        \* history: <<version, list>> of the tag after each commit,
                \* until one is unguarded
    unguarded   \* history: a transaction replaced the fields before it bumped,
                \* or was given a version number that it did not write

vars == <<version, fields, snapshots, writer, pc, reg, writes, was, unguarded>>

Listing == SUBSET (Positions \X Keys)

\* A field list: pairs <<position, key>> with different positions and keys.
Lists == {l \in Listing : \A f, g \in l : f[1] = g[1] \/ f[2] = g[2] => f = g}

TagField == [position : Positions, key : Keys, write : 1 .. MaxWrites]

ListOf(rows) == {<<r.position, r.key>> : r \in rows}

\* _write_fields
RowsOf(list, n) == {[position |-> f[1], key |-> f[2], write |-> n] : f \in list}

\* known: the version of the Tag entity the session has loaded, 0 for none;
\* bumped: the version it wrote, 0 for none; number: the version bump_version
\* returned; hit: the rows the DELETE found; deleted, inserted, frozen:
\* uncommitted writes; listed: what replace_fields returned; early: it replaced
\* the fields before it bumped.
Fresh == [known |-> 0, bumped |-> 0, number |-> 0, hit |-> {}, deleted |-> {},
          inserted |-> {}, listed |-> {}, frozen |-> {}, early |-> FALSE]

Init ==
    /\ version = 0
    /\ fields = {}
    /\ snapshots = {}
    /\ writer = None
    /\ pc = [s \in Sessions |-> "idle"]
    /\ reg = [s \in Sessions |-> Fresh]
    /\ writes = 0
    /\ was = {}
    /\ unguarded = FALSE

Goto(s, point) == pc' = [pc EXCEPT ![s] = point]

View(s) == (fields \ reg[s].deleted) \cup reg[s].inserted

Others(s) == Sessions \ {s}

\* Mutant: the counter is read and written back without the row lock.
NeverLocked(s) == TRUE

\* The tags row, or its slug, is not written by another open transaction.
TagUnlocked(s) == writer \in {None, s}

----------------------------------------------------------------------------
(* create, get, get_by_slug *)

\* The tag and its fields are inserted; a slug that exists is a ConflictError
\* and changes nothing.
create(s, list) ==
    /\ pc[s] = "idle"
    /\ version = 0
    /\ TagUnlocked(s)
    /\ writes < MaxWrites
    /\ writes' = writes + 1
    /\ writer' = s
    /\ reg' = [reg EXCEPT ![s].bumped = 1, ![s].number = 1, ![s].listed = list,
                          ![s].inserted = RowsOf(list, writes + 1)]
    /\ Goto(s, "created")
    /\ UNCHANGED <<version, fields, snapshots, was, unguarded>>

\* The tag's entity stays in the session.
Load(s) ==
    /\ pc[s] = "idle"
    /\ version > 0
    /\ reg' = [reg EXCEPT ![s].known = version]
    /\ Goto(s, "loaded")
    /\ UNCHANGED <<version, fields, snapshots, writer, writes, was, unguarded>>

----------------------------------------------------------------------------
(* bump_version *)

\* The version of the DTO.  An entity that the session has loaded before may
\* keep the version it had, or count one up from that, whatever the row holds.
Returned(s) ==
    {version + 1} \cup {n \in {reg[s].known, reg[s].known + 1} : reg[s].known > 0}

\* UPDATE ... SET version = version + 1 RETURNING: an unknown tag gives None.
bump_version(s) ==
    /\ pc[s] \in {"idle", "loaded", "replaced"}
    /\ version \in 1 .. MaxVersion - 1
    /\ TagUnlocked(s)
    /\ writer' = s
    /\ \E n \in Returned(s) :
          reg' = [reg EXCEPT ![s].bumped = version + 1, ![s].number = n]
    /\ Goto(s, IF pc[s] = "replaced" THEN "changed" ELSE "bumped")
    /\ UNCHANGED <<version, fields, snapshots, writes, was, unguarded>>

----------------------------------------------------------------------------
(* replace_fields *)

\* DELETE: its snapshot finds the rows ...
FindFields(s) ==
    /\ pc[s] \in {"idle", "loaded", "bumped"}
    /\ version > 0
    /\ reg' = [reg EXCEPT ![s].hit = View(s), ![s].early = (reg[s].bumped = 0)]
    /\ Goto(s, "delete")
    /\ UNCHANGED <<version, fields, snapshots, writer, writes, was, unguarded>>

\* ... and those that are still there when nobody else holds them are gone.
DeleteFields(s) ==
    /\ pc[s] = "delete"
    /\ \A t \in Others(s) : reg[s].hit \cap reg[t].deleted = {}
    /\ reg' = [reg EXCEPT ![s].deleted = reg[s].hit \cap fields, ![s].hit = {}]
    /\ Goto(s, "insert")
    /\ UNCHANGED <<version, fields, snapshots, writer, writes, was, unguarded>>

\* The unique constraints (tag_id, key) and (tag_id, position).
Clash(r, q) == r.key = q.key \/ r.position = q.position

Clashing(rows, others) == \E r \in rows, q \in others : Clash(r, q)

\* Keys and positions that another open transaction has inserted, or has
\* deleted and may give back, are waited for.
FieldsUnlocked(s, rows) ==
    \A t \in Others(s) : ~ Clashing(rows, reg[t].inserted \cup reg[t].deleted)

\* Mutant: the fields are listed before the new ones are flushed.
ListedTooEarly(s, rows) == ListOf(View(s))

\* list_fields, as the last statement of replace_fields.
Listed(s, rows) == ListOf(View(s) \cup rows)

\* _write_fields inserts the new rows.
InsertFields(s, list) ==
    LET rows == RowsOf(list, writes + 1)
    IN  /\ pc[s] = "insert"
        /\ writes < MaxWrites
        /\ FieldsUnlocked(s, rows)
        /\ ~ Clashing(rows, View(s))
        /\ writes' = writes + 1
        /\ reg' = [reg EXCEPT ![s].inserted = rows, ![s].listed = Listed(s, rows)]
        /\ Goto(s, IF reg[s].bumped = 0 THEN "replaced" ELSE "changed")
        /\ UNCHANGED <<version, fields, snapshots, writer, was, unguarded>>

----------------------------------------------------------------------------
(* snapshot *)

\* INSERT; an existing (tag_id, version) is a ConflictError.
snapshot(s, n, list) ==
    /\ IF \E f \in snapshots \cup reg[s].frozen : f[1] = n
          THEN /\ Goto(s, "conflict")
               /\ UNCHANGED reg
          ELSE /\ reg' = [reg EXCEPT ![s].frozen = @ \cup {<<n, list>>}]
               /\ UNCHANGED pc
    /\ UNCHANGED <<version, fields, snapshots, writer, writes, was, unguarded>>

\* Mutant: the old fields are frozen as the version that begins.
NumberAfter(s) == reg[s].number

\* The number of the version that ends with the bump.
NumberBefore(s) == reg[s].number - 1

\* bump_version, list_fields, snapshot: the outgoing version is frozen.
FreezeOutgoing(s) ==
    /\ pc[s] = "bumped"
    /\ snapshot(s, NumberBefore(s), ListOf(View(s)))

\* The version that begins is frozen with the fields just written.
FreezeNew(s) ==
    /\ pc[s] \in {"created", "changed"}
    /\ snapshot(s, reg[s].number, reg[s].listed)

----------------------------------------------------------------------------
(* session_scope *)

\* The transaction is over.
Close(s) ==
    /\ writer' = IF writer = s THEN None ELSE writer
    /\ reg' = [reg EXCEPT ![s] = Fresh]
    /\ Goto(s, "idle")

Commit(s) ==
    /\ pc[s] \in {"created", "bumped", "replaced", "changed"}
    /\ version' = IF reg[s].bumped = 0 THEN version ELSE reg[s].bumped
    /\ fields' = View(s)
    /\ snapshots' = snapshots \cup reg[s].frozen
    /\ unguarded' = (unguarded \/ reg[s].early \/ reg[s].number # reg[s].bumped)
    /\ was' = IF unguarded' THEN {} ELSE was \cup {<<version', ListOf(View(s))>>}
    /\ UNCHANGED writes
    /\ Close(s)

\* The body raised (IntegrityError of a field, ConflictError of a snapshot),
\* the process died, or the server resolved a deadlock.
Rollback(s) ==
    /\ pc[s] # "idle"
    /\ Close(s)
    /\ UNCHANGED <<version, fields, snapshots, writes, was, unguarded>>

Next ==
    \E s \in Sessions :
        \/ \E list \in Lists : create(s, list) \/ InsertFields(s, list)
        \/ Load(s)
        \/ bump_version(s)
        \/ FindFields(s)
        \/ DeleteFields(s)
        \/ FreezeOutgoing(s)
        \/ FreezeNew(s)
        \/ Commit(s)
        \/ Rollback(s)

Spec == Init /\ [][Next]_vars

----------------------------------------------------------------------------
(* Properties *)

\* Every variable has its type.
TypeOK ==
    /\ version \in Nat
    /\ fields \in SUBSET TagField
    /\ snapshots \in SUBSET (Nat \X Listing)
    /\ writer \in Sessions \cup {None}
    /\ pc \in [Sessions -> {"idle", "loaded", "created", "bumped", "delete", "insert",
                            "replaced", "changed", "conflict"}]
    /\ reg \in [Sessions ->
                 [known : Nat, bumped : Nat, number : Nat, hit : SUBSET TagField,
                  deleted : SUBSET TagField, inserted : SUBSET TagField,
                  listed : Listing, frozen : SUBSET (Nat \X Listing), early : BOOLEAN]]
    /\ writes \in 0 .. MaxWrites
    /\ was \in SUBSET (Nat \X Listing)
    /\ unguarded \in BOOLEAN

\* "Replace the tag's field list in one transaction" (tag.py:149): the rows of
\* a tag are those of one list.  The code does not keep to it: two
\* replace_fields calls that find no row to delete wait for nobody, and lists
\* that share no key and no position are both inserted.
FieldsAreReplaced == \A q, r \in fields : q.write = r.write

\* It is true of transactions that bump_version before they replace_fields:
\* the row lock of the tag then keeps the others from a DELETE that misses
\* the rows being inserted.
FieldsAreOneList == ~ unguarded => FieldsAreReplaced

\* While every transaction bumps first, the snapshot of the newest version,
\* when there is one, is what the tag's fields are.  After a transaction that
\* replaced first nothing is said: a DELETE that finds no row waits for nobody,
\* and whoever then lists the fields freezes them without those of another.
SnapshotIsCurrent ==
    ~ unguarded => \A f \in snapshots : f[1] = version => f[2] = ListOf(fields)

\* Whatever get_version answers, for the newest version or an older one,
\* frozen when it began or when it ended, is the list the tag had at that
\* version: no snapshot mixes two versions' fields, none carries the number of
\* its neighbour, none comes from a transaction that was rolled back.
SnapshotsAreTrue == ~ unguarded => snapshots \subseteq was
=============================================================================
