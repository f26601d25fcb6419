-------------------------------- MODULE Schema --------------------------------
(***************************************************************************)
(* The migration 0001 (migrations/versions/0001_initial.py) as data: the   *)
(* statements of upgrade and downgrade in their order, each with the       *)
(* objects it depends on, and what PostgreSQL does with them.  Columns     *)
(* appear only through what a table needs: the enum types, the extension   *)
(* that provides a type, and the tables that foreign keys refer to.        *)
(*                                                                         *)
(* PostgreSQL and Alembic are external: a CREATE of what exists fails, a   *)
(* DROP of what is missing or still needed fails, a table takes its        *)
(* indexes with it, and Alembic creates an enum type with the first table  *)
(* of the run that has a column of it.                                     *)
(***************************************************************************)
EXTENDS Naturals, Sequences

\* _ENUMS
Enums == {"document_source", "document_status", "extraction_source", "field_type",
          "pipeline_step", "step_status", "user_role", "validation_decision",
          "webhook_delivery_status"}

Statement(op, name, needs) == [op |-> op, name |-> name, needs |-> needs]

create_table(name, needs) == Statement("create_table", name, needs)
create_index(name, table) == Statement("create_index", name, {table})
drop_table(name) == Statement("drop_table", name, {})
drop_index(name) == Statement("drop_index", name, {})

----------------------------------------------------------------------------
(* upgrade *)

Extensions == << Statement("create_extension", "vector", {}),
                 Statement("create_extension", "citext", {}) >>

Accounts == << create_table("users", {"citext", "user_role"}),
               create_table("api_keys", {}) >>

TagTables == << create_table("tags", {"citext"}),
                create_table("tag_fields", {"tags", "field_type"}),
                create_table("tag_versions", {"tags"}) >>

DocumentTable ==
    << create_table("documents", {"tags", "document_status", "pipeline_step", "document_source"}),
       create_index("ix_documents_status", "documents"),
       create_index("ix_documents_tag_id", "documents"),
       create_index("ix_documents_created_at", "documents"),
       create_index("ix_documents_needs_review", "documents"),
       create_index("ix_documents_metadata", "documents") >>

PipelineTables ==
    << create_table("document_steps", {"documents", "pipeline_step", "step_status"}),
       create_index("ix_document_steps_status_step", "document_steps"),
       create_table("document_events", {"documents", "pipeline_step"}),
       create_index("ix_document_events_document_id_created_at", "document_events"),
       create_table("document_pages", {"documents"}) >>

ExtractionTables ==
    << create_table("extraction_versions", {"documents", "tags", "extraction_source"}),
       create_index("uq_extraction_versions_document_id_current", "extraction_versions"),
       create_table("validations",
                    {"documents", "extraction_versions", "users", "validation_decision"}) >>

ChunkTable == << create_table("chunks", {"documents", "vector"}),
                 create_index("ix_chunks_document_id", "chunks"),
                 create_index("ix_chunks_tsv", "chunks"),
                 create_index("ix_chunks_embedding_hnsw", "chunks") >>

WebhookTables == << create_table("webhooks", {}),
                    create_table("webhook_deliveries", {"webhooks", "webhook_delivery_status"}) >>

\* The row of schema_config that records the dimension is the last statement.
SystemTables == << create_table("idempotency_keys", {}),
                   create_table("schema_config", {}),
                   Statement("insert", "schema_config", {}) >>

upgrade == Extensions \o Accounts \o TagTables \o DocumentTable \o PipelineTables
             \o ExtractionTables \o ChunkTable \o WebhookTables \o SystemTables

----------------------------------------------------------------------------
(* downgrade *)

DropTables ==
    << drop_table("schema_config"), drop_table("idempotency_keys"),
       drop_table("webhook_deliveries"), drop_table("webhooks"),
       drop_index("ix_chunks_embedding_hnsw"), drop_index("ix_chunks_tsv"),
       drop_index("ix_chunks_document_id"), drop_table("chunks"),
       drop_table("validations"),
       drop_index("uq_extraction_versions_document_id_current"),
       drop_table("extraction_versions"), drop_table("document_pages"),
       drop_index("ix_document_events_document_id_created_at"), drop_table("document_events"),
       drop_index("ix_document_steps_status_step"), drop_table("document_steps"),
       drop_index("ix_documents_metadata"), drop_index("ix_documents_needs_review"),
       drop_index("ix_documents_created_at"), drop_index("ix_documents_tag_id"),
       drop_index("ix_documents_status"), drop_table("documents"),
       drop_table("tag_versions"), drop_table("tag_fields"), drop_table("tags"),
       drop_table("api_keys"), drop_table("users") >>

\* for type_name in _ENUMS
DropTypes == << Statement("drop_types", "", {}) >>

DropExtensions == << Statement("drop_extension", "citext", {}),
                     Statement("drop_extension", "vector", {}) >>

\* Mutant: the enum types are forgotten.
downgradeKeepingTypes == DropTables \o DropExtensions

downgrade == DropTables \o DropTypes \o DropExtensions

----------------------------------------------------------------------------
(* PostgreSQL *)

\* The objects a table or an index needs, as upgrade declares them.
Needs == [n \in {upgrade[i].name : i \in DOMAIN upgrade} |->
             LET i == CHOOSE j \in DOMAIN upgrade : upgrade[j].name = n
             IN  upgrade[i].needs]

Created(op) == {upgrade[i].name : i \in {j \in DOMAIN upgrade : upgrade[j].op = op}}
TableNames == Created("create_table")
IndexNames == Created("create_index")

\* A database without the migration.
Empty == [objects |-> {}, column |-> 0, recorded |-> 0]

\* Everything that upgrade creates.
Whole == DOMAIN Needs \cup Enums

\* The tables among the objects that need one of some names.
Dependents(objects, names) ==
    {n \in TableNames \cap objects : Needs[n] \cap names # {}}

\* The enum types the first table of this run to use them brings along.
Brought(db, st) == (st.needs \cap Enums) \ db.memo

\* The statement does not raise.
Accepted(db, st) ==
    CASE st.op = "create_table" ->
            /\ st.name \notin db.objects
            /\ Brought(db, st) \cap db.objects = {}
            /\ st.needs \subseteq db.objects \cup Brought(db, st)
      [] st.op = "create_index" -> st.name \notin db.objects /\ st.needs \subseteq db.objects
      [] st.op = "create_extension" -> TRUE
      [] st.op = "insert" -> st.name \in db.objects
      [] st.op = "drop_table" -> st.name \in db.objects /\ Dependents(db.objects, {st.name}) = {}
      [] st.op = "drop_index" -> st.name \in db.objects
      [] st.op = "drop_types" -> Dependents(db.objects, Enums) = {}
      [] st.op = "drop_extension" -> Dependents(db.objects, {st.name}) = {}

\* The database after an accepted statement, in a run with dimension dim.
Executed(db, st, dim) ==
    CASE st.op = "create_table" ->
            [db EXCEPT !.objects = @ \cup {st.name} \cup Brought(db, st),
                       !.memo = @ \cup (st.needs \cap Enums),
                       !.column = IF st.name = "chunks" THEN dim ELSE @]
      [] st.op \in {"create_index", "create_extension"} -> [db EXCEPT !.objects = @ \cup {st.name}]
      [] st.op = "insert" -> [db EXCEPT !.recorded = dim]
      [] st.op = "drop_table" ->
            [db EXCEPT !.objects = @ \ ({st.name} \cup {n \in IndexNames : Needs[n] = {st.name}}),
                       !.column = IF st.name = "chunks" THEN 0 ELSE @,
                       !.recorded = IF st.name = "schema_config" THEN 0 ELSE @]
      [] st.op \in {"drop_index", "drop_extension"} -> [db EXCEPT !.objects = @ \ {st.name}]
      [] st.op = "drop_types" -> [db EXCEPT !.objects = @ \ Enums]

\* Alembic's run of a script, up to the statement that raises.
Run(db, script, dim) ==
    LET start == [objects |-> db.objects, column |-> db.column, recorded |-> db.recorded,
                  memo |-> {}, raised |-> FALSE]
        after[i \in 0 .. Len(script)] ==
            IF i = 0 THEN start
            ELSE LET before == after[i - 1]
                 IN  IF before.raised THEN before
                     ELSE IF Accepted(before, script[i]) THEN Executed(before, script[i], dim)
                     ELSE [before EXCEPT !.raised = TRUE]
    IN  after[Len(script)]

\* context.begin_transaction: all statements of the run, or none.
Migrated(db, run) ==
    IF run.raised THEN db
    ELSE [objects |-> run.objects, column |-> run.column, recorded |-> run.recorded]
=============================================================================
