# TLA+ verification of ipa-alterna

ipa-alterna is the storage and persistence core of a document-processing
service: PostgreSQL repositories (steps, documents, extractions, chunks, tags,
events, webhooks, users) over one migration, a vector search, a MongoDB content
store, an S3 blob store, a Redis cache, and an API application with its
configuration, error answers and readiness probes. The services, the Celery workers and the routers that will use them are
described in `docs/tasks` and not written yet. The project therefore models the
repositories and stores under the most general callers, or under the protocol
that a docstring or a task document prescribes.

## 1. Inventory

| Part | State | Operations | What is hard | What makes it correct |
|---|---|---|---|---|
| `core/enums.py`, `StepRepository` | `document_steps` | `ensure_steps`, `claim`, `mark_succeeded`, `mark_failed`, `reset_from` | workers racing for a step, resets during a run, half-done inserts, deadlocks | one winner per run of a step, rows consistent, all six rows or none, nothing downstream older than a reset |
| `session_scope` | transaction | commit, rollback | process death | no half transaction |
| `ExtractionRepository` | `extraction_versions`, `validations` | `add`, `add_validation` | read-max-then-insert, unflag-then-flag, one error for races and for foreign keys | versions 1..n, one current version, conflicts of known documents only from races |
| `DocumentRepository` | `documents` | `create`, `find_by_sha256`, `patch` | stale ORM entities, dedupe race | patches of different columns do not undo each other |
| `ChunkRepository`, `PgVectorStore` | `chunks` with copied metadata | `upsert`, `delete_document`, `refresh_metadata`, `search` | copies that go stale, two SELECTs in one search | filters see the document's values, hits are best, complete and real |
| `TagRepository` | `tags`, `tag_fields`, `tag_versions` | `create`, `replace_fields`, `bump_version`, `snapshot` | DELETE that misses concurrent rows, version race, stale version numbers | one field list; a snapshot is what the tag was at its version |
| `RedisCacheStore` | Redis keys | `lock`, `claim_idempotency`, `get_json`/`set_json`/`delete`, `cached_json` | expiry, lost answers, resends, late fills | a lease is honoured, one winner per claim, cached values current |
| `MongoContentStore` | three collections, indexes | `put_pages`, `put_extraction`, `put_raw_response`, `delete_document`, `ensure_indexes` | check-then-insert, `gather` failing half-way, indexes nobody builds | unique versions, retries overwrite, deletes complete |
| `MinioBlobStore` | bucket and objects | `put`, `put_stream`, `delete`, `ensure_bucket` | exists-then-put, truncated streams | never overwritten, what returned is stored whole |
| `storage/factory.py` | process singletons | `get_*`, `init_storage`, `close_stores` | failure across an `await` | no client leaks |
| `EventRepository` | `document_events` | `append`, `list_events` | `now()` is the start of a transaction | a listing keeps the order of each transaction and of transactions that follow each other |
| `WebhookRepository` | `webhook_deliveries` | `record_delivery`, `complete_delivery` | two reports of one delivery, one of them rolled back | the outcome left is that of the last committed call |
| `UserRepository` | `users` | `create` | a failed flush ends the session | one user per address; a conflict undoes the whole transaction |
| `migrations/` | the schema | `upgrade`, `downgrade` | order of dependent objects, types that outlive tables, the dimension of the day | up and down invert each other |
| `core/config.py`, `db/verify.py` | settings of a process | `validate_startup`, `require_model`, `verify_schema_config` | settings are read once, the schema changes | what starts does not fail later for its configuration |
| `core/errors.py`, `api/auth.py` | none | handlers, `require_auth` | an error inside a handler, texts of drivers and validators | no internals leak, client errors stay client errors |
| `api/main.py` | probes of a request | `create_app`, `readyz` | dependencies that hang, cancellation and clean-up | `/readyz` answers, and never says ready without having heard |
| logging, telemetry | | | | not modelled, see section 7 |

The parts meet at few points. `session_scope` wraps every repository call;
`refresh_metadata` copies from `documents` to `chunks`, and `search` filters on
the copies; `init_storage` prepares the bucket and the indexes that
`put_extraction` and `put_pages` rely on; `cached_json` reads through Redis;
`put_pages` goes through the client that the factory hands out and closes; a
migration fixes the dimension that `verify_schema_config` compares and that
every embedding must have.

## 2. Modules

| Module | Models | Composition |
|---|---|---|
| `Steps` | `StepRepository` in `session_scope`, with row locks, uncommitted versions and the deadlock detector | instantiates `StepLedger` |
| `StepLedger` | abstract specification: each row's committed life is a clock that never runs back, and every "you won" is entered once | |
| `StepsProofs` | theorems about `Steps` | extends `Steps` |
| `Extractions` | `ExtractionRepository`, statement by statement | |
| `ExtractionsProofs` | theorems about `Extractions` | extends `Extractions` |
| `Documents` | documents, chunks and `refresh_metadata` together | composes two repositories and the vector store |
| `RepositoriesProofs` | theorems about `Documents` and `Journal` | extends `Documents` and `Journal` |
| `Search` | `PgVectorStore.search`, `_filter_conditions`, `rrf_fuse` | |
| `Tags` | `TagRepository` | |
| `TagsProofs` | theorems about `Tags` | extends `Tags` |
| `Cache` | `RedisCacheStore` and `cached_json` over an unreliable network | |
| `CacheProofs` | theorems about `Cache` | extends `Cache` |
| `ContentStore` | `MongoContentStore` and `init_storage` by several processes | |
| `StoresProofs` | theorems about `ContentStore` and `Search` | extends `ContentStore` and `Search` |
| `ContentPages` | the batches of `put_pages` | |
| `PagesContract` | abstract specification: `put_pages` of the `ContentStore` protocol of `contracts/protocols.py` as page writes, each at one instant like `PutPage` of `ContentStore` | |
| `StoreLifecycle` | singletons and `close_stores` | |
| `Storage` | `put_pages` through the process-wide client, while it is closed and made again | composes `ContentPages` and `StoreLifecycle`, instantiates `PagesContract` |
| `ApplicationProofs` | theorems about `Storage` and `Service` | extends `Storage` and `Service` |
| `BlobStore` | `MinioBlobStore` | instantiates `BlobContract` |
| `BlobContract` | abstract specification: the `BlobStore` protocol of `contracts/protocols.py` as atomic put-if-absent | |
| `BlobStoreProofs` | theorems about `BlobStore` | extends `BlobStore` |
| `Journal` | `EventRepository`, `WebhookRepository`, `UserRepository` in concurrent sessions | |
| `Schema` | migration 0001 as data, and what PostgreSQL and Alembic do with its statements | |
| `Settings` | environments, `require_model`, `validate_startup` | |
| `Errors` | the error hierarchy and the exception handlers | |
| `Service` | an operator, an API process, its requests and its probes | extends `Schema`, `Settings`, `Errors` |
| `MCSteps`, `MCExtractions`, `MCTags`, `MCCache`, `MCJournal` | symmetry sets for TLC | extend their module |
| `MCSearch` | the chunks and filters of the run | extends `Search` |

Names follow the code: an action has the name of the method it models, or of
the statement of it where a method has several (`SelectVersion`,
`FindCurrent`, `UnflagCurrent`, `InsertVersion` are the statements of
`ExtractionRepository.add`). `pc[x]` is the next statement of a session or
coroutine (`phase` of the process in `Service`), `reg`, `entity`, `seen` are its
local variables. `Journal`, `Service` and `Search` carry their name in
`JournalInit`, `ServiceNext`, `SearchInit` and the like, because one module of
proofs extends each together with another one that has an `Init` of its own. A statement or
server operation is one step; whatever happens between two of them is another
step. Variables marked *history* are not in the program: they record what
happened so that a property can speak about it.

External systems are modelled from how the code uses them:

* **PostgreSQL**, READ COMMITTED: `db` is committed, `wip` uncommitted; an
  UPDATE or a unique key written by an open transaction makes others wait, and
  the WHERE clause is tested again after the wait; a DELETE or UPDATE works on
  the rows its snapshot found (hence two steps, *find* and *write*). A lock
  cycle is broken by aborting one transaction.
* **SQLAlchemy**: an entity keeps the values it was loaded with; a flush writes
  only attributes that differ from them.
* **pgvector**: the order of a SELECT is any order; a scan of the HNSW index
  may miss rows.
* **Redis**: one command at a time. Commands stay on `wire` until executed, in
  any order or never; an answer may be lost; the driver sends a command up to
  `MaxSends` times; a key with a TTL may go at any time.
* **MongoDB, MinIO**: one operation at a time, the answer may be lost. A unique
  index refuses duplicates and cannot be built over them.
* **Alembic**: a script is one transaction; an enum type is created with the
  first table of the run that uses it, and never dropped with a table.
* **The probed services** are up, down or hung, and change at any moment of a
  probe; a hung one neither answers nor closes a connection.
* **asyncio**: a coroutine runs to its next `await`; `gather` raises at the
  first failure and leaves the others running; `wait_for` cancels what it waits
  for and then waits for its clean-up.

Data are abstracted: columns to whether they are set (`Steps`), texts to the
call that wrote them (`ContentPages`), embeddings to an arbitrary order
(`Search`), a text in an error to where it came from (`Errors`), a table to the
types and tables it depends on (`Schema`). Scores in `Search` are whole multiples of `1 / Unit`, so that sums
of reciprocals are exact; float rounding is left out.

## 3. Runs

| Run | Instance | Properties and what they show |
|---|---|---|
| `steps` | 2 sessions, all calls, 2 steps, 1 reset | `WinsAreExclusive`: of all callers that ever claim or finish a run of a step one is told it won. `AllOrNoSteps`, `RowsAreConsistent`; `ImplementsLedger`: refinement of `StepLedger` |
| `steps_live` | 2 sessions, 2 overlapping resets | `DownstreamIsReset`; `CallsReturn`: every call ends, circles of waiting included |
| `extractions` | 2 sessions, 2 documents, 2 versions, known and unknown documents and tags | `VersionsCountAdds`, `CurrentIsLatest`, `ValidationsRefer`; `ConflictHasCause`: a ConflictError means a race, or a violated foreign key |
| `documents` | 2 sessions, 2 chunk keys, 2 values per column | `PatchIsApplied`, `FiltersAreFresh` |
| `search` | 5 chunks of 2 documents in 2 models, every table and order, 6 filters over all five members, `top_k` 1 and 3 around a fetch limit of 2 to 3, 1 change | `HitsAreBest` against the defining sum; `HitsAreComplete`: as many as there are, each a matching row (`HitsAreRows`) |
| `tags` | 2 sessions, 2 positions and 2 field keys, 3 field lists, 3 versions | `FieldsAreOneList`, `SnapshotIsCurrent`, `SnapshotsAreTrue` |
| `cache` | 3 clients, 3 kinds of key, commands sent twice | `LeaseIsHonoured`, `ClaimsAreExclusive`, `CachedIsCurrent` |
| `content` | 2 processes, with or without `init_storage` | `OneRowPerVersion`, `DeletedIsGone` |
| `pages` | 3 pages in batches of 2, a call and a retry, 2 clients per store, 1 closing coroutine, the unique index built at any moment or never | `ReturnedIsComplete`: every page is stored, in one row once the index is there. `RetryOverwrites`, `PutReturns`; `ImplementsPages`: refinement of `PagesContract`, by which a call that returned has written every page itself and writes none any more. `NoClientLeaks`: the open clients are the installed ones |
| `blobs` | 3 writers, a content-addressed and a page key, 1 deletion | `ReturnedIsStored`; `ImplementsContract`: refinement of `BlobContract` |
| `service` | 2 dimensions, 2 features, a local and a deployed environment, PostgreSQL and one other dependency | `MigrationsInvert`, `VerifiedWritesFit`, `AnswersAreHonest`, `ReadyIsTrue`, `ReadyzAnswers` |
| `journal` | 2 sessions, 3 transactions, 3 events, 1 delivery with 2 reports, 1 address in 2 spellings | `ListedInOrder`, `OutcomeIsLast`, `ConflictUndoesAll` |

The `TypeOK` of a module (`SearchType` in `Search`) states its types for the
reader and for the proofs, and no run spends time on it: the modules of section 5
prove it.

**Bounds.** The races are between two actors over one row, key or document, so
two sessions (three where a third could exploit what two left behind: locks,
blobs) and one document suffice to produce them; two steps give an
upstream and a downstream row and two lock orders. Two resets overlap in
`steps_live`; `steps` needs one, since a second adds only another generation.
Three pages in batches of two give a full and a short batch, and a close
between them; two clients per store are one before and one after a close.
Three transactions let two overlap and a third follow both. Two positions and two
keys give field lists that clash in one of them, in both or in none, and three
lists and versions let two transactions overlap on a tag that a third has made.
Two documents let a validation name one and a version of the other, two versions
let an `add` meet a first version or a second. In `service` one
feature is on while another is off, a dimension differs from the recorded one,
and one dependency must be drained while the other need not; the probes are
independent of one another, so two stand for four. `MaxSends = 2`
lets a late first command meet its own repetition. `Search` uses a small fetch
floor and ceiling in place of 100 and 500 so that `top_k` lies below, between
and at them. Where `CHECK_DEADLOCK FALSE` stands, the only states without a
successor are those in which a named bound is used up. Where two sessions may
be exchanged and no liveness is checked, symmetry is used.

**Exceptions that the properties name.** Some promises hold only outside a race
the code does not guard against; the property says so and a history variable
marks the race:

* `FiltersAreFresh`: two `refresh_metadata` calls overlap, and the one that read
  first writes last (`overlapped`).
* `PatchIsApplied`: a patch sets a column back to the value its session loaded
  while another session has changed it; SQLAlchemy sees no change (`stale`).
* `FieldsAreOneList`, `SnapshotIsCurrent`, `SnapshotsAreTrue`: a transaction calls
  `replace_fields` before `bump_version` or without it, so that no row lock
  orders it: a DELETE that finds no row waits for nobody, and two lists that share
  no position and no key are both inserted. Or `bump_version` returns a number it
  did not write, because the session had loaded the tag before and SQLAlchemy
  keeps the loaded entity, and the snapshot gets that number (`unguarded`).
  Bumping first, in a session that has not read the tag, is safe. `SnapshotIsCurrent`
  speaks of the snapshot of the newest version where there is one: a version may be
  frozen when it begins, when it ends (as the repository's tests do), or never.
* `ConflictHasCause`: the document or the tag of an `add` is unknown.
* `ValidationsRefer`: that a validation and its version are of one document is
  not said, as two independent foreign keys check them.
* `CachedIsCurrent`: a fill whose value was computed before a change arrives
  after the delete (`late`), or the delete failed and was logged; only the TTL ends it.
* `OneRowPerVersion`: before any process has built the unique index. The API's
  lifespan does not call `init_storage` (`TODO(T01)` in `factory.py`), and an index
  cannot be built over duplicates.
* `ReturnedIsComplete`, `RetryOverwrites`, `ImplementsPages`: that a page has one
  row is said from the moment the page index exists (`unique`, `keyed` in the
  contract). A deployment in which nobody calls `init_storage` never comes there.
* `ImplementsContract`: keys that are not content-addressed. `ReturnedIsStored`
  assumes that callers of `put_stream` give the size (`Sized = {TRUE}`): without
  it a truncated stream cannot be told from a short one.
* `RetryOverwrites`: an upsert that a failed call left running lands after the
  retry (`left`). `NoClientLeaks`: `aclose()` raised (`lost`). Both are findings.
* `NoClientLeaks` is also about one closing coroutine (`Closers` has one member in
  the run, and the theorem assumes it): `close_stores` is "Used on process shutdown
  and between tests". With two, TLC shows that it fails: while the first awaits
  `aclose()`, the second finishes, a client is made anew, and the `finally` of the
  first forgets it open.
* `ListedInOrder` says nothing of overlapping transactions and assumes that
  PostgreSQL's clock does not run back between them.
* `OutcomeIsLast`: the later of two calls wins, whatever they say; a late failure
  undoes a delivery.
* `AnswersAreHonest`: the detail of an `IpaError` is returned as it stands. The
  stores put the text of a driver's exception there, which so reaches the client in
  their 500; a validator's text and the input it quotes reach it in a 422.
* `VerifiedWritesFit`: a process whose deployment did not call
  `verify_schema_config`, or a migration after the call (`verified`).
* `ReadyzAnswers`: a PostgreSQL server that accepts a connection and then hangs
  for good holds `/readyz` in `connection.close()`.
* `HitsAreComplete`: a change between the two SELECTs of a search,
  an approximate index scan.

**Fairness.** `CallsReturn` (`Steps`) assumes strong fairness of each session's
next statement and of the end of its transaction, and weak fairness of the
deadlock detector. A statement that waits for a row lock is enabled again and
again as locks are freed, and PostgreSQL's lock queue serves waiters in turn;
`session_scope` ends every transaction by commit or rollback in the same
coroutine. Nothing is assumed of new calls. `PutReturns` (`Storage`)
assumes that the server answers each upsert and the event loop resumes a call
whose batch is answered, with the next batch or with the error of a closed
client (weak fairness); failures and closes are never assumed. `ReadyzAnswers`
(`Service`) assumes that timers fire, that the event loop resumes `readyz`, and
that a server that is not hung closes a connection when asked (weak fairness);
that a dependency answers is not assumed.

**Mutants.** Each checked property has a mutant: an operator marked `Mutant` that
changes one definition as a plausible bug would (a dropped guard, an UPDATE of
every column, a plain DEL for the release script). With it TLC finds the property
violated.

## 4. Findings

The properties hold with the exceptions above; seven times an exception, or what
holds, contradicts what the code says of itself.

* `NoClientLeaks` (run `pages`): `close_stores` calls `_content_store.close()`
  after `await _cache_store.aclose()` in one `try` block. When `aclose()` raises,
  the content client is forgotten without being closed, against the docstring
  ("A failure closing one client must neither leak the others ...").
* `RetryOverwrites` (run `pages`): `put_pages` awaits `asyncio.gather` without
  `return_exceptions`. After a failure the other upserts of the batch go on, and
  one can land after the retry has returned and replace the retry's text,
  against "a retried step overwrites rather than duplicates".
* `VerifiedWritesFit` (run `service`): nothing calls `verify_schema_config`,
  although its module says that "startup checks the recorded value against
  configuration and refuses to run".
* `ConflictHasCause` (run `extractions`): `add` documents "ConflictError: When a
  concurrent insert raced this one". A violated foreign key raises it too: without
  the condition `known` TLC gives a conflict of one session, alone, in 5 states.
* `FieldsAreOneList` (run `tags`): `replace_fields` is to "Replace the tag's field
  list in one transaction". Two of them on a tag without fields can leave the
  fields of both: without the condition `unguarded` TLC gives such a tag in 11
  states.
* `ReturnedIsComplete` (run `pages`): "a retried step overwrites rather than
  duplicates" needs an index that nothing in the repository creates. Without the
  condition `unique` TLC gives two rows of one page after a retry in 13 states.
* `AnswersAreHonest` (run `service`): "The stub accepts every request". Deployed, it
  refuses those without a key, and the property says that it does.

## 5. Proofs

Eight modules hold the theorems; they are true for every set of documents,
sessions, clients, keys, pages and every bound. They rest on the named
assumptions about the constants, which TLC evaluates in the runs: numbers are
naturals, `None` and the like are not members of the sets they are added to,
sets that a call chooses from are not empty (`Keys`, `Versions`, `Values`). Some
theorems have a hypothesis of their own, given below with the code that justifies
it: `SizesAreGiven` in `BlobStoreProofs` and `OneCloser` in `NoClientIsLeaked`.
All safety properties of the runs are proved, the three refinements included.

Each invariant was first checked by TLC, as an invariant of the component's run.

| Theorem | States | Property of the run |
|---|---|---|
| `StepsProofs!TypeCorrect` | Every reachable state of Steps is type correct, whatever the documents, sessions and number of steps |  |
| `StepsProofs!RowsConsistent` | The columns of a step row agree with its status in every committed and uncommitted version | `RowsAreConsistent` |
| `StepsProofs!WinsExclusive` | claim, mark_succeeded and mark_failed tell one caller at most that it won a given run of a step | `WinsAreExclusive` |
| `StepsProofs!LedgerRefined` | Steps implements StepLedger, the abstract specification of claiming | `ImplementsLedger` |
| `ExtractionsProofs!Invariance` | The inductive invariant of Extractions, on which its other theorems rest, holds of every reachable state |  |
| `ExtractionsProofs!TypeCorrect` | Every reachable state of Extractions is type correct |  |
| `ExtractionsProofs!VersionsAreAdds` | Versions are numbered from one without gaps, one for each committed add | `VersionsCountAdds` |
| `ExtractionsProofs!CurrentLatest` | The current version of a document is its latest and only one | `CurrentIsLatest` |
| `ExtractionsProofs!ConflictsAreRaces` | add of a known document and tag raises ConflictError only when another session committed a version meanwhile | `ConflictHasCause` |
| `ExtractionsProofs!ValidationsAreSound` | Every committed validation refers to a committed version, of whatever document | `ValidationsRefer` |
| `StepsProofs!DocumentsAreWhole` | A document has all its step rows or none, however ensure_steps calls interleave, block, fail or die | `AllOrNoSteps` |
| `StepsProofs!DownstreamStaysReset` | After any overlapping resets, no committed step row is older than the last committed reset of an earlier step | `DownstreamIsReset` |
| `StoresProofs!TypeCorrect` | Every reachable state of ContentStore is type correct |  |
| `StoresProofs!VersionsAreUnique` | Once the unique index exists, no two stored extractions have the same document and version | `OneRowPerVersion` |
| `StoresProofs!DeleteLeavesOnlyNew` | After delete_document returned, only what was written since it began is stored of the document | `DeletedIsGone` |
| `StoresProofs!SearchTypeCorrect` | Every reachable state of Search is type correct |  |
| `StoresProofs!SearchInvariant` | The inductive invariant of Search: what the two SELECTs have fetched, which table they saw, and that the hits are what search makes of them |  |
| `StoresProofs!HitsBest` | Hybrid hits are in the order of the sums of their reciprocal ranks and none that was left out has a larger one, for rankings of any length | `HitsAreBest` |
| `StoresProofs!HitsComplete` | A search returns top_k hits or all it can, each key once, and without a change between its SELECTs only rows that pass the filters | `HitsAreComplete` |
| `RepositoriesProofs!TypeCorrect` | Every reachable state of Documents is type correct |  |
| `RepositoriesProofs!PatchesAreApplied` | A committed patch is in the row, and patches of different columns do not undo each other | `PatchIsApplied` |
| `RepositoriesProofs!FiltersStayFresh` | What search filters on agrees with the document after its last refresh, but for overlapping refreshes | `FiltersAreFresh` |
| `RepositoriesProofs!LastOutcomeStays` | A delivery is left with the outcome of the last call among the committed ones, whatever transactions overlap or are rolled back | `OutcomeIsLast` |
| `RepositoriesProofs!ConflictsUndoAll` | An address has one user, and nothing of a transaction that met a ConflictError is committed | `ConflictUndoesAll` |
| `RepositoriesProofs!ListingsAreOrdered` | A listing keeps the order of each transaction's events and of transactions that follow each other | `ListedInOrder` |
| `BlobStoreProofs!Invariance` | The inductive invariant of BlobStore: every object and every upload under way is what some caller gave, whole |  |
| `BlobStoreProofs!ReturnedStored` | When put or put_stream returns, the object is stored whole; callers give the size of a stream | `ReturnedIsStored` |
| `BlobStoreProofs!ContractImplemented` | The two requests of a put implement the atomic put-if-absent of BlobContract | `ImplementsContract` |
| `CacheProofs!TypeCorrect` | Every reachable state of Cache is type correct, the commands on the wire included |  |
| `CacheProofs!Invariance` | The inductive invariant of Cache: a token on the wire, in a client or in the store belongs to one call |  |
| `CacheProofs!LeasesAreHonoured` | Nobody but its owner or its expiry ends a lease, whatever is lost, delayed or sent twice | `LeaseIsHonoured` |
| `CacheProofs!LocksExclude` | Two clients whose leases have not expired never both hold the lock |  |
| `CacheProofs!ClaimsExclude` | Of all callers of claim_idempotency with one key, one at most is told True before the key expires | `ClaimsAreExclusive` |
| `CacheProofs!CacheIsCurrent` | A cached value is the current one, but for a late fill or a delete that failed | `CachedIsCurrent` |
| `TagsProofs!TypeCorrect` | Every reachable state of Tags is type correct |  |
| `TagsProofs!SnapshotsStayTrue` | While every transaction bumps before it replaces and freezes the number it wrote, each snapshot, of an outgoing or of a new version, is the list the tag had at that version | `SnapshotsAreTrue` |
| `TagsProofs!FieldsStayOneList` | While every transaction bumps before it replaces, the fields of a tag are those of one list, whatever positions and keys the lists have | `FieldsAreOneList` |
| `TagsProofs!SnapshotStaysCurrent` | The snapshot of the newest version, when there is one, equals the tag's fields, while every transaction bumps before it replaces | `SnapshotIsCurrent` |
| `ApplicationProofs!TypeCorrect` | Every reachable state of ContentPages inside Storage is type correct |  |
| `ApplicationProofs!PagesImplemented` | put_pages implements PagesContract, whether the unique index comes early, late or never: pages are written one at a time, a call that returned has written all of them, only a call that raised may still write, and from the index on a write leaves one row of its page | `ImplementsPages` |
| `ApplicationProofs!ReturnedStaysComplete` | When put_pages has returned, every page of the document is stored, and in one row once the unique index exists | `ReturnedIsComplete` |
| `ApplicationProofs!RetriesOverwrite` | After a retry of put_pages every page has a row with the retry's text or that of an upsert left running, and with the unique index no other row | `RetryOverwrites` |
| `ApplicationProofs!NoClientIsLeaked` | With one closing coroutine, every open client is installed, but for an aclose() that raised | `NoClientLeaks` |
| `ApplicationProofs!ProcessIsChecked` | A process that was created has settings that passed validate_startup, until it stops |  |
| `ApplicationProofs!AnswersStayHonest` | A deployed process serves no anonymous request; no text of an unexpected exception leaves it, a driver's only in the 500 of a store, and validators' only in a 422; a client's error stays one | `AnswersAreHonest` |
| `ApplicationProofs!ReadyStaysTrue` | When /readyz answers 200, each dependency was up at some time while it was probed | `ReadyIsTrue` |
| `ApplicationProofs!MigrationsInverse` | upgrade and downgrade raise nowhere and undo each other, for any dimensions and any number of runs, by following all 60 statements | `MigrationsInvert` |
| `ApplicationProofs!VerifiedWritesStayFit` | A process that verified the schema has no embedding refused before the next migration, whatever was migrated earlier | `VerifiedWritesFit` |

**Steps.** The invariant is proved in layers, each with those below it.

1. `Typed`: `TypeOK` and the shape of calls (an idle session has no row, the row
   being written is not among the rows still to be written). Gives `TypeCorrect`.
2. `RowsSound`: both versions of a row have consistent columns, the uncommitted
   version of an unlocked row is the committed one, a locked row exists, and a row
   that does not exist was never reset. Gives `RowsConsistent`. `RowsAreConsistent`
   is not inductive alone: a session sees `db` or `wip` according to the lock, and
   only with `RowsSound` is what it sees the latest version.
3. `WinsSound`: a session's wins are on rows it has locked, later than the
   committed clock and not later than the uncommitted one; ledger entries are not
   later than the committed clock; a row that is running or finished has its
   entry, and a finished run was also claimed. Exclusiveness (`WinsExclusive`) follows because the intervals are
   disjoint, and so does the step simulation of `LedgerRefined`: commits map to
   `Settle`, everything else to a stutter.
4. `DocsSound`: a document that misses a committed row has none. Its rows are locked
   from the first step up to some step and by one session, which is at the next one in
   `ensure_steps` or has all of them: whoever else inserts waits for the first row, so
   two half-done calls never complete each other, and a crash takes the whole half
   back. Gives `DocumentsAreWhole`.
5. `ResetsSound`: count for an open transaction how often it has reset a row and not
   committed it, and one more if its `reset_from` has still to come to the row (`Owed`).
   That number does not fall from one step to the next. A commit then adds no less to a
   later step than to an earlier one. Gives `DownstreamStaysReset`, in whatever
   order the UPDATE visits its rows.

**Extractions.** `IInv` adds to `TypeOK`: nothing is uncommitted without a writer
(`Clean`); committed and uncommitted versions are numbered 1..n (`Counted`); the
newest is flagged, except between the UPDATE and the INSERT of the writer's own
`add` (`Flagged`); what an `add` under way has read is right if nobody committed
since it read, and otherwise its number is taken (`Registers`); validations refer
to versions their transaction sees, of any document (`Referenced`). `Registers` is what makes the
rest inductive: without it `InsertVersion` could store any number. From it follow
`VersionsAreAdds`, `CurrentLatest`, `ConflictsAreRaces` and `ValidationsAreSound`.

**Documents.** `RowInv`: `TypeOK` is inductive only with `KnownDocument` (a session
that loaded the row implies that there is one); with it and the unique digest
`PatchIsApplied` is inductive, because a flush writes the columns that differ from
what was loaded and no others. `FiltersAreFresh` speaks of moments when every session
is idle; `FreshInv` says the same of every moment at which no `refresh_metadata` is
owed or under way (`Refreshed`), since a session may be elsewhere in its transaction.

**Journal.** `OutcomesInv`: every row, committed or not, has the outcome of the last of the
calls that the committed transactions and its own have made to it, one session at most
has an uncommitted version of it, and a session that has called holds the row. `NumbersInv`: an open transaction has a number of its own, larger than those
committed before it, and only a failed session has raised; gives the second half of
`ConflictUndoesAll`. `UsersInv`: one transaction at most has an uncommitted user, and
none while a committed one exists. `EventsInv`: an event carries the time and the history
of its transaction, and all events that a transaction found committed have smaller ids
and no later time; at a commit nobody's history has the new events. These proofs
need no assumption about the constants.

**Tags.** `LockInv` holds whatever the callers do: whoever has written the `tags` row
holds its lock and has the next version, and what a program point tells of a
transaction. The rest is said only while no unguarded transaction has committed:
`HistoryInv`, each version up to the tag's had one list, the tag has that of its
version, the committed rows are of one write, and each snapshot is in the history; and
`Guarded`, a transaction that bumped before it replaced, and knows the number it wrote,
has the committed fields in hand until it commits, and may freeze only the outgoing
version with them or its own version with the list it wrote. The row lock is what makes
`Guarded` inductive: nobody else can commit while it is held. A commit then adds one
version to the history (`GuardCommit`), or ends the promise. `FieldsAreOneList`,
`SnapshotIsCurrent` and `SnapshotsAreTrue` are parts or consequences of `HistoryInv`,
for lists with any positions and keys.

**Cache.** What a command does when it arrives depends on a client that may have gone
on long ago. `Inv` therefore describes the wire: a command has the form its method
sends (`WellFormed`), its token is of a call that was made, and the release of a client's
last lock is there only when the client is leaving or has left it (`Sent`); a client waits
for the answer to its own command (`CommandIsOwn`). `LocksExclude` follows from
`LeaseIsHonoured`: two owners of a key would be one token.

**ContentStore.** `RowsInv`: every number in use was given before, so a new one is new;
with it `OneRowPerVersion` is inductive, through an index that is built late. `DeleteProgress`: at
each point of `delete_document` the collections it has been through hold only rows made
after the call began; `DeletedIsGone` is its last point.

**Storage.** `PagesInv`, about `put_pages`: with the unique index a page has one
row at most, of one call (`OneRow`);
what a call has had its answer for is stored (`DoneIsStored`), with its text or one
that a stray put back (`DoneIsWritten`); a flying upsert is of a call that waits for
it or a stray (`FlightsAreKnown`); a call starts when the earlier ones have ended
(`CallsInTurn`). It is proved of the composed specification: a close may stop a
call at any await. `LifeInv`, about the clients: the installed client is the last one
made, the one a `close_stores` awaits is still installed, and all others are closed or
lost. It assumes `OneCloser` (section 3, exceptions).

`PagesImplemented` maps the pages that a call has its answer for (`WrittenBy`) to those
it has written in `PagesContract`. An upsert that writes is one step of the contract;
searches, refused insertions and the start of a later batch are none. It needs two facts
more (`StrayInv`): a running call waits for pages up to the end of its present batch only,
and what outlives a call outlives one that raised.

**Service.** One invariant for each property. `ProcessInv`: what `create_app` let through
has no problem of `validate_startup`, and the process has those settings until it stops.
`AnswerInv`: the answer a process holds is honest for the request it holds and the
settings it has (`Honest`), by `HandledHonestly` over the four handlers and whatever the
HTTP codes. `ReadyInv`: a dependency that is up while it is probed is in `answered`, and a
probe that is past its question is of one of those; `ReadyIsTrue` alone says nothing while
the probes are under way. `VerifiedInv`: what was verified is still what the
database records, and only a process that is up has verified or written. That the column
has the recorded dimension comes from `MigrationsInvert`.

**Migrations.** `MigrationsInvert` is inductive by itself, as only the two migrations
change the database. What they leave is a recursive function over a script of 30
statements; `RunOfTrace` shows that it ends where any trace of the script ends, and the
traces are given: `AtUpgrade(i)` has the objects that the first `i` statements create and
the enum types their tables bring along, `AtDowngrade(i)` those that the first `30 - i`
statements of `upgrade` create, with all enum types until they are dropped. Of the scripts
the proof uses what can be read off them: names are new, each statement needs objects
of earlier ones (`UpgradeIsOrdered`), every enum type is used by some table
(`UpgradeUsesEnums`), and `downgrade` is the reverse (`DowngradeIsReverse`). So a table
is dropped when nothing that is left needs it (`LastIsFree`), and no statement raises.

**BlobStore.** `Inv`: the job of a call under way is complete or will be refused by the
size check, and a content-addressed key has one possible content (`JobsAreSound`);
objects are whole (`ObjectsAreSound`). `ContractImplemented` maps the PUT, or the
`exists` that found the object, to the atomic `Put` of `BlobContract`; that the second
writer of an addressed key stutters is `ObjectsAreSound`: it writes what is there.
Both assume `SizesAreGiven`, that callers of `put_stream` pass the size, as the run does.

**Search.** The inductive invariant `SearchIInv` is short: what each of the two SELECTs
has left, that the hits are what `rrf_fuse` makes of it, and, while nothing has changed
since the search began, that each row fetched is in the table, passes the filters and
comes once. The work is in `rrf_fuse`. The dictionary of scores is a fold over both
rankings, and `HitsAreBest` compares it with a sum over the places of a key: `FoldIsSum`
and `SumTransport` show that a fold over a finite set is its sum and that sums over sets
matched by a bijection agree, `AccumulatedIsSum` and `ScoreOfIsSum` follow the dictionary
entry by entry. The sort is `InOrder`, whose `i`-th entry is the one with `i - 1` before
it; `RankedIsListed` and `InOrderOfNumbers` show that it lists every entry once and in
order, so what is cut off scores no more than what is kept (`FusedAreBest`). The inductions
run over sets of naturals, by the well-foundedness of `<`. The theorems hold for any
chunks, rankings, limits and `RRF_K`, and any number of changes.

## 6. Only model-checked

* `CallsReturn`, `PutReturns`, `ReadyzAnswers`: liveness under fairness. The contracts
  of the refinements are safety only.
* `TypeOK` of `Service` is not stated as one formula: the invariants of its theorems
  carry the types they need.

## 7. Not modelled

* Logging and telemetry: output only. `storage/health.py` has no caller.
* The routers, services, workers and providers that `contracts/protocols.py` and
  `docs/tasks` describe: not written. A request handler in `Service` is therefore
  any outcome, and no property speaks of what a route does with its session.
* `contracts/models.py` and most of `db/dtos.py`: data types without behaviour.
* `WebhookRepository.create`: an INSERT that no constraint can refuse.
* The settings that no check looks at, and the parsing of the environment, which is
  pydantic's.
* Several requests at once in `Service`: they share no state there.
* Timeouts and pool sizes of the drivers, time itself: a key, a probe or an attempt
  may end at any moment.

## 8. Plan

Done: `Steps` with `StepLedger`, `Extractions`, their proofs; `Cache`,
`ContentStore`, `ContentPages`, `StoreLifecycle` and their composition `Storage`;
`BlobStore` with `BlobContract`, `Storage` with `PagesContract`; `Documents`, `Search`,
`Tags`, `Journal`; `Schema`, `Settings`, `Errors` and `Service`.

Proved: every safety property that the runs check, and the refinements of `StepLedger`,
`BlobContract` and `PagesContract`.

Next, when the code grows:

1. When upload (T07) is written: claim, dedupe, blob, row and steps as a composition
   of `Cache`, `BlobStore`, `Documents` and `Steps`.
2. When workers are written: a step that dies after its claim, which `claim` never hands
   out again; a recovery would have to be modelled with it.
