------------------------------- MODULE Search -------------------------------
(***************************************************************************)
(* PgVectorStore.search and rrf_fuse (src/ipa/db/vector.py) over chunks    *)
(* that other sessions change meanwhile.  A hybrid search is two SELECTs   *)
(* of one READ COMMITTED session, by distance and by full-text rank, fused *)
(* by Reciprocal Rank Fusion.                                              *)
(*                                                                         *)
(* The order of a SELECT depends on embeddings and texts: it is any order. *)
(* A score 1 / (RRF_K + rank) is counted in the unit 1 / Unit, which makes *)
(* every score a whole number; the rounding of floats is left out.         *)
(*                                                                         *)
(* Where another module has a name of its own for the same thing, the name *)
(* has Search in it, so that one module can extend both.                   *)
(***************************************************************************)
EXTENDS Naturals, FiniteSets, Sequences, SequencesExt

CONSTANTS
    DocumentIds,
    Indexes,            \* chunk_index values
    Models,             \* embed_model values
    Times,              \* values of created_at
    Made,               \* the chunks there may be when the search begins
    Asked,              \* the filters a search may be called with
    RRF_K,
    FETCH_MULTIPLIER,
    FETCH_FLOOR,
    FETCH_CEILING,
    TopKs,              \* values of top_k
    MaxChanges          \* bound on the changes between the two SELECTs

ASSUME SearchAssumption ==
    /\ RRF_K \in Nat /\ MaxChanges \in Nat
    /\ FETCH_MULTIPLIER \in Nat \ {0} /\ FETCH_FLOOR \in Nat /\ FETCH_CEILING \in Nat
    /\ TopKs \subseteq Nat \ {0}

\* tag_id and document_status are the members that refresh_metadata copied
\* into the metadata, 0 when they are missing or null; text is 1 or, after an
\* upsert, 2.
Chunk == [document : DocumentIds, index : Indexes, model : Models, text : {1, 2},
          tag_id : {0, 1, 2}, document_status : {0, 1, 2}, created_at : Times]

\* SearchFilters: an empty set for a list that is None or empty, 0 for a time
\* that is None.
SearchFilters ==
    [tag_ids : SUBSET {1, 2}, document_ids : SUBSET DocumentIds, statuses : SUBSET {1, 2},
     created_after : Times \cup {0}, created_before : Times \cup {0}]

ASSUME InputsAssumption ==
    /\ Times \subseteq Nat \ {0}
    /\ Made \subseteq Chunk /\ Asked \subseteq SearchFilters

VARIABLES
    table,          \* the chunk rows
    stage,          \* the next statement of the search
    top_k,          \* its arguments: how many hits,
    filters,        \* ... and the narrowing
    exact,          \* the planner does not use the HNSW index
    vector_rows,    \* the result of the first SELECT
    text_rows,      \* the result of the second
    hits,           \* what search returns
    found,          \* history: how many rows matched the first SELECT
    changes         \* history: changes of the table between the two

searchVars ==
    <<table, stage, top_k, filters, exact, vector_rows, text_rows, hits, found, changes>>

\* A row of a result: the chunk with the distance or the rank as last column.
Rows == [chunk : Chunk, by : {"distance", "rank"}]
Selected(seq, by) == [i \in 1 .. Len(seq) |-> [chunk |-> seq[i], by |-> by]]

SameKey(c, d) == c.document = d.document /\ c.index = d.index /\ c.model = d.model

\* A row of each key (document_id, chunk_index, embed_model) at most.
Tables == {t \in SUBSET Made : IsFiniteSet(t) /\ \A c, d \in t : SameKey(c, d) => c = d}

----------------------------------------------------------------------------
(* rrf_fuse *)

Unit == FoldSet(LAMBDA n, product : n * product, 1,
                RRF_K + 1 .. RRF_K + FETCH_CEILING)

\* 1.0 / (RRF_K + rank + 1), for the row at position rank + 1.
Weight(position) == Unit \div (RRF_K + position)

\* The identity of a row: (document_id, chunk_index, text).
Identity(chunk) == <<chunk.document, chunk.index, chunk.text>>
Key(row) == Identity(row.chunk)

\* The members of a set in the order of Before: the i-th one has i - 1 before it.
InOrder(set, Before(_, _)) ==
    [i \in 1 .. Cardinality(set) |->
        CHOOSE x \in set : Cardinality({y \in set : Before(y, x)}) = i - 1]

\* Mutant: a later ranking replaces the score of an earlier one.
LastWeight(score, weight) == weight

\* scores.get(key, 0.0) + ...
Accumulated(score, weight) == score + weight

\* The pairs <<row, weight>> in the order of the two loops.
Weighted(rankings) ==
    FlattenSeq([r \in 1 .. Len(rankings) |->
        [i \in 1 .. Len(rankings[r]) |-> <<rankings[r][i], Weight(i)>>]])

\* The dictionary scores: entries [key, score, row, born] where born is the
\* place of the key's first row.
Scores(rankings) ==
    LET pairs == Weighted(rankings)
        Keys == {Key(pairs[i][1]) : i \in 1 .. Len(pairs)}
        At(k) == InOrder({i \in 1 .. Len(pairs) : Key(pairs[i][1]) = k}, <)
    IN  {[key |-> k,
          score |-> FoldLeft(LAMBDA s, i : Accumulated(s, pairs[i][2]), 0, At(k)),
          row |-> pairs[Last(At(k))][1],
          born |-> At(k)[1]] : k \in Keys}

\* sorted(..., reverse=True) keeps the order of equal scores.
BestFirst(a, b) == a.score > b.score \/ (a.score = b.score /\ a.born < b.born)

\* ordered[:top_k]
Top(seq, k) == SubSeq(seq, 1, IF k < Len(seq) THEN k ELSE Len(seq))

rrf_fuse(rankings, k) == Top(InOrder(Scores(rankings), BestFirst), k)

----------------------------------------------------------------------------
(* search *)

\* Mutant: min where max is meant.
FetchTooFew(k) == IF k * FETCH_MULTIPLIER > FETCH_FLOOR THEN FETCH_FLOOR
                                                        ELSE k * FETCH_MULTIPLIER

\* min(max(top_k * _FETCH_MULTIPLIER, _FETCH_FLOOR), _FETCH_CEILING)
Fetch(k) ==
    LET wanted == IF k * FETCH_MULTIPLIER > FETCH_FLOOR THEN k * FETCH_MULTIPLIER
                                                        ELSE FETCH_FLOOR
    IN  IF wanted < FETCH_CEILING THEN wanted ELSE FETCH_CEILING

\* _filter_conditions: a member that is not set filters nothing, and a member
\* that is missing in the metadata matches nothing.
FilterConditions(chunk) ==
    /\ filters.tag_ids # {} => chunk.tag_id \in filters.tag_ids
    /\ filters.document_ids # {} => chunk.document \in filters.document_ids
    /\ filters.statuses # {} => chunk.document_status \in filters.statuses
    /\ filters.created_after # 0 => chunk.created_at >= filters.created_after
    /\ filters.created_before # 0 => chunk.created_at <= filters.created_before

\* The results that ORDER BY and LIMIT may give for a set of rows.
Orders(set, limit) ==
    IF Cardinality(set) <= limit THEN SetToSeqs(set)
    ELSE UNION {SetToSeqs(s) : s \in {s \in SUBSET set : Cardinality(s) = limit}}

\* An HNSW scan is approximate: it may miss matching rows, because it visits
\* hnsw.ef_search neighbours and the conditions are tested afterwards.
Scanned(set, limit) ==
    IF exact THEN Orders(set, limit)
    ELSE UNION {Orders(s, limit) : s \in SUBSET set}

SearchInit ==
    /\ table \in Tables
    /\ stage = "vector"
    /\ top_k \in TopKs
    /\ filters \in Asked
    /\ exact \in BOOLEAN
    /\ vector_rows = <<>>
    /\ text_rows = <<>>
    /\ hits = <<>>
    /\ found = 0
    /\ changes = 0

\* The first SELECT, ordered by cosine distance.
SelectVector ==
    LET matching == {c \in table : FilterConditions(c)}
    IN  /\ stage = "vector"
        /\ \E order \in Scanned(matching, Fetch(top_k)) :
              vector_rows' = Selected(order, "distance")
        /\ found' = Cardinality(matching)
        /\ stage' = "text"
        /\ UNCHANGED <<table, top_k, filters, exact, text_rows, hits, changes>>

Change(new) ==
    /\ stage = "text"
    /\ changes < MaxChanges
    /\ table' = new /\ new # table
    /\ changes' = changes + 1
    /\ UNCHANGED <<stage, top_k, filters, exact, vector_rows, text_rows, hits, found>>

\* Another session upserts a chunk: a new one, or the text and the metadata of
\* one that is there ...
UpsertChunk(c) ==
    /\ c \in table \/ \A old \in table : ~ SameKey(old, c)
    /\ Change((table \ {c}) \cup {[c EXCEPT !.text = 2, !.tag_id = 0, !.document_status = 0]})

\* ... or refreshes the metadata of the chunks of a document ...
RefreshMetadata(document, tag_id, status) ==
    Change({IF c.document = document
               THEN [c EXCEPT !.tag_id = tag_id, !.document_status = status]
               ELSE c : c \in table})

\* ... or deletes them.
DeleteChunks(document) == Change({c \in table : c.document # document})

\* What search returns for the rows it has.
Hits(vector, text) ==
    IF text = <<>> THEN Top(vector, top_k)
    ELSE LET fused == rrf_fuse(<<vector, text>>, top_k)
         IN  [i \in 1 .. Len(fused) |-> fused[i].row]

\* The second SELECT: the rows whose text matches the query, by ts_rank.
\* Which texts match is any set of them, the empty one also for a search
\* without query_text; ranks may be equal, of one text in two models or of
\* different ones, and rows of equal rank come in any order.
SelectText ==
    LET matching(texts) == {c \in table : FilterConditions(c) /\ Identity(c) \in texts}
    IN  /\ stage = "text"
        /\ \E texts \in SUBSET {Identity(c) : c \in table} :
              \E order \in Orders(matching(texts), Fetch(top_k)) :
                 text_rows' = Selected(order, "rank")
        /\ hits' = Hits(vector_rows, text_rows')
        /\ stage' = "done"
        /\ UNCHANGED <<table, top_k, filters, exact, vector_rows, found, changes>>

SearchNext ==
    \/ SelectVector
    \/ \E c \in table \cup Made : UpsertChunk(c)
    \/ \E document \in DocumentIds :
          \/ \E tag_id \in {0, 1, 2}, status \in {1, 2} :
                RefreshMetadata(document, tag_id, status)
          \/ DeleteChunks(document)
    \/ SelectText

SearchSpec == SearchInit /\ [][SearchNext]_searchVars

----------------------------------------------------------------------------
(* Properties *)

Places(seq, key) == {i \in 1 .. Len(seq) : Key(seq[i]) = key}

SumOf(set) == FoldSet(LAMBDA i, sum : Weight(i) + sum, 0, set)

\* The fused score by its definition: the sum over the rankings of the
\* weights of the places the key has in them.
Score(key) == SumOf(Places(vector_rows, key)) + SumOf(Places(text_rows, key))

Ranked == {Key(vector_rows[i]) : i \in 1 .. Len(vector_rows)}
            \cup {Key(text_rows[i]) : i \in 1 .. Len(text_rows)}

HitKeys == {Key(hits[i]) : i \in 1 .. Len(hits)}

Min2(a, b) == IF a < b THEN a ELSE b

\* Every variable has its type.
SearchType ==
    /\ table \subseteq Chunk
    /\ stage \in {"vector", "text", "done"}
    /\ top_k \in TopKs /\ filters \in SearchFilters /\ exact \in BOOLEAN
    /\ \A seq \in {vector_rows, text_rows} :
          /\ Len(seq) <= FETCH_CEILING
          /\ \A i \in 1 .. Len(seq) : seq[i] \in Rows
    /\ \A i \in 1 .. Len(hits) : hits[i] \in Rows
    /\ found \in Nat /\ changes \in 0 .. MaxChanges

\* Hybrid hits come best first by the sum of their reciprocal ranks, and no
\* candidate that was left out has a better one, although keys repeat within
\* and between the rankings.  (With one model a chunk that both rankings put
\* first is thus the first hit; with several a chunk counts once per model.)
HitsAreBest ==
    stage = "done" /\ text_rows # <<>> =>
        /\ \A i, j \in 1 .. Len(hits) : i < j => Score(Key(hits[i])) >= Score(Key(hits[j]))
        /\ \A i \in 1 .. Len(hits) : \A key \in Ranked \ HitKeys :
              Score(Key(hits[i])) >= Score(key)

\* "Optional narrowing": what a search is to leave out.
Excluded(chunk) ==
    \/ filters.tag_ids # {} /\ chunk.tag_id \notin filters.tag_ids
    \/ filters.document_ids # {} /\ chunk.document \notin filters.document_ids
    \/ filters.statuses # {} /\ chunk.document_status \notin filters.statuses
    \/ filters.created_after > chunk.created_at
    \/ filters.created_before \notin {0} \cup {t \in Times : t >= chunk.created_at}

\* When nothing changed between the two SELECTs, hits are rows of the table
\* that the filter does not exclude, and one row gives one hit.  A change
\* between them can return a chunk twice, with its old and with its new text.
HitsAreRows ==
    changes = 0 =>
        /\ \A i \in 1 .. Len(hits) : hits[i].chunk \in table /\ ~ Excluded(hits[i].chunk)
        /\ \A i, j \in 1 .. Len(hits) : hits[i].chunk = hits[j].chunk => i = j

\* "Maximum number of hits" and no fewer than there are: a pure vector search
\* returns top_k hits or all matching rows (unless an approximate index scan
\* missed some), a hybrid one top_k or all candidates, each key once; and
\* all of them are matching rows.
HitsAreComplete ==
    stage = "done" =>
        /\ HitsAreRows
        /\ IF text_rows = <<>>
           THEN exact /\ top_k <= FETCH_CEILING => Len(hits) = Min2(top_k, found)
           ELSE /\ Len(hits) = Min2(top_k, Cardinality(Ranked))
                /\ Cardinality(HitKeys) = Len(hits)
=============================================================================
