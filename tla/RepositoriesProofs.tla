------------------------- MODULE RepositoriesProofs -------------------------
(***************************************************************************)
(* Proofs about the repositories beside the pipeline: Documents and, below *)
(* it, Journal.                                                            *)
(*                                                                         *)
(* Documents, for any number of sessions, chunk keys and column values:    *)
(* RowInv is about the row of documents; TypeOK is not inductive without   *)
(* KnownDocument (a session that loaded the row implies that there is      *)
(* one).  FreshInv adds the chunks: FiltersAreFresh speaks of the moment   *)
(* when every session is idle, and Refreshed says it of every moment at    *)
(* which no refresh_metadata is owed or under way.                         *)
(*                                                                         *)
(* Journal, for any number of sessions, transactions, events, deliveries   *)
(* and spellings: OutcomesInv about the deliveries, and NumbersInv, that   *)
(* open transactions have numbers of their own, with UsersInv and          *)
(* EventsInv on top of it.                                                 *)
(***************************************************************************)
EXTENDS Documents, Journal, TLAPS, FiniteSetTheorems


\* Only a document that exists is loaded or copied to chunks.
KnownDocument == \A a \in Actors : pc[a] \in {"flush", "update"} => copies > 0

\* sha256 is unique.
OneRow == copies <= 1

RowInv == TypeOK /\ KnownDocument /\ OneRow /\ PatchIsApplied

\* A session that is about to refresh the metadata, or is doing it.
Refreshing(a) == pc[a] \in {"select", "update"}

\* When none is, the chunks agree with the document or the last refresh to
\* write had read it too early.
Refreshed ==
    (\A a \in Actors : ~ Refreshing(a)) /\ ~ overlapped
        => \A k \in Keys : chunks[k] # NoChunk => chunks[k] = document

\* Chunks refer to a document.
ChunksHaveDocument == copies = 0 => \A k \in Keys : chunks[k] = NoChunk

FreshInv == RowInv /\ Refreshed /\ ChunksHaveDocument

----------------------------------------------------------------------------
(* The row of the document *)

\* The committed columns are a row, whether or not the document exists.
LEMMA DocumentIsRow == ASSUME TypeOK PROVE document \in Row
<1>1. CASE copies = 0
  BY <1>1 DEF TypeOK, NoColumns, Row
<1>2. CASE copies # 0
  BY <1>2 DEF TypeOK, Row
<1> QED
  BY <1>1, <1>2

\* A flush replaces the columns of an existing document by column values.
LEMMA FlushedType ==
    ASSUME NEW loaded \in Row, NEW p \in Row, document \in [Columns -> Values]
    PROVE  Flushed(loaded, p) \in [Columns -> Values]
BY DEF Flushed, Row

\* The first state satisfies RowInv.
LEMMA InitRow == Init => RowInv
<1> SUFFICES ASSUME Init PROVE RowInv
  OBVIOUS
<1>1. NoColumns \in Row /\ NoChunk \in Row \cup {NoChunk}
  BY DEF NoColumns, Row
<1>2. TypeOK
  BY <1>1 DEF Init, TypeOK
<1>3. KnownDocument /\ OneRow
  BY DEF Init, KnownDocument, OneRow
<1>4. PatchIsApplied
  BY DEF Init, PatchIsApplied
<1> QED
  BY <1>2, <1>3, <1>4 DEF RowInv

\* create: the row is inserted only where there is none.
LEMMA CreateRow ==
    ASSUME RowInv, NEW a \in Actors, create(a)
    PROVE  RowInv'
<1>1. CASE copies = 0
  <2>1. /\ copies' = 1
        /\ document' \in [Columns -> Values]
        /\ given' = document'
    BY <1>1 DEF create, Sha256Taken
  <2>2. /\ pc' = [pc EXCEPT ![a] = "idle"]
        /\ UNCHANGED <<chunks, entity, patch, seen, stale, overlapped>>
    BY DEF create, Goto
  <2>3. given' \in Row
    BY <2>1 DEF Row
  <2>4. TypeOK'
    BY <2>1, <2>2, <2>3 DEF RowInv, TypeOK
  <2>5. KnownDocument' /\ OneRow' /\ PatchIsApplied'
    BY <2>1, <2>2 DEF KnownDocument, OneRow, PatchIsApplied
  <2> QED
    BY <2>4, <2>5 DEF RowInv
<1>2. CASE copies # 0
  <2>1. copies > 0
    BY <1>2 DEF RowInv, TypeOK
  <2>2. /\ pc' = [pc EXCEPT ![a] = "idle"]
        /\ UNCHANGED <<copies, document, given, chunks, entity, patch, seen, stale, overlapped>>
    BY <2>1 DEF create, Goto, Sha256Taken
  <2> QED
    BY <2>2 DEF RowInv, TypeOK, KnownDocument, OneRow, PatchIsApplied
<1> QED
  BY <1>1, <1>2

\* Flush: a column named by the patch gets its value unless the loaded one was
\* old, and every other column keeps the committed one.
LEMMA FlushRow ==
    ASSUME RowInv, NEW a \in Actors, Flush(a)
    PROVE  RowInv'
<1>1. /\ pc[a] = "flush"
      /\ document' = Flushed(entity[a], patch[a])
      /\ given' = [c \in Columns |-> IF c \in Set(patch[a]) THEN patch[a][c] ELSE given[c]]
      /\ stale' = {c \in Columns : IF c \in Set(patch[a]) THEN entity[a][c] # document[c]
                                                          ELSE c \in stale}
      /\ entity' = [entity EXCEPT ![a] = NoColumns]
      /\ patch' = [patch EXCEPT ![a] = NoColumns]
      /\ pc' = [pc EXCEPT ![a] = "select"]
      /\ UNCHANGED <<copies, chunks, seen, overlapped>>
  BY DEF Flush, Goto
<1>2. copies # 0 /\ copies > 0
  BY <1>1 DEF RowInv, KnownDocument
<1>3. /\ document \in [Columns -> Values]
      /\ entity[a] \in Row /\ patch[a] \in Row /\ NoColumns \in Row
  BY <1>2 DEF RowInv, TypeOK, NoColumns, Row
<1>4. document' \in [Columns -> Values]
  BY <1>1, <1>3, FlushedType
<1>5. given' \in Row
  BY <1>1, <1>3 DEF RowInv, TypeOK, Row
<1>6. TypeOK'
  BY <1>1, <1>2, <1>3, <1>4, <1>5 DEF RowInv, TypeOK
<1>7. KnownDocument' /\ OneRow'
  BY <1>1, <1>2 DEF RowInv, TypeOK, KnownDocument, OneRow
<1>8. PatchIsApplied'
  BY <1>1, <1>3 DEF RowInv, PatchIsApplied, Flushed, Set
<1> QED
  BY <1>6, <1>7, <1>8 DEF RowInv

\* Every step of every session keeps RowInv.
LEMMA NextRow == RowInv /\ [Next]_vars => RowInv'
<1> SUFFICES ASSUME RowInv, [Next]_vars
             PROVE  RowInv'
  OBVIOUS
<1>a. NoColumns \in Row
  BY DEF NoColumns, Row
<1>1. CASE UNCHANGED vars
  BY <1>1 DEF vars, RowInv, TypeOK, KnownDocument, OneRow, PatchIsApplied
<1>2. ASSUME NEW a \in Actors, find_by_sha256(a) \/ Refresh(a)
      PROVE  RowInv'
  BY <1>2 DEF find_by_sha256, Refresh, Goto, RowInv, TypeOK, KnownDocument,
              OneRow, PatchIsApplied
<1>3. ASSUME NEW a \in Actors, NEW p \in Row, SessionGet(a, p)
      PROVE  RowInv'
  <2>1. document \in Row
    BY DocumentIsRow DEF RowInv
  <2> QED
    BY <1>3, <2>1 DEF SessionGet, Goto, RowInv, TypeOK, KnownDocument,
                      OneRow, PatchIsApplied
<1>4. ASSUME NEW a \in Actors, Rollback(a)
      PROVE  RowInv'
  BY <1>4, <1>a DEF Rollback, Goto, RowInv, TypeOK, KnownDocument,
                    OneRow, PatchIsApplied
<1>5. ASSUME NEW a \in Actors, NEW batch \in SUBSET Keys, upsert(a, batch)
      PROVE  RowInv'
  <2>1. chunks' \in [Keys -> Row \cup {NoChunk}]
    BY <1>5, <1>a DEF upsert, RowInv, TypeOK
  <2> QED
    BY <1>5, <2>1 DEF upsert, Goto, RowInv, TypeOK, KnownDocument,
                      OneRow, PatchIsApplied
<1>6. ASSUME NEW a \in Actors, delete_document(a)
      PROVE  RowInv'
  BY <1>6 DEF delete_document, RowInv, TypeOK, KnownDocument, OneRow, PatchIsApplied
<1>7. ASSUME NEW a \in Actors, SelectDocument(a)
      PROVE  RowInv'
  <2>1. document \in Row
    BY DocumentIsRow DEF RowInv
  <2> QED
    BY <1>7, <2>1 DEF SelectDocument, Goto, RowInv, TypeOK, KnownDocument,
                      OneRow, PatchIsApplied
<1>8. ASSUME NEW a \in Actors, UpdateChunks(a)
      PROVE  RowInv'
  <2>1. chunks' \in [Keys -> Row \cup {NoChunk}]
    BY <1>8 DEF UpdateChunks, Merged, RowInv, TypeOK
  <2> QED
    BY <1>8, <1>a, <2>1 DEF UpdateChunks, Goto, RowInv, TypeOK, KnownDocument,
                            OneRow, PatchIsApplied
<1>9. ASSUME NEW a \in Actors, RefreshFails(a)
      PROVE  RowInv'
  BY <1>9, <1>a DEF RefreshFails, Goto, RowInv, TypeOK, KnownDocument,
                    OneRow, PatchIsApplied
<1> QED
  BY <1>1, <1>2, <1>3, <1>4, <1>5, <1>6, <1>7, <1>8, <1>9, CreateRow, FlushRow DEF Next

\* Type correctness, which includes that a row has all its columns set.
THEOREM TypeCorrect == Spec => []TypeOK
<1>1. RowInv => TypeOK
  BY DEF RowInv
<1> QED
  BY <1>1, InitRow, NextRow, PTL DEF Spec

\* No interleaving of sessions loses a patched column to a patch of another
\* column: the committed value is the one last given, unless the patch that
\* gave it had loaded an old value.
THEOREM PatchesAreApplied == Spec => []PatchIsApplied
<1>1. RowInv => PatchIsApplied
  BY DEF RowInv
<1> QED
  BY <1>1, InitRow, NextRow, PTL DEF Spec

----------------------------------------------------------------------------
(* The copies on the chunks *)

\* The first state satisfies FreshInv.
LEMMA InitFresh == Init => FreshInv
<1> SUFFICES ASSUME Init PROVE Refreshed /\ ChunksHaveDocument
  BY InitRow DEF FreshInv
<1> QED
  BY DEF Init, Refreshed, ChunksHaveDocument

\* A step that leaves the document and its chunks alone and takes no session
\* out of refresh_metadata keeps FreshInv's facts.
LEMMA QuietFresh ==
    ASSUME FreshInv, UNCHANGED <<copies, document, chunks, overlapped>>,
           \A b \in Actors : Refreshing(b) => Refreshing(b)'
    PROVE  Refreshed' /\ ChunksHaveDocument'
BY DEF FreshInv, Refreshed, ChunksHaveDocument

\* Every step keeps FreshInv: whoever changes the document or a chunk owes a
\* refresh from then on, and the refresh that writes last either wrote the
\* document's columns or is recorded as overlapped.
LEMMA NextFresh == FreshInv /\ [Next]_vars => FreshInv'
<1> SUFFICES ASSUME FreshInv, [Next]_vars
             PROVE  Refreshed' /\ ChunksHaveDocument'
  BY NextRow DEF FreshInv
<1>t. pc \in [Actors -> {"idle", "create", "flush", "select", "update"}]
  BY DEF FreshInv, RowInv, TypeOK
<1>1. CASE UNCHANGED vars
  BY <1>1, QuietFresh DEF vars, Refreshing
<1>2. ASSUME NEW a \in Actors,
             \/ find_by_sha256(a) \/ Rollback(a) \/ Refresh(a) \/ RefreshFails(a)
             \/ \E p \in Row : SessionGet(a, p)
      PROVE  Refreshed' /\ ChunksHaveDocument'
  <2>1. UNCHANGED <<copies, document, chunks, overlapped>>
    BY <1>2 DEF find_by_sha256, Rollback, Refresh, RefreshFails, SessionGet
  <2>2. \A b \in Actors : Refreshing(b) => Refreshing(b)'
    BY <1>2, <1>t DEF find_by_sha256, Rollback, Refresh, RefreshFails, SessionGet, Goto, Refreshing
  <2> QED
    BY <2>1, <2>2, QuietFresh
<1>3. ASSUME NEW a \in Actors, create(a)
      PROVE  Refreshed' /\ ChunksHaveDocument'
  <2>1. \A b \in Actors : Refreshing(b) => Refreshing(b)'
    BY <1>3, <1>t DEF create, Goto, Refreshing
  <2>2. CASE copies = 0
    <3>1. \A k \in Keys : chunks'[k] = NoChunk
      BY <1>3, <2>2 DEF create, FreshInv, ChunksHaveDocument
    <3> QED
      BY <3>1 DEF Refreshed, ChunksHaveDocument
  <2>3. CASE copies # 0
    <3>1. Sha256Taken
      BY <2>3 DEF Sha256Taken, FreshInv, RowInv, TypeOK
    <3>2. UNCHANGED <<copies, document, chunks, overlapped>>
      BY <1>3, <3>1 DEF create
    <3> QED
      BY <2>1, <3>2, QuietFresh
  <2> QED
    BY <2>2, <2>3
<1>4. ASSUME NEW a \in Actors,
             Flush(a) \/ \E batch \in SUBSET Keys : upsert(a, batch)
      PROVE  Refreshed' /\ ChunksHaveDocument'
  <2>1. pc' = [pc EXCEPT ![a] = "select"] /\ copies' = copies
    BY <1>4 DEF Flush, upsert, Goto
  <2>2. Refreshing(a)'
    BY <2>1, <1>t DEF Refreshing
  <2>3. copies > 0
    BY <1>4 DEF Flush, upsert, FreshInv, RowInv, KnownDocument
  <2> QED
    BY <2>1, <2>2, <2>3 DEF Refreshed, ChunksHaveDocument
<1>5. ASSUME NEW a \in Actors, delete_document(a)
      PROVE  Refreshed' /\ ChunksHaveDocument'
  BY <1>5 DEF delete_document, Refreshed, ChunksHaveDocument
<1>6. ASSUME NEW a \in Actors, SelectDocument(a)
      PROVE  Refreshed' /\ ChunksHaveDocument'
  <2>1. UNCHANGED <<copies, document, chunks, overlapped>>
    BY <1>6 DEF SelectDocument
  <2>2. CASE copies = 0
    BY <2>1, <2>2 DEF FreshInv, Refreshed, ChunksHaveDocument
  <2>3. CASE copies # 0
    <3>1. \A b \in Actors : Refreshing(b) => Refreshing(b)'
      BY <1>6, <1>t, <2>3 DEF SelectDocument, Goto, Refreshing
    <3> QED
      BY <2>1, <3>1, QuietFresh
  <2> QED
    BY <2>2, <2>3
<1>7. ASSUME NEW a \in Actors, UpdateChunks(a)
      PROVE  Refreshed' /\ ChunksHaveDocument'
  <2>1. /\ copies' = copies /\ document' = document
        /\ chunks' = [k \in Keys |-> IF chunks[k] = NoChunk THEN NoChunk ELSE seen[a]]
        /\ overlapped' = (seen[a] # document)
    BY <1>7 DEF UpdateChunks, Merged
  <2> QED
    BY <2>1 DEF FreshInv, Refreshed, ChunksHaveDocument
<1> QED
  BY <1>1, <1>2, <1>3, <1>4, <1>5, <1>6, <1>7 DEF Next

\* "or search filters go stale": they do not while every caller refreshes,
\* whatever the sessions' interleaving, but for the overlap the property
\* names.
THEOREM FiltersStayFresh == Spec => []FiltersAreFresh
<1>1. FreshInv => FiltersAreFresh
  BY DEF FreshInv, Refreshed, FiltersAreFresh, Refreshing
<1> QED
  BY <1>1, InitFresh, NextFresh, PTL DEF Spec

----------------------------------------------------------------------------
(* Journal: types and transactions *)

\* A row of document_events.
Event == [id : Nat, created_at : Nat, tx : Nat, after : SUBSET Nat]

\* A row of users.
User == [email : Spellings, tx : Nat]

\* A row of webhook_deliveries, or none.
Delivery == Nat \cup {NoRow}

\* The calls of complete_delivery.
Call == Deliveries \X Nat

\* What a session has written and not committed.
Transaction ==
    [n : Nat, now : Nat, after : SUBSET Nat, raised : BOOLEAN,
     events : SUBSET Event, users : SUBSET User, calls : SUBSET Call,
     deliveries : [Deliveries -> Delivery]]

\* The types of the variables of Journal.
JournalType ==
    /\ clock \in Nat /\ begins \in Nat /\ lastEvent \in Nat /\ lastDelivery \in Nat
    /\ completions \in Nat
    /\ committed \in SUBSET Nat
    /\ events \in SUBSET Event
    /\ users \in SUBSET User
    /\ deliveries \in [Deliveries -> Delivery]
    /\ reported \in SUBSET Call
    /\ state \in [Sessions -> {"idle", "open", "failed"}]
    /\ tx \in [Sessions -> Transaction]

\* The transactions of the others go on as they were.
OthersStay(s) ==
    /\ tx' = [t \in Sessions |-> tx'[t]] /\ state' = [t \in Sessions |-> state'[t]]
    /\ \A t \in Sessions : t # s => tx'[t] = tx[t] /\ state'[t] = state[t]

\* A statement leaves the number, the time and the history of its transaction.
SameTransaction(s) ==
    /\ tx'[s].n = tx[s].n /\ tx'[s].now = tx[s].now /\ tx'[s].after = tx[s].after

\* The parts of a transaction that wrote nothing.
LEMMA NewTxParts ==
    ASSUME NEW n \in Nat, NEW now \in Nat, NEW after \in SUBSET Nat
    PROVE  /\ NewTx(n, now, after) \in Transaction
           /\ NewTx(n, now, after).n = n
           /\ NewTx(n, now, after).now = now
           /\ NewTx(n, now, after).after = after
           /\ NewTx(n, now, after).raised = FALSE
           /\ NewTx(n, now, after).events = {}
           /\ NewTx(n, now, after).users = {}
           /\ NewTx(n, now, after).calls = {}
BY DEF NewTx, Transaction, Delivery

\* It has written no delivery.
LEMMA NewTxRows ==
    ASSUME NEW n, NEW now, NEW after, NEW i \in Deliveries
    PROVE  NewTx(n, now, after).deliveries[i] = NoRow
BY DEF NewTx

\* ... and made no call.
LEMMA NewTxCalls == \A n, now, after : NewTx(n, now, after).calls = {}
BY DEF NewTx

\* The parts of any.
LEMMA TxParts ==
    ASSUME NEW t \in Transaction
    PROVE  /\ t.n \in Nat /\ t.now \in Nat /\ t.after \in SUBSET Nat /\ t.raised \in BOOLEAN
           /\ t.events \in SUBSET Event /\ t.users \in SUBSET User
           /\ t.calls \in SUBSET Call
           /\ t.deliveries \in [Deliveries -> Delivery]
BY DEF Transaction

\* The types hold at first.
LEMMA InitType == JournalInit => JournalType
<1> SUFFICES ASSUME JournalInit PROVE JournalType
  OBVIOUS
<1>1. NewTx(0, 0, {}) \in Transaction
  BY NewTxParts
<1>2. deliveries \in [Deliveries -> Delivery]
  BY DEF JournalInit, Delivery
<1> QED
  BY <1>1, <1>2 DEF JournalInit, JournalType

\* What a step does to the transaction of its session: it begins.
LEMMA BeginForm ==
    ASSUME JournalType, NEW s \in Sessions, Begin(s)
    PROVE  /\ OthersStay(s)
           /\ state[s] = "idle" /\ state'[s] = "open"
           /\ tx'[s] = NewTx(begins + 1, clock', committed)
           /\ tx'[s] \in Transaction
           /\ begins' = begins + 1 /\ clock' \in Nat /\ clock <= clock'
<1>1. clock' \in Nat /\ clock <= clock'
  BY DEF Begin, JournalType
<1>t. begins + 1 \in Nat /\ committed \in SUBSET Nat
  BY DEF JournalType
<1>2. NewTx(begins + 1, clock', committed) \in Transaction
  BY <1>1, <1>t, NewTxParts
<1> QED
  BY <1>1, <1>2 DEF Begin, JournalType, OthersStay

\* It has one more event.
LEMMA AppendForm ==
    ASSUME JournalType, NEW s \in Sessions, append(s)
    PROVE  LET e == [id |-> lastEvent + 1, created_at |-> tx[s].now, tx |-> tx[s].n,
                     after |-> tx[s].after]
           IN  /\ OthersStay(s) /\ state'[s] = state[s] /\ SameTransaction(s)
               /\ tx'[s].raised = tx[s].raised
               /\ e \in Event
               /\ tx'[s].events = tx[s].events \cup {e}
               /\ tx'[s].users = tx[s].users /\ tx'[s].calls = tx[s].calls
               /\ tx'[s].deliveries = tx[s].deliveries
               /\ tx'[s] \in Transaction
<1> DEFINE e == [id |-> lastEvent + 1, created_at |-> tx[s].now, tx |-> tx[s].n,
                 after |-> tx[s].after]
<1>1. tx[s] \in Transaction
  BY DEF JournalType
<1>2. e \in Event
  BY <1>1, TxParts DEF JournalType, Event
<1>3. tx' = [tx EXCEPT ![s].events = @ \cup {e}] /\ state' = state
  BY DEF append
<1> HIDE DEF e
<1>4. tx'[s] = [tx[s] EXCEPT !.events = @ \cup {e}]
  BY <1>3 DEF JournalType
<1>5. OthersStay(s) /\ state'[s] = state[s]
  BY <1>3 DEF JournalType, OthersStay
<1>6. /\ tx'[s].n = tx[s].n /\ tx'[s].now = tx[s].now /\ tx'[s].after = tx[s].after
      /\ tx'[s].raised = tx[s].raised /\ tx'[s].users = tx[s].users
      /\ tx'[s].deliveries = tx[s].deliveries /\ tx'[s].events = tx[s].events \cup {e}
      /\ tx'[s].calls = tx[s].calls
      /\ tx'[s] \in Transaction
  BY <1>1, <1>2, <1>4 DEF Transaction
<1> QED
  BY <1>2, <1>5, <1>6 DEF SameTransaction, e
\* It has a pending delivery.
LEMMA RecordForm ==
    ASSUME JournalType, NEW s \in Sessions, record_delivery(s)
    PROVE  LET i == lastDelivery + 1
           IN  /\ OthersStay(s) /\ state'[s] = state[s] /\ SameTransaction(s)
               /\ tx'[s].raised = tx[s].raised
               /\ tx'[s].events = tx[s].events /\ tx'[s].users = tx[s].users
               /\ tx'[s].calls = tx[s].calls
               /\ i \in Deliveries /\ lastDelivery' = i
               /\ tx'[s].deliveries = [tx[s].deliveries EXCEPT ![i] = 0]
               /\ tx'[s] \in Transaction
<1> DEFINE i == lastDelivery + 1
<1>1. tx[s] \in Transaction
  BY DEF JournalType
<1>2. 0 \in Delivery
  BY DEF Delivery
<1>3. tx' = [tx EXCEPT ![s].deliveries[i] = 0] /\ state' = state /\ i \in Deliveries /\ lastDelivery' = i
  BY DEF record_delivery
<1> HIDE DEF i
<1>4. tx'[s] = [tx[s] EXCEPT !.deliveries[i] = 0]
  BY <1>3 DEF JournalType
<1>5. OthersStay(s) /\ state'[s] = state[s]
  BY <1>3 DEF JournalType, OthersStay
<1>6. /\ tx'[s].n = tx[s].n /\ tx'[s].now = tx[s].now /\ tx'[s].after = tx[s].after
      /\ tx'[s].raised = tx[s].raised /\ tx'[s].users = tx[s].users
      /\ tx'[s].calls = tx[s].calls
      /\ tx'[s].deliveries = [tx[s].deliveries EXCEPT ![i] = 0] /\ tx'[s].events = tx[s].events
      /\ tx'[s] \in Transaction
  BY <1>1, <1>2, <1>4 DEF Transaction
<1> QED
  BY <1>3, <1>5, <1>6 DEF SameTransaction, i

\* It has the outcome of a delivery.
LEMMA CompleteForm ==
    ASSUME JournalType, NEW s \in Sessions, NEW i \in Deliveries, complete_delivery(s, i)
    PROVE  LET n == completions + 1
           IN  /\ OthersStay(s) /\ state'[s] = state[s] /\ SameTransaction(s)
               /\ tx'[s].raised = tx[s].raised
               /\ tx'[s].events = tx[s].events /\ tx'[s].users = tx[s].users
               /\ tx'[s].calls = tx[s].calls \cup {<<i, n>>}
               /\ tx'[s].deliveries = [tx[s].deliveries EXCEPT ![i] = n]
               /\ tx'[s] \in Transaction
<1> DEFINE n == completions + 1
           c == <<i, n>>
<1>1. tx[s] \in Transaction
  BY DEF JournalType
<1>2. n \in Delivery /\ c \in Call
  BY DEF Delivery, Call, JournalType
<1>3. tx' = [tx EXCEPT ![s].deliveries[i] = n, ![s].calls = @ \cup {c}] /\ state' = state
  BY DEF complete_delivery
<1> HIDE DEF n, c
<1>4. tx'[s] = [tx[s] EXCEPT !.deliveries[i] = n, !.calls = @ \cup {c}]
  BY <1>3 DEF JournalType
<1>a. tx[s].calls \in SUBSET Call /\ tx[s].deliveries \in [Deliveries -> Delivery]
  BY <1>1, TxParts
<1>b. /\ tx[s].calls \cup {c} \in SUBSET Call
      /\ [tx[s].deliveries EXCEPT ![i] = n] \in [Deliveries -> Delivery]
  BY <1>2, <1>a
<1>c. tx'[s] = [tx[s] EXCEPT !.deliveries = [tx[s].deliveries EXCEPT ![i] = n],
                             !.calls = tx[s].calls \cup {c}]
  BY <1>1, <1>4 DEF Transaction
<1>5. OthersStay(s) /\ state'[s] = state[s]
  BY <1>3 DEF JournalType, OthersStay
<1>6. /\ tx'[s].n = tx[s].n /\ tx'[s].now = tx[s].now /\ tx'[s].after = tx[s].after
      /\ tx'[s].raised = tx[s].raised /\ tx'[s].users = tx[s].users
      /\ tx'[s].calls = tx[s].calls \cup {c}
      /\ tx'[s].deliveries = [tx[s].deliveries EXCEPT ![i] = n] /\ tx'[s].events = tx[s].events
      /\ tx'[s] \in Transaction
  BY <1>1, <1>b, <1>c DEF Transaction
<1> QED
  BY <1>3, <1>5, <1>6 DEF SameTransaction, n, c

\* It has a user, or has failed.
LEMMA CreateForm ==
    ASSUME JournalType, NEW s \in Sessions, NEW email \in Spellings, create_user(s, email)
    PROVE  /\ OthersStay(s) /\ SameTransaction(s)
           /\ tx'[s].events = tx[s].events /\ tx'[s].deliveries = tx[s].deliveries
           /\ tx'[s].calls = tx[s].calls
           /\ tx'[s] \in Transaction
           /\ \/ /\ state'[s] = "failed" /\ tx'[s].raised /\ tx'[s].users = tx[s].users
              \/ /\ state'[s] = state[s] /\ tx'[s].raised = tx[s].raised
                 /\ ~ Taken(users \cup tx[s].users, email)
                 /\ tx'[s].users = tx[s].users \cup {[email |-> email, tx |-> tx[s].n]}
<1>1. tx[s] \in Transaction
  BY DEF JournalType
<1>2. CASE Taken(users \cup tx[s].users, email)
  <2>1. state' = [state EXCEPT ![s] = "failed"] /\ tx' = [tx EXCEPT ![s].raised = TRUE]
    BY <1>2 DEF create_user, fail_session
  <2>2. tx'[s] = [tx[s] EXCEPT !.raised = TRUE] /\ state'[s] = "failed"
    BY <2>1 DEF JournalType
  <2>3. OthersStay(s)
    BY <2>1 DEF JournalType, OthersStay
  <2>4. /\ tx'[s].n = tx[s].n /\ tx'[s].now = tx[s].now /\ tx'[s].after = tx[s].after
        /\ tx'[s].raised = TRUE /\ tx'[s].users = tx[s].users
        /\ tx'[s].deliveries = tx[s].deliveries /\ tx'[s].events = tx[s].events
        /\ tx'[s].calls = tx[s].calls
        /\ tx'[s] \in Transaction
    BY <1>1, <2>2 DEF Transaction
  <2> QED
    BY <2>2, <2>3, <2>4 DEF SameTransaction
<1>3. CASE ~ Taken(users \cup tx[s].users, email)
  <2> DEFINE u == [email |-> email, tx |-> tx[s].n]
  <2>0. u \in User
    BY <1>1, TxParts DEF User
  <2>1. state' = state /\ tx' = [tx EXCEPT ![s].users = @ \cup {u}]
    BY <1>3 DEF create_user
  <2> HIDE DEF u
  <2>2. tx'[s] = [tx[s] EXCEPT !.users = @ \cup {u}] /\ state'[s] = state[s]
    BY <2>1 DEF JournalType
  <2>3. OthersStay(s)
    BY <2>1 DEF JournalType, OthersStay
  <2>4. /\ tx'[s].n = tx[s].n /\ tx'[s].now = tx[s].now /\ tx'[s].after = tx[s].after
        /\ tx'[s].raised = tx[s].raised /\ tx'[s].users = tx[s].users \cup {u}
        /\ tx'[s].deliveries = tx[s].deliveries /\ tx'[s].events = tx[s].events
        /\ tx'[s].calls = tx[s].calls
        /\ tx'[s] \in Transaction
    BY <1>1, <2>0, <2>2 DEF Transaction
  <2> QED
    BY <1>3, <2>2, <2>3, <2>4 DEF SameTransaction, u
<1> QED
  BY <1>2, <1>3

\* It is over.
LEMMA EndForm ==
    ASSUME JournalType, NEW s \in Sessions, Ended(s)
    PROVE  /\ OthersStay(s) /\ state'[s] = "idle"
           /\ tx'[s] = NewTx(0, 0, {}) /\ tx'[s] \in Transaction
<1>1. NewTx(0, 0, {}) \in Transaction
  BY NewTxParts
<1> QED
  BY <1>1 DEF Ended, JournalType, OthersStay

\* A session sees a row.
LEMMA SeenType ==
    ASSUME JournalType, NEW s \in Sessions, NEW i \in Deliveries
    PROVE  Seen(s, i) \in Delivery
<1>1. tx[s].deliveries \in [Deliveries -> Delivery] /\ deliveries \in [Deliveries -> Delivery]
  BY TxParts DEF JournalType
<1> QED
  BY <1>1 DEF Seen
\* A step of one session keeps the types of all transactions.
LEMMA TxType ==
    ASSUME JournalType, NEW s \in Sessions, OthersStay(s), tx'[s] \in Transaction,
           state'[s] \in {"idle", "open", "failed"}
    PROVE  /\ state' \in [Sessions -> {"idle", "open", "failed"}]
           /\ tx' \in [Sessions -> Transaction]
BY DEF JournalType, OthersStay
\* Each step keeps the types.
LEMMA NextType == JournalType /\ [JournalNext]_journalVars => JournalType'
<1> SUFFICES ASSUME JournalType, [JournalNext]_journalVars PROVE JournalType'
  OBVIOUS
<1>0. CASE UNCHANGED journalVars
  BY <1>0 DEF JournalType, journalVars
<1>1. ASSUME NEW s \in Sessions, Begin(s) PROVE JournalType'
  <2>1. /\ OthersStay(s) /\ state'[s] = "open" /\ tx'[s] \in Transaction
        /\ begins' = begins + 1 /\ clock' \in Nat
    BY <1>1, BeginForm
  <2>2. /\ state' \in [Sessions -> {"idle", "open", "failed"}]
        /\ tx' \in [Sessions -> Transaction]
    BY <2>1, TxType
  <2> QED
    BY <1>1, <2>1, <2>2 DEF Begin, JournalType
<1>2. ASSUME NEW s \in Sessions, append(s) PROVE JournalType'
  <2>1. OthersStay(s) /\ state'[s] = state[s] /\ tx'[s] \in Transaction
    BY <1>2, AppendForm
  <2>2. state[s] \in {"idle", "open", "failed"}
    BY DEF JournalType
  <2>3. /\ state' \in [Sessions -> {"idle", "open", "failed"}]
        /\ tx' \in [Sessions -> Transaction]
    BY <2>1, <2>2, TxType
  <2> QED
    BY <1>2, <2>3 DEF append, JournalType
<1>3. ASSUME NEW s \in Sessions, record_delivery(s) PROVE JournalType'
  <2>1. OthersStay(s) /\ state'[s] = state[s] /\ tx'[s] \in Transaction
    BY <1>3, RecordForm
  <2>2. state[s] \in {"idle", "open", "failed"}
    BY DEF JournalType
  <2>3. /\ state' \in [Sessions -> {"idle", "open", "failed"}]
        /\ tx' \in [Sessions -> Transaction]
    BY <2>1, <2>2, TxType
  <2> QED
    BY <1>3, <2>3 DEF record_delivery, JournalType
<1>4. ASSUME NEW s \in Sessions, NEW i \in Deliveries, complete_delivery(s, i)
      PROVE  JournalType'
  <2>1. OthersStay(s) /\ state'[s] = state[s] /\ tx'[s] \in Transaction
    BY <1>4, CompleteForm
  <2>2. state[s] \in {"idle", "open", "failed"}
    BY DEF JournalType
  <2>3. /\ state' \in [Sessions -> {"idle", "open", "failed"}]
        /\ tx' \in [Sessions -> Transaction]
    BY <2>1, <2>2, TxType
  <2> QED
    BY <1>4, <2>3 DEF complete_delivery, JournalType
<1>5. ASSUME NEW s \in Sessions, NEW email \in Spellings, create_user(s, email) PROVE JournalType'
  <2>1. OthersStay(s) /\ state'[s] \in {state[s], "failed"} /\ tx'[s] \in Transaction
    BY <1>5, CreateForm
  <2>2. state[s] \in {"idle", "open", "failed"}
    BY DEF JournalType
  <2>3. /\ state' \in [Sessions -> {"idle", "open", "failed"}]
        /\ tx' \in [Sessions -> Transaction]
    BY <2>1, <2>2, TxType
  <2> QED
    BY <1>5, <2>3 DEF create_user, JournalType
<1>6. ASSUME NEW s \in Sessions, CommitSession(s) PROVE JournalType'
  <2>1. OthersStay(s) /\ state'[s] = "idle" /\ tx'[s] \in Transaction
    BY <1>6, EndForm DEF CommitSession
  <2>2. /\ state' \in [Sessions -> {"idle", "open", "failed"}]
        /\ tx' \in [Sessions -> Transaction]
    BY <2>1, TxType
  <2>3. tx[s].n \in Nat /\ tx[s].events \in SUBSET Event /\ tx[s].users \in SUBSET User
        /\ tx[s].calls \in SUBSET Call
    BY TxParts DEF JournalType
  <2>4. deliveries' \in [Deliveries -> Delivery]
    BY <1>6, SeenType DEF CommitSession
  <2> QED
    BY <1>6, <2>2, <2>3, <2>4 DEF CommitSession, JournalType
<1>7. ASSUME NEW s \in Sessions, RollbackSession(s) PROVE JournalType'
  <2>1. OthersStay(s) /\ state'[s] = "idle" /\ tx'[s] \in Transaction
    BY <1>7, EndForm DEF RollbackSession
  <2>2. /\ state' \in [Sessions -> {"idle", "open", "failed"}]
        /\ tx' \in [Sessions -> Transaction]
    BY <2>1, TxType
  <2> QED
    BY <1>7, <2>2 DEF RollbackSession, JournalType
<1> QED
  BY <1>0, <1>1, <1>2, <1>3, <1>4, <1>5, <1>6, <1>7 DEF JournalNext

----------------------------------------------------------------------------
(* webhook_deliveries *)

\* A row that is there has the outcome of the last of some calls.
IsLast(i, n, calls) ==
    n # NoRow => /\ n = 0 \/ <<i, n>> \in calls
                 /\ \A c \in calls : c[1] = i => c[2] <= n

\* Numbers and rows that have been given.
Given ==
    /\ \A c \in reported : c[1] <= lastDelivery /\ c[2] <= completions
    /\ \A s \in Sessions : \A c \in tx[s].calls : c[1] <= lastDelivery /\ c[2] <= completions
    /\ \A i \in Deliveries : deliveries[i] # NoRow => i <= lastDelivery
    /\ \A s \in Sessions, i \in Deliveries : tx[s].deliveries[i] # NoRow => i <= lastDelivery

\* A session holds the rows it has called for; no two hold the same.
Held ==
    /\ \A s \in Sessions : \A c \in tx[s].calls : tx[s].deliveries[c[1]] # NoRow
    /\ \A s, t \in Sessions, i \in Deliveries :
          tx[s].deliveries[i] # NoRow /\ tx[t].deliveries[i] # NoRow => s = t

\* Committed or not, a row is that of the last call its reader knows of.
OutcomesInv ==
    /\ JournalType /\ Given /\ Held
    /\ OutcomeIsLast
    /\ \A s \in Sessions, i \in Deliveries :
          IsLast(i, tx[s].deliveries[i], reported \cup tx[s].calls)

\* There are no outcomes at first.
LEMMA InitOutcomes == JournalInit => OutcomesInv
<1> SUFFICES ASSUME JournalInit PROVE OutcomesInv
  OBVIOUS
<1>1. /\ \A i \in Deliveries : NewTx(0, 0, {}).deliveries[i] = NoRow
      /\ NewTx(0, 0, {}).calls = {}
  BY NewTxRows, NewTxCalls
<1> QED
  BY <1>1, InitType DEF JournalInit, OutcomesInv, Given, Held, IsLast, OutcomeIsLast

\* A step that writes no row.
LEMMA SameOutcomes ==
    ASSUME OutcomesInv, JournalType', NEW s \in Sessions, OthersStay(s),
           UNCHANGED <<deliveries, reported, lastDelivery, completions>>,
           \/ tx'[s].deliveries = tx[s].deliveries /\ tx'[s].calls = tx[s].calls
           \/ /\ \A i \in Deliveries : tx'[s].deliveries[i] = NoRow
              /\ tx'[s].calls = {}
    PROVE  OutcomesInv'
<1>1. Given'
  BY DEF OutcomesInv, Given, OthersStay
<1>2. Held'
  BY DEF OutcomesInv, Held, OthersStay
<1>3. OutcomeIsLast'
  BY DEF OutcomesInv, OutcomeIsLast
<1>4. \A t \in Sessions, i \in Deliveries :
         IsLast(i, tx'[t].deliveries[i], reported' \cup tx'[t].calls)
  BY DEF OutcomesInv, IsLast, OthersStay
<1> QED
  BY <1>1, <1>2, <1>3, <1>4 DEF OutcomesInv

\* Every step keeps each row the outcome of the last call.
LEMMA NextOutcomes == OutcomesInv /\ [JournalNext]_journalVars => OutcomesInv'
<1> SUFFICES ASSUME OutcomesInv, [JournalNext]_journalVars PROVE OutcomesInv'
  OBVIOUS
<1>t. JournalType /\ JournalType'
  BY NextType DEF OutcomesInv
<1>0. CASE UNCHANGED journalVars
  BY <1>0, <1>t DEF OutcomesInv, journalVars, Given, Held, IsLast, OutcomeIsLast
<1>1. ASSUME NEW s \in Sessions, Begin(s) PROVE OutcomesInv'
  <2>1. OthersStay(s) /\ tx'[s] = NewTx(begins + 1, clock', committed)
        /\ begins + 1 \in Nat /\ clock' \in Nat /\ committed \in SUBSET Nat
    BY <1>1, <1>t, BeginForm DEF JournalType
  <2>2. (\A i \in Deliveries : tx'[s].deliveries[i] = NoRow) /\ tx'[s].calls = {}
    BY <2>1, NewTxRows, NewTxCalls
  <2> QED
    BY <1>1, <1>t, <2>1, <2>2, SameOutcomes DEF Begin
<1>2. ASSUME NEW s \in Sessions, append(s) PROVE OutcomesInv'
  <2>1. OthersStay(s) /\ tx'[s].deliveries = tx[s].deliveries /\ tx'[s].calls = tx[s].calls
    BY <1>2, <1>t, AppendForm
  <2> QED
    BY <1>2, <1>t, <2>1, SameOutcomes DEF append
<1>3. ASSUME NEW s \in Sessions, record_delivery(s) PROVE OutcomesInv'
  <2> DEFINE i == lastDelivery + 1
  <2>1. /\ OthersStay(s) /\ tx'[s].calls = tx[s].calls
        /\ i \in Deliveries /\ lastDelivery' = i
        /\ tx'[s].deliveries = [tx[s].deliveries EXCEPT ![i] = 0]
        /\ UNCHANGED <<deliveries, reported, completions>>
    BY <1>3, <1>t, RecordForm DEF record_delivery
  <2>2. /\ deliveries[i] = NoRow
        /\ \A t \in Sessions : tx[t].deliveries[i] = NoRow
        /\ \A c \in reported : c[1] # i
        /\ \A t \in Sessions : \A c \in tx[t].calls : c[1] # i
        /\ lastDelivery \in Nat /\ i \in Nat /\ lastDelivery < i
        /\ tx[s].deliveries \in [Deliveries -> Delivery]
        /\ reported \subseteq Call /\ \A t \in Sessions : tx[t].calls \subseteq Call
    BY <1>t, <2>1, TxParts DEF OutcomesInv, Given, JournalType, Call, Deliveries
  <2> HIDE DEF i
  <2>3. Given'
    <3>1. \A j \in Deliveries : j <= lastDelivery => j <= i
      BY <2>2 DEF Deliveries
    <3>2. \A c \in Call : c[1] \in Deliveries
      BY DEF Call
    <3>3. \A c \in reported : c[1] <= lastDelivery' /\ c[2] <= completions'
      BY <2>1, <2>2, <3>1, <3>2 DEF OutcomesInv, Given
    <3>4. ASSUME NEW t \in Sessions
          PROVE  \A c \in tx'[t].calls : c[1] <= lastDelivery' /\ c[2] <= completions'
      <4>1. tx'[t].calls = tx[t].calls
        BY <2>1 DEF OthersStay
      <4> QED
        BY <2>1, <2>2, <3>1, <3>2, <4>1 DEF OutcomesInv, Given
    <3>5. ASSUME NEW t \in Sessions, NEW j \in Deliveries, tx'[t].deliveries[j] # NoRow
          PROVE  j <= lastDelivery'
      <4>1. j = i \/ tx[t].deliveries[j] # NoRow
        BY <2>1, <2>2, <3>5 DEF OthersStay
      <4> QED
        BY <2>1, <2>2, <3>1, <4>1 DEF OutcomesInv, Given
    <3>6. \A j \in Deliveries : deliveries[j] # NoRow => j <= lastDelivery'
      BY <2>1, <3>1 DEF OutcomesInv, Given
    <3> QED
      BY <2>1, <3>3, <3>4, <3>5, <3>6 DEF Given
  <2>4. Held'
    BY <2>1, <2>2 DEF OutcomesInv, Held, OthersStay, Call
  <2>5. OutcomeIsLast'
    BY <2>1 DEF OutcomesInv, OutcomeIsLast
  <2>6. \A t \in Sessions, j \in Deliveries :
           IsLast(j, tx'[t].deliveries[j], reported' \cup tx'[t].calls)
    BY <2>1, <2>2 DEF OutcomesInv, IsLast, OthersStay
  <2> QED
    BY <1>t, <2>3, <2>4, <2>5, <2>6 DEF OutcomesInv
<1>4. ASSUME NEW s \in Sessions, NEW i \in Deliveries, complete_delivery(s, i)
      PROVE  OutcomesInv'
  <2> DEFINE n == completions + 1
             call == <<i, n>>
  <2>1. /\ OthersStay(s) /\ tx'[s].calls = tx[s].calls \cup {call}
        /\ tx'[s].deliveries = [tx[s].deliveries EXCEPT ![i] = n]
        /\ completions' = n
        /\ UNCHANGED <<deliveries, reported, lastDelivery>>
    BY <1>4, <1>t, CompleteForm DEF complete_delivery
  <2>2. /\ \A t \in Sessions : t # s => tx[t].deliveries[i] = NoRow
        /\ Seen(s, i) # NoRow
    BY <1>4 DEF complete_delivery, may_update, Holders
  <2>3. /\ completions \in Nat /\ n \in Nat /\ completions < n /\ n # NoRow
        /\ tx[s].deliveries \in [Deliveries -> Delivery]
        /\ reported \subseteq Call /\ \A t \in Sessions : tx[t].calls \subseteq Call
        /\ i <= lastDelivery
    BY <1>t, <2>2, TxParts DEF OutcomesInv, Given, JournalType, NoRow, Seen
  <2>4. call[1] = i /\ call[2] = n
    OBVIOUS
  <2> HIDE DEF n
  <2>5. Given'
    BY <2>1, <2>2, <2>3, <2>4 DEF OutcomesInv, Given, OthersStay, Call
  <2>6. Held'
    BY <2>1, <2>2, <2>3, <2>4 DEF OutcomesInv, Held, OthersStay, Call
  <2>7. OutcomeIsLast'
    BY <2>1 DEF OutcomesInv, OutcomeIsLast
  <2>8. ASSUME NEW t \in Sessions, NEW j \in Deliveries
        PROVE  IsLast(j, tx'[t].deliveries[j], reported' \cup tx'[t].calls)
    <3>1. CASE t # s
      BY <2>1, <3>1 DEF OutcomesInv, IsLast, OthersStay
    <3>2. CASE t = s /\ j # i
      BY <2>1, <2>3, <2>4, <3>2 DEF OutcomesInv, IsLast
    <3>3. CASE t = s /\ j = i
      <4>1. \A c \in reported \cup tx[s].calls : c[2] <= completions /\ c[2] \in Nat
        BY <2>3 DEF OutcomesInv, Given, Call
      <4> QED
        BY <2>1, <2>3, <2>4, <3>3, <4>1 DEF IsLast
    <3> QED
      BY <3>1, <3>2, <3>3
  <2> QED
    BY <1>t, <2>5, <2>6, <2>7, <2>8 DEF OutcomesInv
<1>5. ASSUME NEW s \in Sessions, NEW email \in Spellings, create_user(s, email) PROVE OutcomesInv'
  <2>1. OthersStay(s) /\ tx'[s].deliveries = tx[s].deliveries /\ tx'[s].calls = tx[s].calls
    BY <1>5, <1>t, CreateForm
  <2> QED
    BY <1>5, <1>t, <2>1, SameOutcomes DEF create_user
<1>6. ASSUME NEW s \in Sessions, CommitSession(s) PROVE OutcomesInv'
  <2>1. /\ OthersStay(s) /\ tx'[s] = NewTx(0, 0, {})
        /\ UNCHANGED <<lastDelivery, completions>>
        /\ reported' = reported \cup tx[s].calls
        /\ deliveries' = [i \in Deliveries |-> Seen(s, i)]
    BY <1>6, <1>t, EndForm DEF CommitSession
  <2>2. (\A i \in Deliveries : tx'[s].deliveries[i] = NoRow) /\ tx'[s].calls = {}
    BY <2>1, NewTxRows, NewTxCalls
  <2>3. reported \subseteq Call /\ \A t \in Sessions : tx[t].calls \subseteq Call
    BY <1>t, TxParts DEF JournalType
  <2>4. Given'
    BY <2>1, <2>2, <2>3 DEF OutcomesInv, Given, OthersStay, Seen
  <2>5. Held'
    BY <2>1, <2>2 DEF OutcomesInv, Held, OthersStay
  <2>6. ASSUME NEW i \in Deliveries
        PROVE  IsLast(i, Seen(s, i), reported')
    <3>1. CASE tx[s].deliveries[i] # NoRow
      BY <2>1, <3>1 DEF OutcomesInv, Seen
    <3>2. CASE tx[s].deliveries[i] = NoRow
      <4>1. \A c \in tx[s].calls : c[1] # i
        BY <3>2 DEF OutcomesInv, Held
      <4> QED
        BY <2>1, <3>2, <4>1 DEF OutcomesInv, OutcomeIsLast, Seen, IsLast
    <3> QED
      BY <3>1, <3>2
  <2>7. OutcomeIsLast'
    BY <2>1, <2>6 DEF OutcomeIsLast, IsLast
  <2>8. ASSUME NEW t \in Sessions, NEW j \in Deliveries
        PROVE  IsLast(j, tx'[t].deliveries[j], reported' \cup tx'[t].calls)
    <3>1. CASE t = s
      BY <2>2, <3>1 DEF IsLast
    <3>2. CASE t # s /\ tx[t].deliveries[j] = NoRow
      BY <2>1, <3>2 DEF IsLast, OthersStay
    <3>3. CASE t # s /\ tx[t].deliveries[j] # NoRow
      <4>1. \A c \in tx[s].calls : c[1] # j
        BY <3>3 DEF OutcomesInv, Held
      <4> QED
        BY <2>1, <3>3, <4>1 DEF OutcomesInv, OthersStay, IsLast
    <3> QED
      BY <3>1, <3>2, <3>3
  <2> QED
    BY <1>t, <2>4, <2>5, <2>7, <2>8 DEF OutcomesInv
<1>7. ASSUME NEW s \in Sessions, RollbackSession(s) PROVE OutcomesInv'
  <2>1. OthersStay(s) /\ tx'[s] = NewTx(0, 0, {})
    BY <1>7, <1>t, EndForm DEF RollbackSession
  <2>2. (\A i \in Deliveries : tx'[s].deliveries[i] = NoRow) /\ tx'[s].calls = {}
    BY <2>1, NewTxRows, NewTxCalls
  <2> QED
    BY <1>7, <1>t, <2>1, <2>2, SameOutcomes DEF RollbackSession
<1> QED
  BY <1>0, <1>1, <1>2, <1>3, <1>4, <1>5, <1>6, <1>7 DEF JournalNext

\* The last committed report of a delivery is the one that is stored, for any
\* number of deliveries, sessions and reports.
THEOREM LastOutcomeStays == JournalSpec => []OutcomeIsLast
<1>1. OutcomesInv => OutcomeIsLast
  BY DEF OutcomesInv
<1> QED
  BY <1>1, InitOutcomes, NextOutcomes, PTL DEF JournalSpec

----------------------------------------------------------------------------
(* Transactions *)

\* An open transaction has a number of its own, larger than those committed
\* before it began; only a failed session has raised.
NumbersInv ==
    /\ JournalType
    /\ \A n \in committed : n <= begins
    /\ \A s \in Sessions :
          /\ state[s] = "idle" => tx[s] = NewTx(0, 0, {})
          /\ state[s] # "idle" => tx[s].n \in 1 .. begins /\ tx[s].n \notin committed
          /\ tx[s].after \subseteq committed
          /\ \A m \in tx[s].after : m < tx[s].n
          /\ tx[s].raised => state[s] = "failed"
    /\ \A s, t \in Sessions :
          s # t /\ state[s] # "idle" /\ state[t] # "idle" => tx[s].n # tx[t].n

\* No transaction has begun.
LEMMA InitNumbers == JournalInit => NumbersInv
<1> SUFFICES ASSUME JournalInit PROVE NumbersInv
  OBVIOUS
<1>1. NewTx(0, 0, {}).after = {} /\ ~ NewTx(0, 0, {}).raised
  BY DEF NewTx
<1> QED
  BY <1>1, InitType DEF JournalInit, NumbersInv

\* A statement of a transaction.
LEMMA WritesNumbers ==
    ASSUME NumbersInv, JournalType', NEW s \in Sessions, OthersStay(s), SameTransaction(s),
           UNCHANGED <<begins, committed>>, state[s] = "open", state'[s] # "idle",
           tx'[s].raised => state'[s] = "failed"
    PROVE  NumbersInv'
BY DEF NumbersInv, OthersStay, SameTransaction

\* The end of a transaction.
LEMMA EndNumbers ==
    ASSUME NumbersInv, JournalType', NEW s \in Sessions, Ended(s), UNCHANGED begins,
           committed' \in {committed, committed \cup {tx[s].n}}, state[s] # "idle"
    PROVE  NumbersInv'
<1>t. JournalType
  BY DEF NumbersInv
<1>1. OthersStay(s) /\ state'[s] = "idle" /\ tx'[s] = NewTx(0, 0, {})
  BY <1>t, EndForm
<1>2. tx'[s].after = {} /\ ~ tx'[s].raised
  BY <1>1 DEF NewTx
<1>3. \A n \in committed' : n <= begins'
  BY DEF NumbersInv, JournalType
<1>4. ASSUME NEW t \in Sessions
      PROVE  /\ state'[t] = "idle" => tx'[t] = NewTx(0, 0, {})
             /\ state'[t] # "idle" => tx'[t].n \in 1 .. begins' /\ tx'[t].n \notin committed'
             /\ tx'[t].after \subseteq committed'
             /\ \A m \in tx'[t].after : m < tx'[t].n
             /\ tx'[t].raised => state'[t] = "failed"
  <2>1. CASE t = s
    BY <1>1, <1>2, <2>1
  <2>2. CASE t # s
    BY <1>1, <2>2 DEF NumbersInv, OthersStay
  <2> QED
    BY <2>1, <2>2
<1>5. \A t, u \in Sessions :
         t # u /\ state'[t] # "idle" /\ state'[u] # "idle" => tx'[t].n # tx'[u].n
  BY <1>1 DEF NumbersInv, OthersStay
<1> QED
  BY <1>3, <1>4, <1>5 DEF NumbersInv

\* A transaction begins with the next number.
LEMMA BeginNumbers ==
    ASSUME NumbersInv, JournalType', NEW s \in Sessions, Begin(s)
    PROVE  NumbersInv'
<1>t. JournalType
  BY DEF NumbersInv
<1>1. /\ OthersStay(s) /\ state'[s] = "open"
      /\ tx'[s] = NewTx(begins + 1, clock', committed) /\ begins' = begins + 1
      /\ begins \in Nat
  BY <1>t, BeginForm DEF JournalType
<1>2. tx'[s].n = begins + 1 /\ tx'[s].after = committed /\ ~ tx'[s].raised
  BY <1>1 DEF NewTx
<1>3. UNCHANGED committed
  BY DEF Begin
<1>4. \A n \in committed : n \in Nat /\ n <= begins
  BY <1>t DEF JournalType, NumbersInv
<1>5. ASSUME NEW t \in Sessions
      PROVE  /\ state'[t] = "idle" => tx'[t] = NewTx(0, 0, {})
             /\ state'[t] # "idle" => tx'[t].n \in 1 .. begins' /\ tx'[t].n \notin committed'
             /\ tx'[t].after \subseteq committed'
             /\ \A m \in tx'[t].after : m < tx'[t].n
             /\ tx'[t].raised => state'[t] = "failed"
  <2>1. CASE t = s
    BY <1>1, <1>2, <1>3, <1>4, <2>1
  <2>2. CASE t # s
    BY <1>1, <1>3, <2>2 DEF NumbersInv, OthersStay
  <2> QED
    BY <2>1, <2>2
<1>6. ASSUME NEW t \in Sessions, NEW u \in Sessions,
             t # u, state'[t] # "idle", state'[u] # "idle"
      PROVE  tx'[t].n # tx'[u].n
  BY <1>1, <1>2, <1>6 DEF NumbersInv, OthersStay
<1> QED
  BY <1>1, <1>3, <1>4, <1>5, <1>6 DEF NumbersInv

\* Every step keeps the numbers.
LEMMA NextNumbers == NumbersInv /\ [JournalNext]_journalVars => NumbersInv'
<1> SUFFICES ASSUME NumbersInv, [JournalNext]_journalVars PROVE NumbersInv'
  OBVIOUS
<1>t. JournalType /\ JournalType'
  BY NextType DEF NumbersInv
<1>0. CASE UNCHANGED journalVars
  BY <1>0, <1>t DEF NumbersInv, journalVars
<1>1. ASSUME NEW s \in Sessions, Begin(s) PROVE NumbersInv'
  BY <1>1, <1>t, BeginNumbers
<1>r. ASSUME NEW s \in Sessions, state[s] = "open" PROVE ~ tx[s].raised
  BY <1>r DEF NumbersInv
<1>2. ASSUME NEW s \in Sessions, append(s) PROVE NumbersInv'
  <2>1. OthersStay(s) /\ SameTransaction(s) /\ state'[s] = state[s] /\ tx'[s].raised = tx[s].raised
    BY <1>2, <1>t, AppendForm
  <2>2. state[s] = "open" /\ UNCHANGED <<begins, committed>>
    BY <1>2 DEF append
  <2> QED
    BY <1>r, <1>t, <2>1, <2>2, WritesNumbers
<1>3. ASSUME NEW s \in Sessions, record_delivery(s) PROVE NumbersInv'
  <2>1. OthersStay(s) /\ SameTransaction(s) /\ state'[s] = state[s] /\ tx'[s].raised = tx[s].raised
    BY <1>3, <1>t, RecordForm
  <2>2. state[s] = "open" /\ UNCHANGED <<begins, committed>>
    BY <1>3 DEF record_delivery
  <2> QED
    BY <1>r, <1>t, <2>1, <2>2, WritesNumbers
<1>4. ASSUME NEW s \in Sessions, NEW i \in Deliveries, complete_delivery(s, i)
      PROVE  NumbersInv'
  <2>1. OthersStay(s) /\ SameTransaction(s) /\ state'[s] = state[s] /\ tx'[s].raised = tx[s].raised
    BY <1>4, <1>t, CompleteForm
  <2>2. state[s] = "open" /\ UNCHANGED <<begins, committed>>
    BY <1>4 DEF complete_delivery
  <2> QED
    BY <1>r, <1>t, <2>1, <2>2, WritesNumbers
<1>5. ASSUME NEW s \in Sessions, NEW email \in Spellings, create_user(s, email) PROVE NumbersInv'
  <2>1. /\ OthersStay(s) /\ SameTransaction(s)
        /\ \/ state'[s] = "failed"
           \/ state'[s] = state[s] /\ tx'[s].raised = tx[s].raised
    BY <1>5, <1>t, CreateForm
  <2>2. state[s] = "open" /\ UNCHANGED <<begins, committed>>
    BY <1>5 DEF create_user
  <2> QED
    BY <1>r, <1>t, <2>1, <2>2, WritesNumbers
<1>6. ASSUME NEW s \in Sessions, CommitSession(s) PROVE NumbersInv'
  BY <1>6, <1>t, EndNumbers DEF CommitSession
<1>7. ASSUME NEW s \in Sessions, RollbackSession(s) PROVE NumbersInv'
  BY <1>7, <1>t, EndNumbers DEF RollbackSession
<1> QED
  BY <1>0, <1>1, <1>2, <1>3, <1>4, <1>5, <1>6, <1>7 DEF JournalNext

----------------------------------------------------------------------------
(* users *)

\* There is one row of the address, committed or not.
UsersInv ==
    /\ NumbersInv
    /\ \A u, v \in users : u = v
    /\ \A s \in Sessions :
          /\ \A u, v \in tx[s].users : u = v
          /\ tx[s].users # {} => users = {}
    /\ \A s, t \in Sessions : s # t => tx[s].users = {} \/ tx[t].users = {}

\* All spellings are the address.
LEMMA AnySpelling ==
    ASSUME NEW rows \in SUBSET User, NEW email \in Spellings
    PROVE  Taken(rows, email) <=> rows # {}
BY DEF Taken, citext_equal, User

\* There is no user.
LEMMA InitUsers == JournalInit => UsersInv
<1> SUFFICES ASSUME JournalInit PROVE UsersInv
  OBVIOUS
<1>1. NewTx(0, 0, {}).users = {}
  BY DEF NewTx
<1> QED
  BY <1>1, InitNumbers DEF JournalInit, UsersInv

\* A step that creates no user.
LEMMA SameUsers ==
    ASSUME UsersInv, NumbersInv', NEW s \in Sessions, OthersStay(s), UNCHANGED users,
           tx'[s].users \in {{}, tx[s].users}
    PROVE  UsersInv'
BY DEF UsersInv, OthersStay

\* Every step keeps the address unique: create waits for the uncommitted row
\* of another session, and then looks at the committed ones.
LEMMA NextUsers == UsersInv /\ [JournalNext]_journalVars => UsersInv'
<1> SUFFICES ASSUME UsersInv, [JournalNext]_journalVars PROVE UsersInv'
  OBVIOUS
<1>t. NumbersInv /\ NumbersInv' /\ JournalType
  BY NextNumbers DEF UsersInv, NumbersInv
<1>n. \A n, now, after : NewTx(n, now, after).users = {}
  BY DEF NewTx
<1>0. CASE UNCHANGED journalVars
  BY <1>0, <1>t DEF UsersInv, journalVars
<1>1. ASSUME NEW s \in Sessions, Begin(s) PROVE UsersInv'
  <2>1. OthersStay(s) /\ tx'[s].users = {}
    BY <1>1, <1>n, <1>t, BeginForm
  <2> QED
    BY <1>1, <1>t, <2>1, SameUsers DEF Begin
<1>2. ASSUME NEW s \in Sessions, append(s) PROVE UsersInv'
  <2>1. OthersStay(s) /\ tx'[s].users = tx[s].users
    BY <1>2, <1>t, AppendForm
  <2> QED
    BY <1>2, <1>t, <2>1, SameUsers DEF append
<1>3. ASSUME NEW s \in Sessions, record_delivery(s) PROVE UsersInv'
  <2>1. OthersStay(s) /\ tx'[s].users = tx[s].users
    BY <1>3, <1>t, RecordForm
  <2> QED
    BY <1>3, <1>t, <2>1, SameUsers DEF record_delivery
<1>4. ASSUME NEW s \in Sessions, NEW i \in Deliveries, complete_delivery(s, i)
      PROVE  UsersInv'
  <2>1. OthersStay(s) /\ tx'[s].users = tx[s].users
    BY <1>4, <1>t, CompleteForm
  <2> QED
    BY <1>4, <1>t, <2>1, SameUsers DEF complete_delivery
<1>5. ASSUME NEW s \in Sessions, NEW email \in Spellings, create_user(s, email) PROVE UsersInv'
  <2> DEFINE u == [email |-> email, tx |-> tx[s].n]
  <2>0. OthersStay(s) /\ UNCHANGED users
    BY <1>5, <1>t, CreateForm DEF create_user
  <2>1. CASE tx'[s].users = tx[s].users
    BY <1>t, <2>0, <2>1, SameUsers
  <2>2. CASE /\ ~ Taken(users \cup tx[s].users, email)
             /\ tx'[s].users = tx[s].users \cup {u}
    <3>1. \A t \in Sessions : tx[t].users \in SUBSET User /\ users \in SUBSET User
      BY <1>t, TxParts DEF JournalType
    <3>2. users = {} /\ tx[s].users = {}
      BY <2>2, <3>1, AnySpelling
    <3>3. \A t \in Sessions : t # s => tx[t].users = {}
      BY <1>5, <3>1, AnySpelling DEF create_user
    <3>4. tx'[s].users = {u}
      BY <2>2, <3>2
    <3> HIDE DEF u
    <3> QED
      BY <1>t, <2>0, <3>2, <3>3, <3>4 DEF UsersInv, OthersStay
  <2> QED
    BY <1>5, <1>t, <2>1, <2>2, CreateForm
<1>6. ASSUME NEW s \in Sessions, CommitSession(s) PROVE UsersInv'
  <2>1. OthersStay(s) /\ tx'[s].users = {}
    BY <1>6, <1>n, <1>t, EndForm DEF CommitSession
  <2>2. users' = users \cup tx[s].users
    BY <1>6 DEF CommitSession
  <2>3. CASE tx[s].users = {}
    BY <1>t, <2>1, <2>2, <2>3, SameUsers
  <2>4. CASE tx[s].users # {}
    <3>1. users' = tx[s].users
      BY <2>2, <2>4 DEF UsersInv
    <3>2. \A t \in Sessions : tx'[t].users = {}
      BY <2>1, <2>4 DEF UsersInv, OthersStay
    <3> QED
      BY <1>t, <3>1, <3>2 DEF UsersInv
  <2> QED
    BY <2>3, <2>4
<1>7. ASSUME NEW s \in Sessions, RollbackSession(s) PROVE UsersInv'
  <2>1. OthersStay(s) /\ tx'[s].users = {}
    BY <1>7, <1>n, <1>t, EndForm DEF RollbackSession
  <2> QED
    BY <1>7, <1>t, <2>1, SameUsers DEF RollbackSession
<1> QED
  BY <1>0, <1>1, <1>2, <1>3, <1>4, <1>5, <1>6, <1>7 DEF JournalNext

\* A failed session does not commit, and no other commits its transaction.
LEMMA RaisedIsUndone ==
    NumbersInv /\ [JournalNext]_journalVars
        => [\A s \in Sessions : tx[s].raised => tx[s].n \notin committed']_journalVars
<1> SUFFICES ASSUME NumbersInv, JournalNext, NEW s \in Sessions, tx[s].raised
             PROVE  tx[s].n \notin committed'
  OBVIOUS
<1>1. state[s] = "failed" /\ tx[s].n \notin committed
  BY DEF NumbersInv
<1>2. CASE UNCHANGED committed
  BY <1>1, <1>2
<1>3. ASSUME NEW t \in Sessions, CommitSession(t) PROVE tx[s].n \notin committed'
  <2>1. state[t] = "open" /\ committed' = committed \cup {tx[t].n}
    BY <1>3 DEF CommitSession
  <2>2. tx[t].n # tx[s].n
    BY <1>1, <2>1 DEF NumbersInv
  <2> QED
    BY <1>1, <2>1, <2>2
<1> QED
  BY <1>2, <1>3
     DEF JournalNext, Begin, append, record_delivery, complete_delivery, create_user, RollbackSession

\* The address has one user, and nothing of a transaction that met a
\* ConflictError is committed, for any number of sessions and spellings.
THEOREM ConflictsUndoAll == JournalSpec => ConflictUndoesAll
<1>1. UsersInv => Cardinality(users) <= 1
  <2> SUFFICES ASSUME UsersInv PROVE Cardinality(users) <= 1
    OBVIOUS
  <2>1. users = {} \/ \E u : users = {u}
    BY DEF UsersInv
  <2> QED
    BY <2>1, FS_EmptySet, FS_Singleton
<1>2. UsersInv => NumbersInv
  BY DEF UsersInv
<1>3. JournalSpec => []UsersInv
  BY InitUsers, NextUsers, PTL DEF JournalSpec
<1> QED
  BY <1>1, <1>2, <1>3, RaisedIsUndone, PTL DEF JournalSpec, ConflictUndoesAll

----------------------------------------------------------------------------
(* document_events *)

\* Event d was appended before e, in a transaction that began no later.
Precedes(d, e) == d.created_at <= e.created_at /\ d.id < e.id

\* Events carry the time and the history of their transaction, and a
\* transaction knows only events older than all of its own.
EventsInv ==
    /\ NumbersInv
    /\ \A s \in Sessions :
          /\ tx[s].now <= clock
          /\ \A e \in tx[s].events :
                /\ e.id <= lastEvent
                /\ e.tx = tx[s].n /\ e.created_at = tx[s].now /\ e.after = tx[s].after
          /\ \A d \in events : d.tx \in tx[s].after =>
                /\ d.created_at <= tx[s].now
                /\ \A e \in tx[s].events : d.id < e.id
    /\ \A e \in events :
          /\ e.id <= lastEvent /\ e.created_at <= clock
          /\ e.tx \in committed /\ e.after \subseteq committed /\ e.tx \notin e.after
    /\ \A d, e \in events :
          /\ d.tx = e.tx => d.created_at = e.created_at
          /\ d.tx \in e.after => Precedes(d, e)

\* There are no events.
LEMMA InitEvents == JournalInit => EventsInv
<1> SUFFICES ASSUME JournalInit PROVE EventsInv
  OBVIOUS
<1>1. NewTx(0, 0, {}).now = 0 /\ NewTx(0, 0, {}).events = {}
  BY DEF NewTx
<1> QED
  BY <1>1, InitNumbers DEF JournalInit, EventsInv

\* A step that appends no event.
LEMMA SameEvents ==
    ASSUME EventsInv, NumbersInv', NEW s \in Sessions, OthersStay(s), SameTransaction(s),
           tx'[s].events = tx[s].events, UNCHANGED <<clock, committed, events, lastEvent>>
    PROVE  EventsInv'
BY DEF EventsInv, OthersStay, SameTransaction

\* Times and ids are numbers.
LEMMA EventParts ==
    ASSUME JournalType
    PROVE  /\ \A e \in events : e.id \in Nat /\ e.created_at \in Nat
           /\ \A s \in Sessions : tx[s].now \in Nat /\ \A e \in tx[s].events : e.id \in Nat
           /\ lastEvent \in Nat /\ clock \in Nat
BY TxParts DEF JournalType, Event

\* A transaction begins after all that was committed.
LEMMA BeginEvents ==
    ASSUME EventsInv, NumbersInv', NEW s \in Sessions, Begin(s)
    PROVE  EventsInv'
<1>t. JournalType
  BY DEF EventsInv, NumbersInv
<1>1. /\ OthersStay(s) /\ tx'[s] = NewTx(begins + 1, clock', committed)
      /\ clock' \in Nat /\ clock <= clock'
  BY <1>t, BeginForm
<1>2. tx'[s].now = clock' /\ tx'[s].events = {} /\ tx'[s].after = committed
  BY <1>1 DEF NewTx
<1>3. UNCHANGED <<committed, events, lastEvent>>
  BY DEF Begin
<1>4. \A e \in events : e.created_at <= clock'
  BY <1>t, <1>1, EventParts DEF EventsInv
<1>5. ASSUME NEW t \in Sessions
      PROVE  /\ tx'[t].now <= clock'
             /\ \A e \in tx'[t].events :
                   /\ e.id <= lastEvent'
                   /\ e.tx = tx'[t].n /\ e.created_at = tx'[t].now /\ e.after = tx'[t].after
             /\ \A d \in events' : d.tx \in tx'[t].after =>
                   /\ d.created_at <= tx'[t].now
                   /\ \A e \in tx'[t].events : d.id < e.id
  <2>1. CASE t = s
    BY <1>1, <1>2, <1>3, <1>4, <2>1
  <2>2. CASE t # s
    BY <1>t, <1>1, <1>3, <2>2, EventParts DEF EventsInv, OthersStay
  <2> QED
    BY <2>1, <2>2
<1> QED
  BY <1>3, <1>4, <1>5 DEF EventsInv

\* An event has the largest id yet.
LEMMA AppendEvents ==
    ASSUME EventsInv, NumbersInv', NEW s \in Sessions, append(s)
    PROVE  EventsInv'
<1> DEFINE new == [id |-> lastEvent + 1, created_at |-> tx[s].now, tx |-> tx[s].n,
                   after |-> tx[s].after]
<1>t. JournalType
  BY DEF EventsInv, NumbersInv
<1>1. /\ OthersStay(s) /\ SameTransaction(s) /\ tx'[s].events = tx[s].events \cup {new}
  BY <1>t, AppendForm
<1>2. lastEvent' = lastEvent + 1 /\ UNCHANGED <<clock, committed, events>>
  BY DEF append
<1>3. /\ new.id = lastEvent + 1 /\ new.created_at = tx[s].now /\ new.tx = tx[s].n
      /\ new.after = tx[s].after
  OBVIOUS
<1> HIDE DEF new
<1>4. /\ \A e \in events : e.id \in Nat /\ e.id <= lastEvent /\ e.id <= lastEvent'
      /\ \A t \in Sessions : \A e \in tx[t].events : e.id <= lastEvent'
      /\ lastEvent \in Nat
  BY <1>t, <1>2, EventParts DEF EventsInv
<1>5. ASSUME NEW t \in Sessions
      PROVE  /\ tx'[t].now <= clock'
             /\ \A e \in tx'[t].events :
                   /\ e.id <= lastEvent'
                   /\ e.tx = tx'[t].n /\ e.created_at = tx'[t].now /\ e.after = tx'[t].after
             /\ \A d \in events' : d.tx \in tx'[t].after =>
                   /\ d.created_at <= tx'[t].now
                   /\ \A e \in tx'[t].events : d.id < e.id
  <2>1. CASE t = s
    <3>1. \A e \in tx'[s].events : e = new \/ e \in tx[s].events
      BY <1>1
    <3>2. tx'[s].n = tx[s].n /\ tx'[s].now = tx[s].now /\ tx'[s].after = tx[s].after
      BY <1>1 DEF SameTransaction
    <3> QED
      BY <1>2, <1>3, <1>4, <2>1, <3>1, <3>2 DEF EventsInv
  <2>2. CASE t # s
    BY <1>1, <1>2, <1>4, <2>2 DEF EventsInv, OthersStay
  <2> QED
    BY <2>1, <2>2
<1> QED
  BY <1>2, <1>4, <1>5 DEF EventsInv

\* Those who began before a commit do not know its events.
LEMMA CommitEvents ==
    ASSUME EventsInv, NumbersInv', NEW s \in Sessions, CommitSession(s)
    PROVE  EventsInv'
<1>t. JournalType /\ NumbersInv
  BY DEF EventsInv, NumbersInv
<1>1. OthersStay(s) /\ tx'[s].now = 0 /\ tx'[s].events = {} /\ tx'[s].after = {}
  BY <1>t, EndForm DEF CommitSession, NewTx
<1>2. /\ events' = events \cup tx[s].events /\ committed' = committed \cup {tx[s].n}
      /\ UNCHANGED <<clock, lastEvent>> /\ state[s] = "open"
  BY DEF CommitSession
<1>3. /\ tx[s].n \notin committed /\ tx[s].n \notin tx[s].after
      /\ \A t \in Sessions : tx[t].after \subseteq committed
  BY <1>t, <1>2 DEF NumbersInv
<1>4. \A e \in tx[s].events :
         /\ e.id <= lastEvent /\ e.tx = tx[s].n /\ e.created_at = tx[s].now
         /\ e.after = tx[s].after /\ e.created_at <= clock
  BY DEF EventsInv
<1>5. ASSUME NEW t \in Sessions
      PROVE  /\ tx'[t].now <= clock'
             /\ \A e \in tx'[t].events :
                   /\ e.id <= lastEvent'
                   /\ e.tx = tx'[t].n /\ e.created_at = tx'[t].now /\ e.after = tx'[t].after
             /\ \A d \in events' : d.tx \in tx'[t].after =>
                   /\ d.created_at <= tx'[t].now
                   /\ \A e \in tx'[t].events : d.id < e.id
  <2>1. CASE t = s
    BY <1>t, <1>1, <1>2, <2>1, EventParts
  <2>2. CASE t # s
    <3>1. tx'[t] = tx[t]
      BY <1>1, <2>2 DEF OthersStay
    <3>2. \A d \in tx[s].events : d.tx \notin tx[t].after
      BY <1>3, <1>4
    <3> QED
      BY <1>2, <3>1, <3>2 DEF EventsInv
  <2> QED
    BY <2>1, <2>2
<1>6. \A e \in events' :
         /\ e.id <= lastEvent' /\ e.created_at <= clock'
         /\ e.tx \in committed' /\ e.after \subseteq committed' /\ e.tx \notin e.after
  BY <1>2, <1>3, <1>4 DEF EventsInv
<1>7. ASSUME NEW d \in events', NEW e \in events'
      PROVE  /\ d.tx = e.tx => d.created_at = e.created_at
             /\ d.tx \in e.after => Precedes(d, e)
  <2>1. CASE d \in events /\ e \in events
    BY <2>1 DEF EventsInv
  <2>2. CASE d \in events /\ e \in tx[s].events
    BY <1>3, <1>4, <2>2 DEF EventsInv, Precedes
  <2>3. CASE d \in tx[s].events
    <3>1. \A x \in events : x.tx # d.tx /\ d.tx \notin x.after
      BY <1>3, <1>4, <2>3 DEF EventsInv
    <3>2. \A x \in tx[s].events : x.created_at = d.created_at /\ d.tx \notin x.after
      BY <1>3, <1>4, <2>3
    <3> QED
      BY <1>2, <3>1, <3>2
  <2> QED
    BY <1>2, <2>1, <2>2, <2>3
<1> QED
  BY <1>5, <1>6, <1>7 DEF EventsInv, Precedes

\* Every step keeps the events in order.
LEMMA NextEvents == EventsInv /\ [JournalNext]_journalVars => EventsInv'
<1> SUFFICES ASSUME EventsInv, [JournalNext]_journalVars PROVE EventsInv'
  OBVIOUS
<1>t. NumbersInv /\ NumbersInv' /\ JournalType
  BY NextNumbers DEF EventsInv, NumbersInv
<1>0. CASE UNCHANGED journalVars
  BY <1>0, <1>t DEF EventsInv, Precedes, journalVars
<1>1. ASSUME NEW s \in Sessions, Begin(s) PROVE EventsInv'
  BY <1>1, <1>t, BeginEvents
<1>2. ASSUME NEW s \in Sessions, append(s) PROVE EventsInv'
  BY <1>2, <1>t, AppendEvents
<1>3. ASSUME NEW s \in Sessions, record_delivery(s) PROVE EventsInv'
  <2>1. OthersStay(s) /\ SameTransaction(s) /\ tx'[s].events = tx[s].events
    BY <1>3, <1>t, RecordForm
  <2> QED
    BY <1>3, <1>t, <2>1, SameEvents DEF record_delivery
<1>4. ASSUME NEW s \in Sessions, NEW i \in Deliveries, complete_delivery(s, i)
      PROVE  EventsInv'
  <2>1. OthersStay(s) /\ SameTransaction(s) /\ tx'[s].events = tx[s].events
    BY <1>4, <1>t, CompleteForm
  <2> QED
    BY <1>4, <1>t, <2>1, SameEvents DEF complete_delivery
<1>5. ASSUME NEW s \in Sessions, NEW email \in Spellings, create_user(s, email) PROVE EventsInv'
  <2>1. OthersStay(s) /\ SameTransaction(s) /\ tx'[s].events = tx[s].events
    BY <1>5, <1>t, CreateForm
  <2> QED
    BY <1>5, <1>t, <2>1, SameEvents DEF create_user
<1>6. ASSUME NEW s \in Sessions, CommitSession(s) PROVE EventsInv'
  BY <1>6, <1>t, CommitEvents
<1>7. ASSUME NEW s \in Sessions, RollbackSession(s) PROVE EventsInv'
  <2>1. OthersStay(s) /\ tx'[s].now = 0 /\ tx'[s].events = {} /\ tx'[s].after = {}
    BY <1>7, <1>t, EndForm DEF RollbackSession, NewTx
  <2>2. UNCHANGED <<clock, committed, events, lastEvent>>
    BY <1>7 DEF RollbackSession
  <2>3. 0 <= clock
    BY <1>t, EventParts
  <2> QED
    BY <1>t, <2>1, <2>2, <2>3 DEF EventsInv, Precedes, OthersStay
<1> QED
  BY <1>0, <1>1, <1>2, <1>3, <1>4, <1>5, <1>6, <1>7 DEF JournalNext

\* list_events keeps the order of each transaction's events and of
\* transactions that follow each other, for any number of both.
THEOREM ListingsAreOrdered == JournalSpec => []ListedInOrder
<1>1. EventsInv => ListedInOrder
  <2> SUFFICES ASSUME EventsInv, NEW l \in list_events(events),
                      NEW i \in DOMAIN l, NEW j \in DOMAIN l,
                      \/ l[i].tx = l[j].tx /\ l[i].id < l[j].id
                      \/ l[i].tx \in l[j].after
               PROVE  i < j
    BY DEF ListedInOrder
  <2>1. /\ l \in [1 .. Cardinality(events) -> events]
        /\ \A a, b \in DOMAIN l : a < b => listed_before(l[a], l[b])
    BY DEF list_events, SetToSeqs
  <2>2. i \in Int /\ j \in Int /\ l[i] \in events /\ l[j] \in events
    BY <2>1
  <2>3. /\ l[i].id \in Nat /\ l[i].created_at \in Nat
        /\ l[j].id \in Nat /\ l[j].created_at \in Nat
    BY <2>2, EventParts DEF EventsInv, NumbersInv
  <2>4. Precedes(l[i], l[j])
    BY <2>2, <2>3 DEF EventsInv, Precedes
  <2>5. ~ listed_before(l[j], l[i]) /\ i # j
    BY <2>3, <2>4 DEF Precedes, listed_before
  <2> QED
    BY <2>1, <2>2, <2>5
<1> QED
  BY <1>1, InitEvents, NextEvents, PTL DEF JournalSpec
=============================================================================
