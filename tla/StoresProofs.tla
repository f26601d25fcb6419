---------------------------- MODULE StoresProofs ----------------------------
(***************************************************************************)
(* Proofs about the two stores of a document that are searched and read    *)
(* while others write: ContentStore, for any number of processes, versions,*)
(* insertions and delete_document calls, and Search, for any chunks, any   *)
(* limits, any value of RRF_K and any number of changes between the SELECTs*)
(* of a search.  The two share no state: what is common is the module.     *)
(*                                                                         *)
(* ContentStore has three inductive invariants in layers.  TypeOK is       *)
(* inductive by itself.  Next come the facts about stored rows that need   *)
(* no history of a call: OneRowPerVersion, and IdsAreOld, that a row was   *)
(* written before now.  DeletedIsGone is about the end of a call of three  *)
(* steps, so DeleteProgress says what each of them has already achieved.   *)
(*                                                                         *)
(* The inductive invariant of Search, SearchIInv, is short; the work is in *)
(* what rrf_fuse computes.  Its scores are folds and its order is a sort,  *)
(* so the proof goes through sums over finite sets (a sum exists, and does *)
(* not depend on the order of its terms), through orders on finite sets    *)
(* (the i-th member in order is the one with i - 1 before it) and through  *)
(* the dictionary scores, entry by entry.  The inductions are over sets of *)
(* naturals: the library's induction theorems have a predicate as their    *)
(* parameter, which the provers cannot instantiate.                        *)
(***************************************************************************)
EXTENDS ContentStore, Search, TLAPS, FiniteSetTheorems, WellFoundedInduction


\* The stored rows were written before, so the next one written is newer.
IdsAreOld == \A r \in rows : r.id <= made

\* The collections that delete_document has emptied when it is at a point.
Emptied(point) ==
    CASE point = "extractions" -> {"pages"}
      [] point = "raw_responses" -> {"pages", "extractions"}
      [] point = "deleted" -> Collections
      [] OTHER -> {}

\* A delete_document under way: what is left in the collections it has been
\* through was inserted after the call.
DeleteProgress ==
    \A p \in Processes :
        /\ base[p] <= made
        /\ \A r \in rows : r.coll \in Emptied(pc[p]) => r.id > base[p]

RowsInv == TypeOK /\ IdsAreOld /\ OneRowPerVersion

Inv == RowsInv /\ DeleteProgress

----------------------------------------------------------------------------
(* Type correctness *)

\* Where a call of delete_document goes next is a program point.
LEMMA AfterDeletePoint ==
    ASSUME NEW coll \in Collections
    PROVE  AfterDelete(coll) \in {"extractions", "raw_responses", "deleted"}
BY DEF AfterDelete, Collections

\* Storing a document keeps the rows in their type.
LEMMA StoreType ==
    ASSUME TypeOK, NEW coll \in Collections, NEW v \in Versions \cup {0},
           NEW replaced \in SUBSET rows, Store(coll, v, replaced)
    PROVE  made' \in 0 .. MaxRecords /\ rows' \in SUBSET Records
<1>1. [coll |-> coll, version |-> v, id |-> NewId] \in Records
  BY ContentStoreAssumption DEF TypeOK, Store, NewId, Records
<1> QED
  BY <1>1, ContentStoreAssumption DEF TypeOK, Store

\* The three writers, and what they store in place of what.
LEMMA Stores ==
    ASSUME TypeOK, NEW p \in Processes,
           \/ InsertOne(p) \/ PutRawResponse(p) \/ ReplacePage(p)
           \/ InsertPage(p) /\ made' # made
    PROVE  \E coll \in Collections, v \in Versions \cup {0}, replaced \in SUBSET rows :
              /\ Store(coll, v, replaced)
              /\ coll = "extractions" => v = version[p] /\ ~ Refused(p)
              /\ pc' = pc \/ Goto(p, "up")
              /\ UNCHANGED <<bucket, built, version, base, deletes>>
<1>c. /\ "pages" \in Collections /\ "extractions" \in Collections
      /\ "raw_responses" \in Collections /\ version[p] \in Versions
  BY DEF TypeOK, Collections
<1>1. CASE InsertOne(p)
  <2>1. /\ Store("extractions", version[p], {}) /\ ~ Refused(p) /\ Goto(p, "up")
        /\ UNCHANGED <<bucket, built, version, base, deletes>>
    BY <1>1 DEF InsertOne
  <2> QED
    BY <1>c, <2>1
<1>2. CASE PutRawResponse(p)
  <2>1. /\ Store("raw_responses", 0, {}) /\ pc' = pc
        /\ UNCHANGED <<bucket, built, version, base, deletes>>
    BY <1>2 DEF PutRawResponse
  <2> QED
    BY <1>c, <2>1
<1>3. CASE ReplacePage(p)
  <2>1. PICK old \in Stored("pages") : Store("pages", 0, {old})
    BY <1>3 DEF ReplacePage
  <2>2. {old} \in SUBSET rows
    BY DEF Stored
  <2>3. Goto(p, "up") /\ UNCHANGED <<bucket, built, version, base, deletes>>
    BY <1>3 DEF ReplacePage
  <2> QED
    BY <1>c, <2>1, <2>2, <2>3
<1>4. CASE InsertPage(p) /\ made' # made
  <2>1. /\ Store("pages", 0, {}) /\ Goto(p, "up")
        /\ UNCHANGED <<bucket, built, version, base, deletes>>
    BY <1>4 DEF InsertPage
  <2> QED
    BY <1>c, <2>1
<1> QED
  BY <1>1, <1>2, <1>3, <1>4

\* The steps of a process that write and delete nothing, and where they lead.
LEMMA QuietSteps ==
    ASSUME TypeOK, NEW p \in Processes,
           \/ Start(p) \/ BucketExists(p) \/ MakeBucket(p) \/ CreateIndex(p) \/ Die(p)
           \/ FindOne(p) \/ InsertRefused(p) \/ Handled(p) \/ PutPage(p) \/ CallFails(p)
           \/ \E v \in Versions : PutExtraction(p, v)
           \/ InsertPage(p) /\ made' = made
    PROVE  /\ \E point \in Points \ ({"deleted"} \cup Collections) : Goto(p, point)
           /\ UNCHANGED <<rows, made, base, deletes>>
           /\ version' \in [Processes -> Versions]
           /\ bucket' \in BOOLEAN
           /\ CreateIndex(p) \/ built' = built
<1>1. \A name \in DOMAIN AfterIndex : AfterIndex[name] \in Points \ ({"deleted"} \cup Collections)
  BY DEF AfterIndex, Points, Collections
<1>2. CASE CreateIndex(p)
  <2>1. pc[p] \in DOMAIN AfterIndex /\ (Goto(p, "down") \/ Goto(p, AfterIndex[pc[p]]))
        /\ UNCHANGED <<bucket, rows, made, version, base, deletes>>
    BY <1>2 DEF CreateIndex
  <2>2. "down" \in Points \ ({"deleted"} \cup Collections)
    BY DEF Points, Collections
  <2> QED
    BY <1>1, <1>2, <2>1, <2>2 DEF TypeOK
<1>3. CASE InsertPage(p) /\ made' = made
  <2>1. ~ Store("pages", 0, {})
    BY <1>3, ContentStoreAssumption DEF Store, TypeOK
  <2>2. /\ Goto(p, "absent") \/ Goto(p, "upsert")
        /\ UNCHANGED <<bucket, built, rows, made, version, base, deletes>>
    BY <1>3, <2>1 DEF InsertPage
  <2>3. "absent" \in Points \ ({"deleted"} \cup Collections)
        /\ "upsert" \in Points \ ({"deleted"} \cup Collections)
    BY DEF Points, Collections
  <2> QED
    BY <2>2, <2>3 DEF TypeOK
<1>4. CASE Start(p) \/ BucketExists(p) \/ MakeBucket(p) \/ Die(p)
  <2>1. {"bucket", "up", "uniq_document_page", "make", "down"}
          \subseteq Points \ ({"deleted"} \cup Collections)
    BY DEF Points, Collections, AfterIndex
  <2> QED
    BY <1>4, <2>1 DEF TypeOK, Start, BucketExists, MakeBucket, Die
<1>5. CASE \/ FindOne(p) \/ InsertRefused(p) \/ Handled(p) \/ PutPage(p) \/ CallFails(p)
           \/ \E v \in Versions : PutExtraction(p, v)
  <2>1. {"conflict", "insert", "up", "upsert", "find"}
          \subseteq Points \ ({"deleted"} \cup Collections)
    BY DEF Points, Collections
  <2> QED
    BY <1>5, <2>1 DEF TypeOK, FindOne, InsertRefused, Handled, PutPage, CallFails,
                      PutExtraction
<1> QED
  BY <1>2, <1>3, <1>4, <1>5

\* The first state has its types.
LEMMA InitType == Init => TypeOK
<1> SUFFICES ASSUME Init PROVE TypeOK
  OBVIOUS
<1> DEFINE first == CHOOSE v \in Versions : TRUE
<1>1. first \in Versions
  BY ContentStoreAssumption, Zenon
<1>2. version \in [Processes -> {first}]
  BY DEF Init
<1> HIDE DEF first
<1>3. version \in [Processes -> Versions]
  BY <1>1, <1>2
<1>4. bucket \in BOOLEAN
  BY DEF Init
<1>5. built = {} /\ rows = {}
  BY DEF Init
<1>6. pc \in [Processes -> Points]
  BY DEF Init, Points
<1>7. /\ made \in 0 .. MaxRecords /\ deletes \in 0 .. MaxDeletes
      /\ base \in [Processes -> 0 .. MaxRecords]
  BY ContentStoreAssumption DEF Init
<1> QED
  BY <1>3, <1>4, <1>5, <1>6, <1>7 DEF TypeOK

\* Every step of every process keeps the types.
LEMMA NextType == TypeOK /\ [Next]_vars => TypeOK'
<1> SUFFICES ASSUME TypeOK, [Next]_vars
             PROVE  TypeOK'
  OBVIOUS
<1> USE ContentStoreAssumption
<1>1. CASE UNCHANGED vars
  BY <1>1 DEF TypeOK, vars
<1>2. ASSUME NEW p \in Processes,
             \/ Start(p) \/ BucketExists(p) \/ MakeBucket(p) \/ CreateIndex(p) \/ Die(p)
             \/ FindOne(p) \/ InsertRefused(p) \/ Handled(p) \/ PutPage(p) \/ CallFails(p)
             \/ \E v \in Versions : PutExtraction(p, v)
             \/ InsertPage(p) /\ made' = made
      PROVE  TypeOK'
  <2>1. built' \in SUBSET DOMAIN AfterIndex
    BY <1>2, QuietSteps DEF TypeOK, CreateIndex
  <2> QED
    BY <1>2, <2>1, QuietSteps DEF TypeOK, Goto
<1>3. ASSUME NEW p \in Processes,
             \/ InsertOne(p) \/ PutRawResponse(p) \/ ReplacePage(p)
             \/ InsertPage(p) /\ made' # made
      PROVE  TypeOK'
  <2>1. /\ made' \in 0 .. MaxRecords /\ rows' \in SUBSET Records
        /\ pc' = pc \/ Goto(p, "up")
        /\ UNCHANGED <<bucket, built, version, base, deletes>>
    BY <1>3, Stores, StoreType
  <2>2. "up" \in Points
    BY DEF Points
  <2> QED
    BY <2>1, <2>2 DEF TypeOK, Goto
<1>4. ASSUME NEW p \in Processes, DeleteDocument(p)
      PROVE  TypeOK'
  BY <1>4 DEF TypeOK, DeleteDocument, Goto, Points, Collections
<1>5. ASSUME NEW p \in Processes, DeleteMany(p)
      PROVE  TypeOK'
  <2>1. AfterDelete(pc[p]) \in Points
    BY <1>5, AfterDeletePoint DEF DeleteMany, Points, Collections
  <2> QED
    BY <1>5, <2>1 DEF TypeOK, DeleteMany, Goto
<1>6. CASE Expire
  BY <1>6 DEF TypeOK, Expire
<1> QED
  BY <1>1, <1>2, <1>3, <1>4, <1>5, <1>6 DEF Next

\* Type correctness of the content store, for every value of the constants.
THEOREM TypeCorrect == Spec => []TypeOK
BY InitType, NextType, PTL DEF Spec

----------------------------------------------------------------------------
(* The stored rows *)

\* A newly written document keeps the facts about rows; when an extraction is
\* stored under the unique index, its version was free.
LEMMA StoreRows ==
    ASSUME RowsInv, NEW coll \in Collections, NEW v \in Versions \cup {0},
           NEW replaced \in SUBSET rows, Store(coll, v, replaced),
           coll = "extractions" => ~ ("uniq_document_version" \in built /\ Exists(v)),
           built' = built
    PROVE  (IdsAreOld /\ OneRowPerVersion)'
<1> DEFINE r == [coll |-> coll, version |-> v, id |-> NewId]
           old == Stored("extractions")
           new == Stored("extractions")'
<1>1. /\ rows' = (rows \ replaced) \cup {r}
      /\ made' = made + 1
  BY DEF Store
<1>2. r.coll = coll /\ r.version = v /\ r.id = made + 1
  BY DEF NewId
<1> HIDE DEF r
<1>3. IdsAreOld'
  <2>1. made \in Nat /\ \A q \in rows : q.id \in Nat
    BY ContentStoreAssumption DEF RowsInv, TypeOK, Records
  <2> QED
    BY <1>1, <1>2, <2>1 DEF RowsInv, IdsAreOld
<1>4. OneRowPerVersion'
  <2> SUFFICES ASSUME "uniq_document_version" \in built', NEW a \in new, NEW b \in new,
                      a # b, a.version = b.version
               PROVE  FALSE
    BY DEF OneRowPerVersion, Duplicated
  <2>1. "uniq_document_version" \in built
    OBVIOUS
  <2>2. ~ (a \in old /\ b \in old)
    BY <2>1 DEF RowsInv, OneRowPerVersion, Duplicated
  <2>3. a \in old \cup {r} /\ b \in old \cup {r}
    BY <1>1 DEF Stored
  <2>4. PICK q \in old : q.version = r.version
    BY <2>2, <2>3
  <2>5. r \in new
    BY <2>2, <2>3
  <2>6. coll = "extractions"
    BY <2>5, <1>2 DEF Stored
  <2> QED
    BY <1>2, <2>1, <2>4, <2>6 DEF Exists
<1> QED
  BY <1>3, <1>4

\* Nor does a removal disturb them.
LEMMA FewerRows ==
    ASSUME RowsInv, rows' \subseteq rows, built' = built, made' = made
    PROVE  (IdsAreOld /\ OneRowPerVersion)'
<1>1. Stored("extractions")' \subseteq Stored("extractions")
  BY DEF Stored
<1> QED
  BY <1>1 DEF RowsInv, IdsAreOld, OneRowPerVersion, Duplicated

\* The facts about rows hold of the empty store.
LEMMA InitRows == Init => RowsInv
<1> SUFFICES ASSUME Init PROVE IdsAreOld /\ OneRowPerVersion
  BY InitType DEF RowsInv
<1> QED
  BY DEF Init, IdsAreOld, OneRowPerVersion

\* Every step keeps them: a write through StoreRows, and ensure_indexes
\* because it does not build the index over duplicates.
LEMMA NextRows == RowsInv /\ [Next]_vars => RowsInv'
<1> SUFFICES ASSUME RowsInv, [Next]_vars
             PROVE  (IdsAreOld /\ OneRowPerVersion)'
  BY NextType DEF RowsInv
<1>t. TypeOK
  BY DEF RowsInv
<1>1. CASE UNCHANGED vars
  BY <1>1, FewerRows DEF vars
<1>2. ASSUME NEW p \in Processes,
             \/ Start(p) \/ BucketExists(p) \/ MakeBucket(p) \/ CreateIndex(p) \/ Die(p)
             \/ FindOne(p) \/ InsertRefused(p) \/ Handled(p) \/ PutPage(p) \/ CallFails(p)
             \/ \E v \in Versions : PutExtraction(p, v)
             \/ InsertPage(p) /\ made' = made
      PROVE  (IdsAreOld /\ OneRowPerVersion)'
  <2>1. rows' = rows /\ made' = made /\ (CreateIndex(p) \/ built' = built)
    BY <1>2, <1>t, QuietSteps
  <2>2. CASE built' = built
    BY <2>1, <2>2, FewerRows
  <2>3. CASE CreateIndex(p) /\ built' # built
    <3>1. /\ built' = built \cup {pc[p]}
          /\ pc[p] \in DOMAIN UniqueOn => ~ Duplicated(UniqueOn[pc[p]])
      BY <2>3 DEF CreateIndex
    <3>2. /\ "uniq_document_version" \in DOMAIN UniqueOn
          /\ UniqueOn["uniq_document_version"] = "extractions"
      BY DEF UniqueOn
    <3>3. "uniq_document_version" \in built' => ~ Duplicated("extractions")
      BY <3>1, <3>2 DEF RowsInv, OneRowPerVersion
    <3>4. Duplicated("extractions")' <=> Duplicated("extractions")
      BY <2>1 DEF Duplicated, Stored
    <3> QED
      BY <2>1, <3>3, <3>4 DEF RowsInv, IdsAreOld, OneRowPerVersion
  <2> QED
    BY <2>1, <2>2, <2>3
<1>3. ASSUME NEW p \in Processes,
             \/ InsertOne(p) \/ PutRawResponse(p) \/ ReplacePage(p)
             \/ InsertPage(p) /\ made' # made
      PROVE  (IdsAreOld /\ OneRowPerVersion)'
  <2>1. PICK coll \in Collections, v \in Versions \cup {0}, replaced \in SUBSET rows :
           /\ Store(coll, v, replaced)
           /\ coll = "extractions" => v = version[p] /\ ~ Refused(p)
           /\ built' = built
    BY <1>3, <1>t, Stores
  <2>2. coll = "extractions" => ~ ("uniq_document_version" \in built /\ Exists(v))
    BY <2>1 DEF Refused
  <2> QED
    BY <2>1, <2>2, StoreRows
<1>4. ASSUME NEW p \in Processes, DeleteDocument(p) \/ DeleteMany(p)
      PROVE  (IdsAreOld /\ OneRowPerVersion)'
  BY <1>4, FewerRows DEF DeleteDocument, DeleteMany
<1>5. CASE Expire
  BY <1>5, FewerRows DEF Expire
<1> QED
  BY <1>1, <1>2, <1>3, <1>4, <1>5 DEF Next

\* put_extraction's promise of uniqueness, for any number of writers: from
\* the moment the unique index exists, no version has two rows.
THEOREM VersionsAreUnique == Spec => []OneRowPerVersion
<1>1. RowsInv => OneRowPerVersion
  BY DEF RowsInv
<1> QED
  BY <1>1, InitRows, NextRows, PTL DEF Spec

----------------------------------------------------------------------------
(* delete_document *)

\* No point but the three of a delete_document under way promises anything.
LEMMA EmptiedElsewhere ==
    ASSUME NEW point, point \notin {"extractions", "raw_responses", "deleted"}
    PROVE  Emptied(point) = {}
BY DEF Emptied

\* Storing a document disturbs no delete_document: the write is newer than
\* the base of every call.
LEMMA StoreProgress ==
    ASSUME Inv, NEW coll \in Collections, NEW v \in Versions \cup {0},
           NEW replaced \in SUBSET rows, Store(coll, v, replaced), base' = base,
           \A p \in Processes : Emptied(pc'[p]) \subseteq Emptied(pc[p])
    PROVE  DeleteProgress'
<1> DEFINE r == [coll |-> coll, version |-> v, id |-> NewId]
<1>1. rows' \subseteq rows \cup {r} /\ made' = made + 1
  BY DEF Store
<1>2. r.id = made + 1
  BY DEF NewId
<1> HIDE DEF r
<1>3. made \in Nat /\ \A p \in Processes : base[p] \in Nat /\ base[p] <= made
  BY ContentStoreAssumption DEF Inv, RowsInv, TypeOK, DeleteProgress
<1> SUFFICES ASSUME NEW p \in Processes
             PROVE  /\ base[p] <= made + 1
                    /\ \A q \in rows' : q.coll \in Emptied(pc'[p]) => q.id > base[p]
  BY <1>1 DEF DeleteProgress
<1>4. \A q \in rows : q.coll \in Emptied(pc[p]) => q.id > base[p]
  BY DEF Inv, DeleteProgress
<1>5. Emptied(pc'[p]) \subseteq Emptied(pc[p])
  OBVIOUS
<1>6. base[p] <= made + 1 /\ r.id > base[p]
  BY <1>2, <1>3
<1> QED
  BY <1>1, <1>4, <1>5, <1>6

\* delete_document has not begun in the first state.
LEMMA InitProgress == Init => Inv
<1> SUFFICES ASSUME Init PROVE DeleteProgress
  BY InitRows DEF Inv
<1> QED
  BY DEF Init, DeleteProgress

\* A step of a process that neither inserts nor continues a delete_document
\* promises no more than before.
LEMMA QuietProgress ==
    ASSUME Inv, NEW p \in Processes, NEW point,
           point \notin {"extractions", "raw_responses", "deleted"},
           Goto(p, point), rows' \subseteq rows, UNCHANGED <<made, base>>
    PROVE  DeleteProgress'
<1>1. \A q \in Processes : Emptied(pc'[q]) \subseteq Emptied(pc[q])
  <2> SUFFICES ASSUME NEW q \in Processes
               PROVE  Emptied(pc'[q]) \subseteq Emptied(pc[q])
    OBVIOUS
  <2>1. pc'[q] = IF q = p THEN point ELSE pc[q]
    BY DEF Goto, Inv, RowsInv, TypeOK
  <2> QED
    BY <2>1, EmptiedElsewhere
<1> QED
  BY <1>1 DEF Inv, DeleteProgress

\* Every step keeps the progress of every delete_document.
LEMMA NextProgress == Inv /\ [Next]_vars => Inv'
<1> SUFFICES ASSUME Inv, [Next]_vars
             PROVE  DeleteProgress'
  BY NextRows DEF Inv
<1>1. CASE UNCHANGED vars
  BY <1>1 DEF Inv, DeleteProgress, Emptied, vars
<1>t. TypeOK
  BY DEF Inv, RowsInv
<1>2. ASSUME NEW p \in Processes,
             \/ Start(p) \/ BucketExists(p) \/ MakeBucket(p) \/ CreateIndex(p) \/ Die(p)
             \/ FindOne(p) \/ InsertRefused(p) \/ Handled(p) \/ PutPage(p) \/ CallFails(p)
             \/ \E v \in Versions : PutExtraction(p, v)
             \/ InsertPage(p) /\ made' = made
      PROVE  DeleteProgress'
  <2>1. PICK point \in Points \ ({"deleted"} \cup Collections) : Goto(p, point)
    BY <1>2, <1>t, QuietSteps
  <2>2. point \notin {"extractions", "raw_responses", "deleted"}
    BY DEF Collections
  <2>3. UNCHANGED <<rows, made, base>>
    BY <1>2, <1>t, QuietSteps
  <2> QED
    BY <2>1, <2>2, <2>3, QuietProgress
<1>3. ASSUME NEW p \in Processes,
             \/ InsertOne(p) \/ PutRawResponse(p) \/ ReplacePage(p)
             \/ InsertPage(p) /\ made' # made
      PROVE  DeleteProgress'
  <2>1. PICK coll \in Collections, v \in Versions \cup {0}, replaced \in SUBSET rows :
           /\ Store(coll, v, replaced)
           /\ pc' = pc \/ Goto(p, "up")
           /\ base' = base
    BY <1>3, <1>t, Stores
  <2>2. \A q \in Processes : Emptied(pc'[q]) \subseteq Emptied(pc[q])
    <3> SUFFICES ASSUME NEW q \in Processes
                 PROVE  Emptied(pc'[q]) \subseteq Emptied(pc[q])
      OBVIOUS
    <3>1. pc'[q] \in {"up", pc[q]}
      BY <1>t, <2>1 DEF Goto, TypeOK
    <3>2. Emptied("up") = {}
      BY EmptiedElsewhere
    <3> QED
      BY <3>1, <3>2
  <2> QED
    BY <2>1, <2>2, StoreProgress
<1>4. CASE Expire
  <2>1. rows' \subseteq rows /\ UNCHANGED <<made, pc, base>>
    BY <1>4 DEF Expire
  <2> QED
    BY <2>1 DEF Inv, DeleteProgress, Emptied
<1>6. ASSUME NEW p \in Processes, DeleteDocument(p)
      PROVE  DeleteProgress'
  <2>1. /\ rows' = rows /\ made' = made
        /\ base' = [base EXCEPT ![p] = made]
        /\ pc' = [pc EXCEPT ![p] = "pages"]
    BY <1>6 DEF DeleteDocument, Goto
  <2>2. made \in Nat
    BY ContentStoreAssumption DEF Inv, RowsInv, TypeOK
  <2>3. Emptied("pages") = {}
    BY EmptiedElsewhere
  <2> SUFFICES ASSUME NEW q \in Processes
               PROVE  /\ base'[q] <= made
                      /\ \A r \in rows : r.coll \in Emptied(pc'[q]) => r.id > base'[q]
    BY <2>1 DEF DeleteProgress
  <2>4. CASE q = p
    BY <2>1, <2>2, <2>3, <2>4 DEF Inv, RowsInv, TypeOK
  <2>5. CASE q # p
    BY <2>1, <2>5 DEF Inv, RowsInv, TypeOK, DeleteProgress
  <2> QED
    BY <2>4, <2>5
<1>7. ASSUME NEW p \in Processes, DeleteMany(p)
      PROVE  DeleteProgress'
  <2>1. /\ pc[p] \in Collections
        /\ rows' = {r \in rows : r.coll # pc[p]}
        /\ UNCHANGED <<made, base>>
        /\ pc' = [pc EXCEPT ![p] = AfterDelete(pc[p])]
    BY <1>7 DEF DeleteMany, Goto, Stored
  <2>2. Emptied(AfterDelete(pc[p])) \subseteq Emptied(pc[p]) \cup {pc[p]}
    BY <2>1 DEF Emptied, AfterDelete, Collections
  <2> SUFFICES ASSUME NEW q \in Processes
               PROVE  /\ base[q] <= made
                      /\ \A r \in rows' : r.coll \in Emptied(pc'[q]) => r.id > base[q]
    BY <2>1 DEF DeleteProgress
  <2>3. /\ base[q] <= made
        /\ \A r \in rows : r.coll \in Emptied(pc[q]) => r.id > base[q]
    BY DEF Inv, DeleteProgress
  <2>4. pc'[q] = IF q = p THEN AfterDelete(pc[p]) ELSE pc[q]
    BY <2>1 DEF Inv, RowsInv, TypeOK
  <2> QED
    BY <2>1, <2>2, <2>3, <2>4
<1> QED
  BY <1>1, <1>2, <1>3, <1>4, <1>6, <1>7 DEF Next

\* "Delete all content", against any number of writers and other deletions:
\* when delete_document returns, whatever is left was written after the call.
THEOREM DeleteLeavesOnlyNew == Spec => []DeletedIsGone
<1>1. Inv => DeletedIsGone
  <2> SUFFICES ASSUME Inv, NEW p \in Processes, pc[p] = "deleted", NEW r \in rows
               PROVE  r.id > base[p]
    BY DEF DeletedIsGone
  <2>1. Emptied(pc[p]) = Collections
    BY DEF Emptied
  <2>2. r.coll \in Collections
    BY DEF Inv, RowsInv, TypeOK, Records
  <2> QED
    BY <2>1, <2>2 DEF Inv, DeleteProgress
<1> QED
  BY <1>1, InitProgress, NextProgress, PTL DEF Spec


----------------------------------------------------------------------------
(* Induction and sums over finite sets *)

\* Induction over the naturals, stated of a set: the library's theorem of it
\* has a predicate as its parameter, which the provers cannot instantiate.
LEMMA NatSetInduction ==
    ASSUME NEW N, 0 \in N, \A n \in Nat : n \in N => n + 1 \in N
    PROVE  \A n \in Nat : n \in N
<1> DEFINE Less == {p \in Nat \X Nat : p[1] < p[2]}
           Missing == {n \in Nat : n \notin N}
<1>1. IsWellFoundedOn(Less, Nat)
  BY NatLessThanWellFounded DEF OpToRel
<1> SUFFICES ASSUME Missing # {} PROVE FALSE
  OBVIOUS
<1>2. PICK n \in Missing : \A m \in Missing : <<m, n>> \notin Less
  <2> HIDE DEF Less
  <2> QED
    BY <1>1, WFMin
<1>3. n # 0 /\ n - 1 \in Nat /\ n - 1 < n /\ n \in Nat /\ (n - 1) + 1 = n
  OBVIOUS
<1>4. n - 1 \in N
  BY <1>2, <1>3
<1> QED
  BY <1>3, <1>4

\* Removing an element of a finite set.
LEMMA OneLess ==
    ASSUME NEW T, IsFiniteSet(T), NEW x \in T
    PROVE  /\ IsFiniteSet(T \ {x})
           /\ Cardinality(T) \in Nat
           /\ Cardinality(T \ {x}) \in Nat
           /\ Cardinality(T) = Cardinality(T \ {x}) + 1
<1>1. IsFiniteSet(T \ {x}) /\ Cardinality(T \ {x}) = Cardinality(T) - 1
  BY FS_RemoveElement
<1>2. Cardinality(T) \in Nat /\ Cardinality(T \ {x}) \in Nat
  BY <1>1, FS_CardinalityType
<1> QED
  BY <1>1, <1>2

\* Induction over the subsets of a finite set.
LEMMA SubsetInduction ==
    ASSUME NEW S, IsFiniteSet(S), NEW Q, {} \in Q,
           \A T \in SUBSET S : \A x \in S \ T : T \in Q => T \cup {x} \in Q
    PROVE  \A T \in SUBSET S : T \in Q
<1> DEFINE N == {n \in Nat : \A T \in SUBSET S : Cardinality(T) = n => T \in Q}
<1>1. 0 \in N
  BY FS_EmptySet, FS_Subset
<1>2. ASSUME NEW n \in Nat, n \in N PROVE n + 1 \in N
  <2> SUFFICES ASSUME NEW T \in SUBSET S, Cardinality(T) = n + 1 PROVE T \in Q
    OBVIOUS
  <2>1. IsFiniteSet(T) /\ T # {}
    BY FS_Subset, FS_EmptySet
  <2>2. PICK x \in T : TRUE
    BY <2>1
  <2>3. Cardinality(T \ {x}) = n
    BY <2>1, OneLess
  <2>4. T \ {x} \in Q
    BY <1>2, <2>3
  <2>5. (T \ {x}) \cup {x} = T
    BY <2>2
  <2> QED
    BY <2>2, <2>4, <2>5
<1>3. \A n \in Nat : n \in N
  <2> HIDE DEF N
  <2> QED
    BY <1>1, <1>2, NatSetInduction
<1> QED
  BY <1>3, FS_Subset, FS_CardinalityType

\* choose[T] is an element of T.
Chooses(choose, S) == \A T \in SUBSET S : T # {} => choose[T] \in T

\* f[T] is the fold of op over T, for each T \subseteq S, when choose[T] is the
\* element that comes first.
IsFold(f, start, op, choose, S) ==
    \A T \in SUBSET S :
       f[T] = IF T = {} THEN start ELSE op[choose[T]][f[T \ {choose[T]}]]

\* A fold over a finite set is well defined, whichever element of a set
\* choose[T] takes first.
LEMMA FoldExists ==
    ASSUME NEW S, IsFiniteSet(S), NEW Y, NEW start \in Y, NEW op \in [S -> [Y -> Y]],
           NEW choose, Chooses(choose, S)
    PROVE  \E f \in [SUBSET S -> Y] : IsFold(f, start, op, choose, S)
<1> DEFINE Equation(f, T) ==
              f[T] = IF T = {} THEN start ELSE op[choose[T]][f[T \ {choose[T]}]]
           N == {n \in Nat : \E f \in [SUBSET S -> Y] :
                    \A T \in SUBSET S : Cardinality(T) <= n => Equation(f, T)}
<1>0. \A T \in SUBSET S : IsFiniteSet(T) /\ Cardinality(T) \in Nat
  BY FS_Subset, FS_CardinalityType
<1>1. 0 \in N
  <2>1. [T \in SUBSET S |-> start] \in [SUBSET S -> Y]
    OBVIOUS
  <2>2. \A T \in SUBSET S : Cardinality(T) <= 0 => T = {}
    BY <1>0, FS_EmptySet
  <2> QED
    BY <2>1, <2>2
<1>2. ASSUME NEW n \in Nat, n \in N PROVE n + 1 \in N
  <2>1. PICK f \in [SUBSET S -> Y] :
           \A T \in SUBSET S : Cardinality(T) <= n => Equation(f, T)
    BY <1>2
  <2> DEFINE g == [T \in SUBSET S |->
                     IF Cardinality(T) <= n THEN f[T]
                     ELSE IF T = {} THEN start
                     ELSE op[choose[T]][f[T \ {choose[T]}]]]
  <2>2. \A T \in SUBSET S : T # {} =>
           /\ choose[T] \in T /\ choose[T] \in S
           /\ T \ {choose[T]} \in SUBSET S
           /\ Cardinality(T) = Cardinality(T \ {choose[T]}) + 1
    BY <1>0, OneLess DEF Chooses
  <2>3. g \in [SUBSET S -> Y]
    BY <2>2
  <2>4. ASSUME NEW T \in SUBSET S, Cardinality(T) <= n + 1 PROVE Equation(g, T)
    <3>1. CASE T = {}
      BY <2>1, <3>1, FS_EmptySet
    <3>2. CASE T # {}
      <4>1. g[T \ {choose[T]}] = f[T \ {choose[T]}]
        BY <1>0, <2>2, <2>4, <3>2
      <4>2. g[T] = op[choose[T]][f[T \ {choose[T]}]]
        BY <2>1, <3>2
      <4> QED
        BY <4>1, <4>2, <3>2
    <3> QED
      BY <3>1, <3>2
  <2>5. \A T \in SUBSET S : Cardinality(T) <= n + 1 => Equation(g, T)
    BY <2>4
  <2>6. \E h \in [SUBSET S -> Y] :
           \A T \in SUBSET S : Cardinality(T) <= n + 1 => Equation(h, T)
    <3> HIDE DEF g, Equation
    <3> QED
      BY <2>3, <2>5
  <2> HIDE DEF Equation
  <2> QED
    BY <2>6
<1>3. \A n \in Nat : n \in N
  <2> HIDE DEF N
  <2> QED
    BY <1>1, <1>2, NatSetInduction
<1>4. Cardinality(S) \in Nat /\ \A T \in SUBSET S : Cardinality(T) <= Cardinality(S)
  BY FS_Subset, FS_CardinalityType
<1>5. PICK f \in [SUBSET S -> Y] :
         \A T \in SUBSET S : Cardinality(T) <= Cardinality(S) => Equation(f, T)
  BY <1>3, <1>4
<1>6. \A T \in SUBSET S : Equation(f, T)
  BY <1>4, <1>5
<1> QED
  BY <1>6 DEF IsFold

\* f[T] is the sum of w over T, for each T \subseteq S.
IsSum(f, w, S) ==
    /\ w \in [S -> Nat]
    /\ f \in [SUBSET S -> Nat]
    /\ f[{}] = 0
    /\ \A T \in SUBSET S : \A x \in T : f[T] = w[x] + f[T \ {x}]

\* A sum does not depend on the order of its terms.
LEMMA FoldIsSum ==
    ASSUME NEW S, IsFiniteSet(S), NEW w \in [S -> Nat],
           NEW choose, Chooses(choose, S),
           NEW f \in [SUBSET S -> Nat], f[{}] = 0,
           \A T \in SUBSET S : T # {} => f[T] = w[choose[T]] + f[T \ {choose[T]}]
    PROVE  IsSum(f, w, S)
<1> DEFINE N == {n \in Nat : \A T \in SUBSET S : Cardinality(T) = n =>
                    \A x \in T : f[T] = w[x] + f[T \ {x}]}
<1>0. \A T \in SUBSET S : IsFiniteSet(T) /\ Cardinality(T) \in Nat
  BY FS_Subset, FS_CardinalityType
<1>1. 0 \in N
  BY <1>0, FS_EmptySet
<1>2. ASSUME NEW n \in Nat, n \in N PROVE n + 1 \in N
  <2> SUFFICES ASSUME NEW T \in SUBSET S, Cardinality(T) = n + 1, NEW x \in T
               PROVE  f[T] = w[x] + f[T \ {x}]
    OBVIOUS
  <2>1. PICK y \in T : y = choose[T] /\ f[T] = w[y] + f[T \ {y}]
    BY DEF Chooses
  <2>2. CASE x = y
    BY <2>1, <2>2
  <2>3. CASE x # y
    <3>1. Cardinality(T \ {x}) = n /\ Cardinality(T \ {y}) = n
      BY <1>0, OneLess
    <3>2. (T \ {x}) \ {y} = (T \ {y}) \ {x}
      OBVIOUS
    <3>3. f[T \ {x}] = w[y] + f[(T \ {x}) \ {y}]
      BY <1>2, <2>3, <3>1
    <3>4. f[T \ {y}] = w[x] + f[(T \ {y}) \ {x}]
      BY <1>2, <2>3, <3>1
    <3>5. w[x] \in Nat /\ w[y] \in Nat /\ f[(T \ {y}) \ {x}] \in Nat
      OBVIOUS
    <3>6. f[T \ {x}] = w[y] + f[(T \ {y}) \ {x}]
      BY <3>2, <3>3
    <3> QED
      BY <2>1, <3>4, <3>5, <3>6
  <2> QED
    BY <2>2, <2>3
<1>3. \A n \in Nat : n \in N
  <2> HIDE DEF N
  <2> QED
    BY <1>1, <1>2, NatSetInduction
<1>4. \A T \in SUBSET S : \A x \in T : f[T] = w[x] + f[T \ {x}]
  BY <1>0, <1>3
<1> QED
  BY <1>4 DEF IsSum

\* There is a sum of any natural weights.
LEMMA SumExists ==
    ASSUME NEW S, IsFiniteSet(S), NEW w \in [S -> Nat]
    PROVE  \E f : IsSum(f, w, S)
<1>1. PICK choose : Chooses(choose, S)
  <2>1. \A T \in SUBSET S : T # {} => [U \in SUBSET S |-> CHOOSE x \in U : TRUE][T] \in T
    OBVIOUS
  <2> QED
    BY <2>1 DEF Chooses
<1>2. PICK op \in [S -> [Nat -> Nat]] : \A x \in S, n \in Nat : op[x][n] = w[x] + n
  <2>1. [x \in S |-> [n \in Nat |-> w[x] + n]] \in [S -> [Nat -> Nat]]
    OBVIOUS
  <2> QED
    BY <2>1
<1>3. \A start \in Nat : \E f \in [SUBSET S -> Nat] : IsFold(f, start, op, choose, S)
  BY <1>1, <1>2, FoldExists
<1>4. PICK f \in [SUBSET S -> Nat] : IsFold(f, 0, op, choose, S)
  BY <1>3
<1>5. f[{}] = 0
  BY <1>4 DEF IsFold
<1>6. ASSUME NEW T \in SUBSET S, T # {}
      PROVE  f[T] = w[choose[T]] + f[T \ {choose[T]}]
  <2>1. f[T] = op[choose[T]][f[T \ {choose[T]}]]
    BY <1>4, <1>6 DEF IsFold
  <2>2. choose[T] \in S /\ f[T \ {choose[T]}] \in Nat
    BY <1>1, <1>6 DEF Chooses
  <2> QED
    BY <1>2, <2>1, <2>2
<1> QED
  BY <1>1, <1>5, <1>6, FoldIsSum

\* b takes each x \in S to a place of its own in E, with the same term.
Transports(b, S, v, E, w) ==
    /\ b \in [S -> E]
    /\ \A y \in E : \E x \in S : b[x] = y
    /\ \A x, y \in S : b[x] = b[y] => x = y
    /\ \A x \in S : v[x] = w[b[x]]

\* Equal terms have equal sums.
LEMMA SumTransport ==
    ASSUME NEW S, IsFiniteSet(S), NEW v, NEW f, IsSum(f, v, S),
           NEW D, NEW w, NEW g, IsSum(g, w, D),
           NEW E \in SUBSET D, NEW b, Transports(b, S, v, E, w)
    PROVE  f[S] = g[E]
<1>0. /\ b \in [S -> E] /\ \A y \in E : \E x \in S : b[x] = y
      /\ \A x, y \in S : b[x] = b[y] => x = y
      /\ \A x \in S : v[x] = w[b[x]]
  BY DEF Transports
<1> DEFINE Image(T) == {b[x] : x \in T}
           Q == {T \in SUBSET S : f[T] = g[Image(T)]}
<1>1. {} \in Q
  <2>1. Image({}) = {}
    OBVIOUS
  <2> QED
    BY <2>1 DEF IsSum
<1>2. ASSUME NEW T \in SUBSET S, NEW x \in S \ T, T \in Q PROVE T \cup {x} \in Q
  <2>1. PICK U, V : U = Image(T \cup {x}) /\ V = Image(T)
    OBVIOUS
  <2>2. U \in SUBSET D /\ b[x] \in U /\ U \ {b[x]} = V
    BY <1>0, <2>1
  <2>3. g[U] = w[b[x]] + g[V]
    BY <2>2 DEF IsSum
  <2>4. PICK W \in SUBSET S : W = T \cup {x}
    OBVIOUS
  <2>5. f[W] = v[x] + f[T]
    <3>1. x \in W /\ W \ {x} = T
      BY <2>4
    <3> QED
      BY <3>1 DEF IsSum
  <2> QED
    BY <1>0, <1>2, <2>1, <2>3, <2>4, <2>5
<1>3. \A T \in SUBSET S : T \in Q
  <2> HIDE DEF Q
  <2> QED
    BY <1>1, <1>2, SubsetInduction
<1>4. Image(S) = E
  BY <1>0
<1> QED
  BY <1>3, <1>4

\* A and B are the parts of U.
Parts(U, A, B) == U = A \cup B /\ A \cap B = {}

\* The sum over two parts.
LEMMA SumParts ==
    ASSUME NEW D, NEW w, NEW g, IsSum(g, w, D),
           NEW U \in SUBSET D, IsFiniteSet(U), NEW A, NEW B, Parts(U, A, B)
    PROVE  g[U] = g[A] + g[B]
<1>0. U = A \cup B /\ A \cap B = {}
  BY DEF Parts
<1> DEFINE Q == {T \in SUBSET A : g[T \cup B] = g[T] + g[B]}
<1>1. {} \in Q
  <2>1. g[{}] = 0 /\ g[B] \in Nat /\ {} \cup B = B
    BY <1>0 DEF IsSum
  <2> QED
    BY <2>1
<1>2. ASSUME NEW T \in SUBSET A, NEW x \in A \ T, T \in Q PROVE T \cup {x} \in Q
  <2>1. /\ (T \cup {x}) \ {x} = T
        /\ T \cup {x} \in SUBSET D /\ T \in SUBSET D /\ B \in SUBSET D
    BY <1>0
  <2>2. g[(T \cup {x}) \cup B] = w[x] + g[T \cup B]
    <3>1. PICK V \in SUBSET D : V = (T \cup {x}) \cup B
      BY <1>0
    <3>2. x \in V /\ V \ {x} = T \cup B
      BY <1>0, <3>1
    <3>3. g[V] = w[x] + g[V \ {x}]
      BY <3>2 DEF IsSum
    <3> QED
      BY <3>1, <3>2, <3>3
  <2>3. g[T \cup {x}] = w[x] + g[T]
    BY <2>1 DEF IsSum
  <2>4. w[x] \in Nat /\ g[T] \in Nat /\ g[B] \in Nat
    BY <2>1 DEF IsSum
  <2> QED
    BY <1>2, <2>2, <2>3, <2>4
<1>3. \A T \in SUBSET A : T \in Q
  <2>1. IsFiniteSet(A)
    BY <1>0, FS_Subset
  <2> HIDE DEF Q
  <2> QED
    BY <1>1, <1>2, <2>1, SubsetInduction
<1> QED
  BY <1>0, <1>3

----------------------------------------------------------------------------
(* Finite sets in an order *)

\* R orders S strictly and totally.
OrderOn(R, S) ==
    /\ \A x \in S : <<x, x>> \notin R
    /\ \A x, y, z \in S : <<x, y>> \in R /\ <<y, z>> \in R => <<x, z>> \in R
    /\ \A x, y \in S : x = y \/ <<x, y>> \in R \/ <<y, x>> \in R

Below(x, R, S) == {y \in S : <<y, x>> \in R}

\* s lists S in the order of R, each member once.
Lists(s, R, S) ==
    /\ s \in [1 .. Cardinality(S) -> S]
    /\ \A x \in S : \E i \in 1 .. Cardinality(S) : s[i] = x
    /\ \A i, j \in 1 .. Cardinality(S) : i < j => <<s[i], s[j]>> \in R

\* What is lower in the order has fewer members below it.
LEMMA LowerIsLess ==
    ASSUME NEW S, IsFiniteSet(S), NEW R, OrderOn(R, S),
           NEW x \in S, NEW y \in S, <<x, y>> \in R
    PROVE  Cardinality(Below(x, R, S)) < Cardinality(Below(y, R, S))
<1>1. Below(x, R, S) \subseteq Below(y, R, S)
  BY DEF Below, OrderOn
<1>2. x \in Below(y, R, S) /\ x \notin Below(x, R, S)
  BY DEF Below, OrderOn
<1>3. IsFiniteSet(Below(y, R, S)) /\ IsFiniteSet(Below(x, R, S))
  BY FS_Subset DEF Below
<1>4. /\ Cardinality(Below(x, R, S)) <= Cardinality(Below(y, R, S))
      /\ Cardinality(Below(x, R, S)) # Cardinality(Below(y, R, S))
  BY <1>1, <1>2, <1>3, FS_Subset
<1>5. Cardinality(Below(x, R, S)) \in Nat /\ Cardinality(Below(y, R, S)) \in Nat
  BY <1>3, FS_CardinalityType
<1> QED
  BY <1>4, <1>5

\* The numbers of members below are 0, 1, ... up to the size of the set.
LEMMA RanksAreAll ==
    ASSUME NEW S, IsFiniteSet(S), NEW R, OrderOn(R, S)
    PROVE  /\ Cardinality(S) \in Nat
           /\ \A x \in S : Cardinality(Below(x, R, S)) \in 0 .. Cardinality(S) - 1
           /\ \A i \in 1 .. Cardinality(S) :
                 \E x \in S : Cardinality(Below(x, R, S)) = i - 1
<1> DEFINE n == Cardinality(S)
           rank == [x \in S |-> Cardinality(Below(x, R, S))]
<1>1. n \in Nat
  BY FS_CardinalityType
<1>2. ASSUME NEW x \in S PROVE Cardinality(Below(x, R, S)) \in 0 .. n - 1
  <2>1. Below(x, R, S) \subseteq S \ {x}
    BY DEF Below, OrderOn
  <2>2. IsFiniteSet(S \ {x}) /\ Cardinality(S \ {x}) = n - 1
    BY FS_RemoveElement
  <2>3. /\ IsFiniteSet(Below(x, R, S))
        /\ Cardinality(Below(x, R, S)) <= n - 1
    BY <2>1, <2>2, FS_Subset
  <2>4. Cardinality(Below(x, R, S)) \in Nat
    BY <2>3, FS_CardinalityType
  <2> QED
    BY <1>1, <2>3, <2>4
<1>3. rank \in [S -> 0 .. n - 1]
  BY <1>2
<1>4. ASSUME NEW x \in S, NEW y \in S, rank[x] = rank[y] PROVE x = y
  <2>1. /\ <<x, y>> \in R => rank[x] < rank[y]
        /\ <<y, x>> \in R => rank[y] < rank[x]
    BY LowerIsLess
  <2>2. rank[x] \in Nat /\ rank[y] \in Nat
    BY <1>1, <1>3
  <2> QED
    BY <1>4, <2>1, <2>2 DEF OrderOn
<1>5. rank \in Injection(S, 0 .. n - 1)
  BY <1>3, <1>4 DEF Injection, IsInjective
<1>6. IsFiniteSet(0 .. n - 1) /\ Cardinality(0 .. n - 1) = n
  <2>1. 0 \in Int /\ n - 1 \in Int
    BY <1>1
  <2> QED
    BY <1>1, <2>1, FS_Interval
<1>7. rank \in Surjection(S, 0 .. n - 1)
  <2> HIDE DEF rank
  <2> QED
    BY <1>5, <1>6, FS_Injection
<1>8. ASSUME NEW i \in 1 .. n PROVE \E x \in S : Cardinality(Below(x, R, S)) = i - 1
  <2>1. i - 1 \in 0 .. n - 1
    BY <1>1
  <2> QED
    BY <1>7, <2>1 DEF Surjection
<1> QED
  BY <1>1, <1>2, <1>8

\* The list whose i-th member has i - 1 members below it is in order.
LEMMA RankedIsListed ==
    ASSUME NEW S, IsFiniteSet(S), NEW R, OrderOn(R, S),
           NEW s, s = [i \in 1 .. Cardinality(S) |-> s[i]],
           \A i \in 1 .. Cardinality(S) :
              (\E x \in S : Cardinality(Below(x, R, S)) = i - 1)
                => s[i] \in S /\ Cardinality(Below(s[i], R, S)) = i - 1
    PROVE  Lists(s, R, S)
<1>1. /\ Cardinality(S) \in Nat
      /\ \A x \in S : Cardinality(Below(x, R, S)) \in 0 .. Cardinality(S) - 1
  BY RanksAreAll
<1>2. \A i \in 1 .. Cardinality(S) : s[i] \in S /\ Cardinality(Below(s[i], R, S)) = i - 1
  BY RanksAreAll
<1>3. s \in [1 .. Cardinality(S) -> S]
  BY <1>2
<1>4. ASSUME NEW x \in S, NEW y \in S,
             Cardinality(Below(x, R, S)) <= Cardinality(Below(y, R, S))
      PROVE  x = y \/ <<x, y>> \in R
  <2>1. <<y, x>> \in R => Cardinality(Below(y, R, S)) < Cardinality(Below(x, R, S))
    BY LowerIsLess
  <2>2. Cardinality(Below(x, R, S)) \in Nat /\ Cardinality(Below(y, R, S)) \in Nat
    BY <1>1
  <2> QED
    BY <1>4, <2>1, <2>2 DEF OrderOn
<1>5. ASSUME NEW x \in S PROVE \E i \in 1 .. Cardinality(S) : s[i] = x
  <2>1. PICK r \in 0 .. Cardinality(S) - 1 : r = Cardinality(Below(x, R, S))
    BY <1>1
  <2>2. r + 1 \in 1 .. Cardinality(S) /\ (r + 1) - 1 = r
    BY <1>1
  <2>3. s[r + 1] \in S /\ Cardinality(Below(s[r + 1], R, S)) = r
    BY <1>2, <2>2
  <2>4. s[r + 1] = x
    <3>1. /\ Cardinality(Below(s[r + 1], R, S)) <= Cardinality(Below(x, R, S))
          /\ Cardinality(Below(x, R, S)) <= Cardinality(Below(s[r + 1], R, S))
      <4>1. r <= r
        BY <1>1
      <4> QED
        BY <2>1, <2>3, <4>1
    <3>2. s[r + 1] = x \/ <<s[r + 1], x>> \in R
      BY <1>4, <2>3, <3>1
    <3>3. x = s[r + 1] \/ <<x, s[r + 1]>> \in R
      BY <1>4, <2>3, <3>1
    <3> QED
      BY <2>3, <3>2, <3>3 DEF OrderOn
  <2> QED
    BY <2>2, <2>4
<1>6. ASSUME NEW i \in 1 .. Cardinality(S), NEW j \in 1 .. Cardinality(S), i < j
      PROVE  <<s[i], s[j]>> \in R
  <2>1. i - 1 <= j - 1 /\ i - 1 # j - 1
    BY <1>1, <1>6
  <2>2. s[i] = s[j] \/ <<s[i], s[j]>> \in R
    BY <1>2, <1>4, <2>1
  <2>3. s[i] # s[j]
    BY <1>2, <2>1
  <2> QED
    BY <2>2, <2>3
<1> QED
  BY <1>3, <1>5, <1>6 DEF Lists

\* A list in order has no member twice.
LEMMA ListedOnce ==
    ASSUME NEW S, NEW R, OrderOn(R, S), Cardinality(S) \in Nat, NEW s, Lists(s, R, S)
    PROVE  \A i, j \in 1 .. Cardinality(S) : s[i] = s[j] => i = j
<1> SUFFICES ASSUME NEW i \in 1 .. Cardinality(S), NEW j \in 1 .. Cardinality(S),
                    s[i] = s[j], i # j
             PROVE  FALSE
  OBVIOUS
<1>1. i < j \/ j < i
  OBVIOUS
<1>2. <<s[i], s[i]>> \in R
  BY <1>1 DEF Lists
<1> QED
  BY <1>2 DEF Lists, OrderOn

\* InOrder by < of a finite set of naturals.
LEMMA InOrderOfNumbers ==
    ASSUME NEW S \in SUBSET Nat, IsFiniteSet(S)
    PROVE  LET s == InOrder(S, <)
           IN  /\ s \in [1 .. Cardinality(S) -> S]
               /\ \A x \in S : \E i \in 1 .. Cardinality(S) : s[i] = x
               /\ \A i, j \in 1 .. Cardinality(S) : i < j => s[i] < s[j]
<1> DEFINE s == InOrder(S, <)
           R == {p \in S \X S : p[1] < p[2]}
<1>1. OrderOn(R, S)
  BY DEF OrderOn
<1>2. \A x \in S : Below(x, R, S) = {y \in S : y < x}
  BY DEF Below
<1>3. s = [i \in 1 .. Cardinality(S) |-> CHOOSE x \in S : Cardinality({y \in S : y < x}) = i - 1]
  BY DEF InOrder
<1>4. ASSUME NEW i \in 1 .. Cardinality(S),
             NEW x \in S, Cardinality(Below(x, R, S)) = i - 1
      PROVE  s[i] \in S /\ Cardinality(Below(s[i], R, S)) = i - 1
  <2>1. s[i] \in S /\ Cardinality({y \in S : y < s[i]}) = i - 1
    BY <1>2, <1>3, <1>4
  <2> QED
    BY <1>2, <2>1
<1>5. Lists(s, R, S)
  <2>1. s = [i \in 1 .. Cardinality(S) |-> s[i]]
    BY <1>3
  <2> HIDE DEF s, R
  <2> QED
    BY <1>1, <1>4, <2>1, RankedIsListed
<1> QED
  BY <1>5 DEF Lists

----------------------------------------------------------------------------
(* The weights of places and their sums *)

\* The equations of a fold, for values in Y.
FoldsWithin(g, Y, start, op, choose, S) ==
    /\ g[{}] = start
    /\ \A T \in SUBSET S : T # {} /\ g[T \ {choose[T]}] \in Y
          => g[T] = op[choose[T]][g[T \ {choose[T]}]]

\* What satisfies them has its values in Y.
LEMMA FoldType ==
    ASSUME NEW S, IsFiniteSet(S), NEW Y, NEW start \in Y, NEW op \in [S -> [Y -> Y]],
           NEW choose, Chooses(choose, S),
           NEW g, FoldsWithin(g, Y, start, op, choose, S)
    PROVE  \A T \in SUBSET S :
              /\ g[T] \in Y
              /\ T # {} => g[T] = op[choose[T]][g[T \ {choose[T]}]]
<1> DEFINE N == {n \in Nat : \A T \in SUBSET S : Cardinality(T) = n => g[T] \in Y}
<1>0. \A T \in SUBSET S : IsFiniteSet(T) /\ Cardinality(T) \in Nat
  BY FS_Subset, FS_CardinalityType
<1>1. 0 \in N
  <2>1. \A T \in SUBSET S : Cardinality(T) = 0 => T = {}
    BY <1>0, FS_EmptySet
  <2> QED
    BY <2>1 DEF FoldsWithin
<1>2. ASSUME NEW n \in Nat, n \in N PROVE n + 1 \in N
  <2> SUFFICES ASSUME NEW T \in SUBSET S, Cardinality(T) = n + 1 PROVE g[T] \in Y
    OBVIOUS
  <2>1. T # {} /\ IsFiniteSet(T)
    BY <1>0, FS_EmptySet
  <2>2. PICK x \in S : x = choose[T] /\ x \in T
    BY <2>1 DEF Chooses
  <2>3. Cardinality(T \ {x}) = n
    <3>1. Cardinality(T \ {x}) \in Nat /\ n + 1 = Cardinality(T \ {x}) + 1
      BY <2>1, <2>2, OneLess
    <3> QED
      BY <3>1
  <2>4. g[T \ {x}] \in Y
    BY <1>2, <2>3
  <2>5. g[T] = op[x][g[T \ {x}]]
    BY <2>1, <2>2, <2>4 DEF FoldsWithin
  <2>6. op[x] \in [Y -> Y]
    OBVIOUS
  <2> QED
    BY <2>4, <2>5, <2>6
<1>3. \A n \in Nat : n \in N
  <2> HIDE DEF N
  <2> QED
    BY <1>1, <1>2, NatSetInduction
<1>4. \A T \in SUBSET S : g[T] \in Y
  BY <1>0, <1>3
<1> QED
  <2>1. \A T \in SUBSET S : T # {} => T \ {choose[T]} \in SUBSET S
    OBVIOUS
  <2> QED
    BY <1>4, <2>1 DEF FoldsWithin

\* The denominators have a natural number as their product.
LEMMA UnitType == Unit \in Nat
<1> DEFINE S == RRF_K + 1 .. RRF_K + FETCH_CEILING
           Product(f) == [s \in SUBSET S |->
                            IF s = {} THEN 1
                            ELSE (CHOOSE x \in s : TRUE) * f[s \ {CHOOSE x \in s : TRUE}]]
           fold == CHOOSE f : f = Product(f)
           choose == [s \in SUBSET S |-> CHOOSE x \in s : TRUE]
           op == [x \in S |-> [n \in Nat |-> x * n]]
<1>1. RRF_K \in Nat /\ FETCH_CEILING \in Nat
  BY SearchAssumption
<1>2. IsFiniteSet(S) /\ S \in SUBSET Nat
  BY <1>1, FS_Interval
<1>3. op \in [S -> [Nat -> Nat]] /\ \A x \in S, n \in Nat : op[x][n] = x * n
  BY <1>2
<1>4. Chooses(choose, S)
  BY DEF Chooses
<1>5. \A start \in Nat : \E f \in [SUBSET S -> Nat] : IsFold(f, start, op, choose, S)
  <2> HIDE DEF op, choose, S
  <2> QED
    BY <1>2, <1>3, <1>4, FoldExists
<1>6. PICK f \in [SUBSET S -> Nat] : IsFold(f, 1, op, choose, S)
  BY <1>5
<1>7. ASSUME NEW T \in SUBSET S PROVE f[T] = Product(f)[T]
  <2>1. CASE T = {}
    BY <1>6, <2>1 DEF IsFold
  <2>2. CASE T # {}
    <3>1. f[T] = op[choose[T]][f[T \ {choose[T]}]]
      BY <1>6, <2>2 DEF IsFold
    <3>2. choose[T] \in S /\ T \ {choose[T]} \in SUBSET S /\ f[T \ {choose[T]}] \in Nat
      BY <1>4, <2>2 DEF Chooses
    <3>3. f[T] = choose[T] * f[T \ {choose[T]}]
      BY <1>3, <3>1, <3>2
    <3> QED
      BY <2>2, <3>3
  <2> QED
    BY <2>1, <2>2
<1>8. f = Product(f)
  BY <1>7
<1>9. fold = Product(fold)
  <2> HIDE DEF Product
  <2> QED
    BY <1>8
<1>10. Unit = fold[S]
  BY DEF Unit, FoldSet, MapThenFoldSet
<1>11. fold[{}] = 1
  BY <1>9
<1>12. FoldsWithin(fold, Nat, 1, op, choose, S)
  <2>1. ASSUME NEW T \in SUBSET S, T # {}, fold[T \ {choose[T]}] \in Nat
        PROVE  fold[T] = op[choose[T]][fold[T \ {choose[T]}]]
    <3>1. fold[T] = Product(fold)[T]
      BY <1>9
    <3>2. Product(fold)[T] = choose[T] * fold[T \ {choose[T]}]
      <4> HIDE DEF fold
      <4> QED
        BY <2>1
    <3>3. choose[T] \in S
      BY <1>4, <2>1 DEF Chooses
    <3> HIDE DEF fold, choose, op, Product
    <3> QED
      BY <1>3, <2>1, <3>1, <3>2, <3>3
  <2> QED
    BY <1>11, <2>1 DEF FoldsWithin
<1>13. \A T \in SUBSET S : fold[T] \in Nat
  <2>1. 1 \in Nat
    OBVIOUS
  <2> HIDE DEF fold, choose, op, S
  <2> QED
    BY <1>2, <1>3, <1>4, <1>12, <2>1, FoldType
<1> QED
  BY <1>10, <1>13

\* The weight of a place is a natural number.
LEMMA WeightType == \A i \in Nat \ {0} : Weight(i) \in Nat
<1> SUFFICES ASSUME NEW i \in Nat \ {0} PROVE Weight(i) \in Nat
  OBVIOUS
<1>1. Unit \in Nat /\ RRF_K + i \in Nat /\ RRF_K + i > 0
  BY UnitType, SearchAssumption
<1>2. \A u, d \in Nat : d > 0 => u \div d \in Nat
  OBVIOUS
<1> HIDE DEF Unit
<1> QED
  BY <1>1, <1>2 DEF Weight

\* g adds w over the members of a set, choose[T] first, for natural values.
Adds(g, w, choose, S) ==
    /\ g[{}] = 0
    /\ \A T \in SUBSET S : T # {} /\ g[T \ {choose[T]}] \in Nat
          => g[T] = w[choose[T]] + g[T \ {choose[T]}]

\* Such a g is the sum of w.
LEMMA AddingIsSum ==
    ASSUME NEW S, IsFiniteSet(S), NEW w \in [S -> Nat],
           NEW choose, Chooses(choose, S), NEW g, Adds(g, w, choose, S)
    PROVE  \E f : IsSum(f, w, S) /\ f[S] = g[S]
<1> DEFINE op == [x \in S |-> [n \in Nat |-> w[x] + n]]
           f == [T \in SUBSET S |-> g[T]]
<1>1. op \in [S -> [Nat -> Nat]] /\ \A x \in S, n \in Nat : op[x][n] = w[x] + n
  OBVIOUS
<1>2. FoldsWithin(g, Nat, 0, op, choose, S)
  <2>1. \A T \in SUBSET S : T # {} => choose[T] \in S
    BY DEF Chooses
  <2> HIDE DEF op
  <2> QED
    BY <1>1, <2>1 DEF FoldsWithin, Adds
<1>3. \A T \in SUBSET S : g[T] \in Nat
  <2>1. 0 \in Nat
    OBVIOUS
  <2> HIDE DEF op
  <2> QED
    BY <1>1, <1>2, <2>1, FoldType
<1>4. f \in [SUBSET S -> Nat] /\ f[{}] = 0 /\ f[S] = g[S]
  BY <1>3 DEF Adds
<1>5. \A T \in SUBSET S : T # {} => f[T] = w[choose[T]] + f[T \ {choose[T]}]
  <2>1. \A T \in SUBSET S : T \ {choose[T]} \in SUBSET S
    OBVIOUS
  <2> QED
    BY <1>3, <2>1 DEF Adds
<1>6. IsSum(f, w, S)
  <2> HIDE DEF f
  <2> QED
    BY <1>4, <1>5, FoldIsSum
<1> QED
  BY <1>4, <1>6

\* The weights of a set of places.
Weights(set) == [i \in set |-> Weight(i)]

\* SumOf is the sum of the weights.
LEMMA SumOfIsSum ==
    ASSUME NEW S \in SUBSET (Nat \ {0}), IsFiniteSet(S)
    PROVE  \E f : IsSum(f, Weights(S), S) /\ f[S] = SumOf(S)
<1> DEFINE w == Weights(S)
           Step(g) == [s \in SUBSET S |->
                        IF s = {} THEN 0
                        ELSE Weight(CHOOSE x \in s : TRUE) + g[s \ {CHOOSE x \in s : TRUE}]]
           fold == CHOOSE g : g = Step(g)
           choose == [s \in SUBSET S |-> CHOOSE x \in s : TRUE]
<1>1. w \in [S -> Nat] /\ \A x \in S : w[x] = Weight(x)
  BY WeightType DEF Weights
<1>2. Chooses(choose, S)
  BY DEF Chooses
<1>3. \E g : g = Step(g)
  <2>1. PICK g : IsSum(g, w, S)
    <3> HIDE DEF w
    <3> QED
      BY <1>1, SumExists
  <2>2. ASSUME NEW T \in SUBSET S, T # {} PROVE g[T] = w[choose[T]] + g[T \ {choose[T]}]
    BY <1>2, <2>1, <2>2 DEF IsSum, Chooses
  <2>3. ASSUME NEW T \in SUBSET S PROVE g[T] = Step(g)[T]
    <3>1. CASE T = {}
      BY <2>1, <3>1 DEF IsSum
    <3>2. CASE T # {}
      <4>1. choose[T] \in S /\ choose[T] = CHOOSE x \in T : TRUE
        BY <1>2, <3>2 DEF Chooses
      <4>2. w[choose[T]] = Weight(choose[T])
        BY <1>1, <4>1
      <4> HIDE DEF w
      <4> QED
        BY <2>2, <3>2, <4>1, <4>2
    <3> QED
      BY <3>1, <3>2
  <2>4. g = Step(g)
    <3>1. g = [T \in SUBSET S |-> g[T]]
      BY <2>1 DEF IsSum
    <3> QED
      BY <2>3, <3>1
  <2> QED
    BY <2>4
<1>4. fold = Step(fold)
  <2> HIDE DEF Step
  <2> QED
    BY <1>3
<1>5. SumOf(S) = fold[S]
  BY DEF SumOf, FoldSet, MapThenFoldSet
<1>6. fold[{}] = 0
  BY <1>4
<1>7. ASSUME NEW T \in SUBSET S, T # {} PROVE fold[T] = w[choose[T]] + fold[T \ {choose[T]}]
  <2>1. fold[T] = Step(fold)[T]
    BY <1>4
  <2>2. Step(fold)[T] = Weight(choose[T]) + fold[T \ {choose[T]}]
    <3> HIDE DEF fold
    <3>1. Step(fold)[T] = Weight(CHOOSE x \in T : TRUE) + fold[T \ {CHOOSE x \in T : TRUE}]
      BY <1>7
    <3>2. choose[T] = CHOOSE x \in T : TRUE
      OBVIOUS
    <3> HIDE DEF choose, Step
    <3> QED
      BY <3>1, <3>2
  <2>3. w[choose[T]] = Weight(choose[T])
    BY <1>1, <1>2, <1>7 DEF Chooses
  <2> HIDE DEF fold, choose, w, Step
  <2> QED
    BY <2>1, <2>2, <2>3
<1> HIDE DEF fold, choose, w, Step
<1>8. Adds(fold, w, choose, S) /\ w \in [S -> Nat]
  BY <1>1, <1>6, <1>7 DEF Adds
<1>9. \E f : IsSum(f, w, S) /\ f[S] = fold[S]
  BY <1>2, <1>8, AddingIsSum
<1> QED
  BY <1>5, <1>9 DEF w

\* A nonempty set of positions has a last one.
LEMMA MaxIsIn ==
    ASSUME NEW n \in Nat, NEW T \in SUBSET (1 .. n), T # {}
    PROVE  Max(T) \in T
<1> DEFINE Q == {U \in SUBSET (1 .. n) : U = {} \/ \E x \in U : \A y \in U : x >= y}
<1>1. IsFiniteSet(1 .. n)
  BY FS_Interval
<1>2. {} \in Q
  OBVIOUS
<1>3. ASSUME NEW U \in SUBSET (1 .. n), NEW x \in (1 .. n) \ U, U \in Q
      PROVE  U \cup {x} \in Q
  <2>1. CASE U = {}
    BY <2>1
  <2>2. CASE U # {}
    <3>1. PICK z \in U : \A y \in U : z >= y
      BY <1>3, <2>2
    <3>2. CASE z >= x
      BY <3>1, <3>2
    <3>3. CASE ~(z >= x)
      <4>1. \A y \in U \cup {x} : x >= y
        BY <3>1, <3>3
      <4> QED
        BY <4>1
    <3> QED
      BY <3>2, <3>3
  <2> QED
    BY <2>1, <2>2
<1>4. T \in Q
  <2> HIDE DEF Q
  <2> QED
    BY <1>1, <1>2, <1>3, SubsetInduction
<1> QED
  BY <1>4 DEF Max

\* The fold of rrf_fuse over the places seq of the pairs p.
FoldOf(p, seq) == FoldLeft(LAMBDA s, i : Accumulated(s, p[i][2]), 0, seq)

\* w are the weights of the places seq, n in number.
Weighs(w, n, p, seq) ==
    DOMAIN seq = 1 .. n /\ \A i \in 1 .. n : p[seq[i]][2] = w[i]

\* It is the sum of their weights.
LEMMA AccumulatedIsSum ==
    ASSUME NEW n \in Nat, NEW w \in [1 .. n -> Nat], NEW seq, NEW pairs,
           Weighs(w, n, pairs, seq)
    PROVE  \E f : IsSum(f, w, 1 .. n) /\ f[1 .. n] = FoldOf(pairs, seq)
<1>0. DOMAIN seq = 1 .. n /\ \A i \in 1 .. n : pairs[seq[i]][2] = w[i]
  BY DEF Weighs
<1> DEFINE S == 1 .. n
           Step(g) == [s \in SUBSET S |->
                        IF s = {} THEN 0
                        ELSE Accumulated(g[s \ {Max(s)}], pairs[seq[Max(s)]][2])]
           fold == CHOOSE g : g = Step(g)
           choose == [s \in SUBSET S |-> Max(s)]
<1>1. IsFiniteSet(S)
  BY FS_Interval
<1>2. Chooses(choose, S)
  BY MaxIsIn DEF Chooses
<1>3. \E g : g = Step(g)
  <2>1. PICK g : IsSum(g, w, S)
    BY <1>1, SumExists
  <2>2. ASSUME NEW T \in SUBSET S PROVE g[T] = Step(g)[T]
    <3>1. CASE T = {}
      BY <2>1, <3>1 DEF IsSum
    <3>2. CASE T # {}
      <4>1. Max(T) \in T /\ Max(T) \in S
        BY <1>2, <3>2 DEF Chooses
      <4>2. g[T] = w[Max(T)] + g[T \ {Max(T)}]
        BY <2>1, <4>1 DEF IsSum
      <4>3. w[Max(T)] \in Nat /\ g[T \ {Max(T)}] \in Nat
        BY <2>1, <4>1 DEF IsSum
      <4>4. pairs[seq[Max(T)]][2] = w[Max(T)]
        BY <1>0, <4>1
      <4>5. Accumulated(g[T \ {Max(T)}], pairs[seq[Max(T)]][2]) = w[Max(T)] + g[T \ {Max(T)}]
        BY <4>3, <4>4 DEF Accumulated
      <4> QED
        BY <3>2, <4>2, <4>5
    <3> QED
      BY <3>1, <3>2
  <2>3. g = [T \in SUBSET S |-> g[T]]
    BY <2>1 DEF IsSum
  <2>4. g = Step(g)
    BY <2>2, <2>3
  <2> QED
    BY <2>4
<1>4. fold = Step(fold)
  <2> HIDE DEF Step
  <2> QED
    BY <1>3
<1>5. fold[S] = FoldOf(pairs, seq)
  BY <1>0 DEF FoldOf, FoldLeft, MapThenFoldSet
<1>6. fold[{}] = 0
  BY <1>4
<1>7. ASSUME NEW T \in SUBSET S, T # {}, fold[T \ {choose[T]}] \in Nat
      PROVE  fold[T] = w[choose[T]] + fold[T \ {choose[T]}]
  <2>1. fold[T] = Step(fold)[T]
    BY <1>4
  <2>2. Step(fold)[T] = Accumulated(fold[T \ {choose[T]}], pairs[seq[choose[T]]][2])
    <3> HIDE DEF fold
    <3> QED
      BY <1>7
  <2>3. choose[T] \in S
    BY <1>2, <1>7 DEF Chooses
  <2>4. pairs[seq[choose[T]]][2] = w[choose[T]] /\ w[choose[T]] \in Nat
    BY <1>0, <2>3
  <2> HIDE DEF fold, choose, Step
  <2> QED
    BY <1>7, <2>1, <2>2, <2>4 DEF Accumulated
<1> HIDE DEF fold, choose, Step
<1>8. Adds(fold, w, choose, S) /\ w \in [S -> Nat]
  BY <1>6, <1>7 DEF Adds
<1> HIDE DEF S
<1>9. \E f : IsSum(f, w, S) /\ f[S] = fold[S]
  BY <1>1, <1>2, <1>8, AddingIsSum
<1> QED
  BY <1>5, <1>9 DEF S

\* One ranking with its weights.
Pairs(seq) == [i \in 1 .. Len(seq) |-> <<seq[i], Weight(i)>>]

\* The pairs of two rankings, one after the other.
PairsOf(v, t) == Pairs(v) \o Pairs(t)

\* The two loops of rrf_fuse go over these pairs.
LEMMA WeightedIsPairs ==
    ASSUME NEW v \in Seq(Rows), NEW t \in Seq(Rows)
    PROVE  Weighted(<<v, t>>) = PairsOf(v, t)
<1> DEFINE seqs == [r \in 1 .. Len(<<v, t>>) |->
                      [i \in 1 .. Len(<<v, t>>[r]) |-> <<<<v, t>>[r][i], Weight(i)>>]]
           Step(f) == [i \in 1 .. Len(seqs) |->
                         IF i = 1 THEN seqs[i] ELSE f[i - 1] \o seqs[i]]
           flatten == CHOOSE f : f = Step(f)
           g == [i \in 1 .. 2 |-> IF i = 1 THEN Pairs(v) ELSE PairsOf(v, t)]
<1>1. seqs[1] = Pairs(v) /\ seqs[2] = Pairs(t) /\ Len(seqs) = 2
  <2>1. Len(<<v, t>>) = 2 /\ <<v, t>>[1] = v /\ <<v, t>>[2] = t
    OBVIOUS
  <2>2. seqs = [r \in 1 .. 2 |-> [i \in 1 .. Len(<<v, t>>[r]) |-> <<<<v, t>>[r][i], Weight(i)>>]]
    BY <2>1
  <2>3. seqs[1] = Pairs(v) /\ seqs[2] = Pairs(t)
    BY <2>1, <2>2 DEF Pairs
  <2>4. Len([r \in 1 .. 2 |-> [i \in 1 .. Len(<<v, t>>[r]) |-> <<<<v, t>>[r][i], Weight(i)>>]]) = 2
    OBVIOUS
  <2> QED
    BY <2>2, <2>3, <2>4
<1>2. Weighted(<<v, t>>) = flatten[2]
  <2>1. Weighted(<<v, t>>) = IF Len(seqs) = 0 THEN seqs ELSE flatten[Len(seqs)]
    BY DEF Weighted, FlattenSeq
  <2> HIDE DEF seqs, flatten
  <2> QED
    BY <1>1, <2>1
<1> HIDE DEF seqs
<1>3. g = Step(g)
  <2>1. ASSUME NEW i \in 1 .. 2
        PROVE  g[i] = IF i = 1 THEN seqs[i] ELSE g[i - 1] \o seqs[i]
    <3>1. CASE i = 1
      BY <1>1, <3>1
    <3>2. CASE i = 2
      BY <1>1, <3>2 DEF PairsOf
    <3> QED
      BY <3>1, <3>2
  <2> QED
    BY <1>1, <2>1
<1>4. flatten = Step(flatten)
  <2> HIDE DEF Step
  <2> QED
    BY <1>3
<1>5. flatten[1] = seqs[1] /\ flatten[2] = flatten[1] \o seqs[2]
  <2> HIDE DEF flatten
  <2>1. flatten = [i \in 1 .. 2 |-> IF i = 1 THEN seqs[i] ELSE flatten[i - 1] \o seqs[i]]
    BY <1>1, <1>4
  <2>2. 1 \in 1 .. 2 /\ 2 \in 1 .. 2 /\ 2 # 1 /\ 2 - 1 = 1
    OBVIOUS
  <2>3. flatten[1] = seqs[1]
    BY <2>1, <2>2
  <2>4. flatten[2] = flatten[2 - 1] \o seqs[2]
    BY <2>1, <2>2
  <2> QED
    BY <2>2, <2>3, <2>4
<1> QED
  BY <1>1, <1>2, <1>5 DEF PairsOf

\* The rows and the weights of the pairs.
LEMMA PairsOfRankings ==
    ASSUME NEW v \in Seq(Rows), NEW t \in Seq(Rows)
    PROVE  /\ Len(PairsOf(v, t)) = Len(v) + Len(t)
           /\ Len(v) \in Nat /\ Len(t) \in Nat
           /\ \A i \in 1 .. Len(v) : PairsOf(v, t)[i] = <<v[i], Weight(i)>>
           /\ \A j \in 1 .. Len(t) : PairsOf(v, t)[Len(v) + j] = <<t[j], Weight(j)>>
           /\ \A i \in 1 .. Len(v) + Len(t) :
                 \/ i \in 1 .. Len(v)
                 \/ \E j \in 1 .. Len(t) : i = Len(v) + j
           /\ \A i \in 1 .. Len(v) + Len(t) :
                 PairsOf(v, t)[i][1] \in Rows /\ PairsOf(v, t)[i][2] \in Nat
<1>1. Len(v) \in Nat /\ Len(t) \in Nat
  OBVIOUS
<1>2. ASSUME NEW s \in Seq(Rows) PROVE Pairs(s) \in Seq(Rows \X Nat) /\ Len(Pairs(s)) = Len(s)
  <2>1. \A i \in 1 .. Len(s) : <<s[i], Weight(i)>> \in Rows \X Nat
    BY WeightType
  <2> QED
    BY <2>1 DEF Pairs
<1>3. /\ Len(PairsOf(v, t)) = Len(v) + Len(t)
      /\ \A i \in 1 .. Len(v) : PairsOf(v, t)[i] = <<v[i], Weight(i)>>
      /\ \A j \in 1 .. Len(t) : PairsOf(v, t)[Len(v) + j] = <<t[j], Weight(j)>>
  <2>1. /\ Len(Pairs(v) \o Pairs(t)) = Len(v) + Len(t)
        /\ \A i \in 1 .. Len(v) : (Pairs(v) \o Pairs(t))[i] = Pairs(v)[i]
        /\ \A j \in 1 .. Len(t) : (Pairs(v) \o Pairs(t))[Len(v) + j] = Pairs(t)[j]
    <3>1. /\ Pairs(v) \in Seq(Rows \X Nat) /\ Len(Pairs(v)) = Len(v)
          /\ Pairs(t) \in Seq(Rows \X Nat) /\ Len(Pairs(t)) = Len(t)
      BY <1>2
    <3>2. PICK p \in Seq(Rows \X Nat) : p = Pairs(v)
      BY <3>1
    <3>3. PICK q \in Seq(Rows \X Nat) : q = Pairs(t)
      BY <3>1
    <3>4. /\ Len(p \o q) = Len(p) + Len(q)
          /\ \A i \in 1 .. Len(p) : (p \o q)[i] = p[i]
          /\ \A j \in 1 .. Len(q) : (p \o q)[Len(p) + j] = q[j]
      OBVIOUS
    <3> QED
      BY <3>1, <3>2, <3>3, <3>4
  <2> QED
    BY <2>1 DEF PairsOf, Pairs
<1>4. ASSUME NEW i \in 1 .. Len(v) + Len(t)
      PROVE  i \in 1 .. Len(v) \/ \E j \in 1 .. Len(t) : i = Len(v) + j
  <2>1. CASE i <= Len(v)
    BY <1>1, <2>1
  <2>2. CASE i > Len(v)
    <3>1. i - Len(v) \in 1 .. Len(t) /\ i = Len(v) + (i - Len(v))
      BY <1>1, <2>2
    <3> QED
      BY <3>1
  <2> QED
    BY <1>1, <2>1, <2>2
<1>5. /\ \A i \in 1 .. Len(v) : v[i] \in Rows /\ Weight(i) \in Nat
      /\ \A i \in 1 .. Len(t) : t[i] \in Rows /\ Weight(i) \in Nat
  BY WeightType
<1>6. ASSUME NEW i \in 1 .. Len(v) + Len(t)
      PROVE  PairsOf(v, t)[i][1] \in Rows /\ PairsOf(v, t)[i][2] \in Nat
  <2>1. CASE i \in 1 .. Len(v)
    BY <1>3, <1>5, <2>1
  <2>2. CASE \E j \in 1 .. Len(t) : i = Len(v) + j
    BY <1>3, <1>5, <2>2
  <2> QED
    BY <1>4, <2>1, <2>2
<1> QED
  BY <1>1, <1>3, <1>4, <1>6

\* The places of a key among the pairs.
PlacesOf(p, key) == {i \in 1 .. Len(p) : Key(p[i][1]) = key}

\* They are its places in one ranking and, after these, in the other.
LEMMA PlacesOfPairs ==
    ASSUME NEW v \in Seq(Rows), NEW t \in Seq(Rows), NEW key
    PROVE  /\ PlacesOf(PairsOf(v, t), key)
                = Places(v, key) \cup {Len(v) + j : j \in Places(t, key)}
           /\ Places(v, key) \cap {Len(v) + j : j \in Places(t, key)} = {}
<1> DEFINE p == PairsOf(v, t)
           A == Places(v, key)
           B == {Len(v) + j : j \in Places(t, key)}
<1> HIDE DEF p
<1>1. /\ Len(p) = Len(v) + Len(t)
      /\ Len(v) \in Nat /\ Len(t) \in Nat
      /\ \A i \in 1 .. Len(v) : p[i] = <<v[i], Weight(i)>>
      /\ \A j \in 1 .. Len(t) : p[Len(v) + j] = <<t[j], Weight(j)>>
      /\ \A i \in 1 .. Len(v) + Len(t) :
            \/ i \in 1 .. Len(v)
            \/ \E j \in 1 .. Len(t) : i = Len(v) + j
  BY PairsOfRankings DEF p
<1>2. /\ \A i \in 1 .. Len(v) : i \in 1 .. Len(p) /\ p[i][1] = v[i]
      /\ \A j \in 1 .. Len(t) : Len(v) + j \in 1 .. Len(p) /\ p[Len(v) + j][1] = t[j]
  BY <1>1
<1>3. ASSUME NEW i \in PlacesOf(p, key) PROVE i \in A \cup B
  <2>1. i \in 1 .. Len(v) + Len(t) /\ Key(p[i][1]) = key
    BY <1>1 DEF PlacesOf
  <2>2. CASE i \in 1 .. Len(v)
    BY <1>2, <2>1, <2>2 DEF Places
  <2>3. CASE \E j \in 1 .. Len(t) : i = Len(v) + j
    BY <1>2, <2>1, <2>3 DEF Places
  <2> QED
    BY <1>1, <2>1, <2>2, <2>3
<1>4. ASSUME NEW i \in A PROVE i \in PlacesOf(p, key)
  BY <1>2 DEF PlacesOf, Places
<1>5. ASSUME NEW j \in Places(t, key) PROVE Len(v) + j \in PlacesOf(p, key)
  BY <1>2 DEF PlacesOf, Places
<1>6. \A i \in A, j \in Places(t, key) : i # Len(v) + j
  BY <1>1 DEF Places
<1> QED
  BY <1>3, <1>4, <1>5, <1>6 DEF p

\* InOrder by < of a set of numbers.
Ascending(S) ==
    [i \in 1 .. Cardinality(S) |->
        CHOOSE x \in S : Cardinality({y \in S : y < x}) = i - 1]

\* s lists the numbers S from the lowest to the highest.
IsAscending(s, S) ==
    /\ s \in [1 .. Cardinality(S) -> S]
    /\ \A x \in S : \E i \in 1 .. Cardinality(S) : s[i] = x
    /\ \A i, j \in 1 .. Cardinality(S) : i < j => s[i] < s[j]

\* Ascending lists the numbers from the lowest to the highest.
LEMMA AscendingInOrder ==
    ASSUME NEW S \in SUBSET Nat, IsFiniteSet(S)
    PROVE  IsAscending(Ascending(S), S)
  BY InOrderOfNumbers DEF InOrder, Ascending, IsAscending

\* The score of a key over the pairs p.
ScoreOf(p, key) == FoldOf(p, Ascending(PlacesOf(p, key)))

\* It is the sum of the weights of its places.
LEMMA ScoreOfIsSum ==
    ASSUME NEW v \in Seq(Rows), NEW t \in Seq(Rows), NEW key
    PROVE  /\ ScoreOf(PairsOf(v, t), key) = SumOf(Places(v, key)) + SumOf(Places(t, key))
           /\ SumOf(Places(v, key)) \in Nat /\ SumOf(Places(t, key)) \in Nat
<1>1. PICK p : p = PairsOf(v, t)
  OBVIOUS
<1>2. /\ Len(p) = Len(v) + Len(t)
      /\ Len(v) \in Nat /\ Len(t) \in Nat
      /\ \A i \in 1 .. Len(v) : p[i] = <<v[i], Weight(i)>>
      /\ \A j \in 1 .. Len(t) : p[Len(v) + j] = <<t[j], Weight(j)>>
      /\ \A i \in 1 .. Len(p) : p[i][1] \in Rows /\ p[i][2] \in Nat
  BY <1>1, PairsOfRankings
<1>3. PICK A, B, C, K : /\ A = Places(v, key) /\ B = Places(t, key)
                        /\ C = {Len(v) + j : j \in B} /\ K = PlacesOf(p, key)
  OBVIOUS
<1>4. Parts(K, A, C)
  BY <1>1, <1>3, PlacesOfPairs DEF Parts
<1>5. /\ A \subseteq 1 .. Len(v) /\ B \subseteq 1 .. Len(t) /\ K \subseteq 1 .. Len(p)
      /\ IsFiniteSet(A) /\ IsFiniteSet(B) /\ IsFiniteSet(K)
  <2>1. A \subseteq 1 .. Len(v) /\ B \subseteq 1 .. Len(t) /\ K \subseteq 1 .. Len(p)
    BY <1>3 DEF Places, PlacesOf
  <2>2. /\ IsFiniteSet(1 .. Len(v)) /\ IsFiniteSet(1 .. Len(t))
        /\ IsFiniteSet(1 .. Len(p))
    <3>1. Len(v) \in Int /\ Len(t) \in Int /\ Len(p) \in Int /\ 1 \in Int
      BY <1>2
    <3> QED
      BY <3>1, FS_Interval
  <2> QED
    BY <2>1, <2>2, FS_Subset
<1>6. PICK D : D = 1 .. Len(p)
  OBVIOUS
<1>7. PICK w \in [D -> Nat] : \A i \in D : w[i] = p[i][2]
  <2>1. [i \in D |-> p[i][2]] \in [D -> Nat]
    BY <1>2, <1>6
  <2> QED
    BY <2>1
<1>8. IsFiniteSet(D) /\ A \subseteq D /\ C \subseteq D /\ K \subseteq D
  <2>1. IsFiniteSet(D)
    BY <1>2, <1>6, FS_Interval
  <2> QED
    BY <1>4, <1>5, <1>6, <2>1 DEF Parts
<1>9. PICK g : IsSum(g, w, D)
  BY <1>8, SumExists
<1>10. g[K] = g[A] + g[C] /\ g[A] \in Nat /\ g[C] \in Nat
  <2>1. g[K] = g[A] + g[C]
    <3>1. K \in SUBSET D /\ IsFiniteSet(K)
      BY <1>5, <1>8
    <3> QED
      BY <1>4, <1>9, <3>1, SumParts
  <2> QED
    BY <1>8, <1>9, <2>1 DEF IsSum
<1>11. SumOf(A) = g[A]
  <2>1. A \in SUBSET (Nat \ {0})
    BY <1>2, <1>5
  <2>2. PICK f : IsSum(f, Weights(A), A) /\ f[A] = SumOf(A)
    BY <1>5, <2>1, SumOfIsSum
  <2>3. PICK b \in [A -> A] : \A x \in A : b[x] = x
    <3>1. [x \in A |-> x] \in [A -> A]
      OBVIOUS
    <3> QED
      BY <3>1
  <2>4. \A x \in A : Weights(A)[x] = w[b[x]]
    <3>1. \A x \in A : p[x][2] = Weight(x)
      BY <1>2, <1>5
    <3>2. \A x \in A : w[b[x]] = p[x][2]
      BY <1>7, <1>8, <2>3
    <3> QED
      BY <3>1, <3>2 DEF Weights
  <2>5. \A x, y \in A : b[x] = b[y] => x = y
    BY <2>3
  <2>6. f[A] = g[A]
    <3>1. Transports(b, A, Weights(A), A, w)
      BY <1>3, <2>3, <2>4, <2>5 DEF Transports
    <3>2. IsFiniteSet(A) /\ A \in SUBSET D
      BY <1>5, <1>8
    <3> QED
      BY <1>9, <2>2, <3>1, <3>2, SumTransport
  <2> QED
    BY <2>2, <2>6
<1>12. SumOf(B) = g[C]
  <2>1. B \in SUBSET (Nat \ {0})
    BY <1>2, <1>5
  <2>2. PICK f : IsSum(f, Weights(B), B) /\ f[B] = SumOf(B)
    BY <1>5, <2>1, SumOfIsSum
  <2>3. PICK b \in [B -> C] : \A x \in B : b[x] = Len(v) + x
    <3>1. \A x \in B : Len(v) + x \in C
      BY <1>3
    <3>2. [x \in B |-> Len(v) + x] \in [B -> C]
      BY <3>1
    <3> QED
      BY <3>2
  <2>4. \A x \in B : Weights(B)[x] = w[b[x]]
    <3>1. \A x \in B : p[Len(v) + x][2] = Weight(x)
      BY <1>2, <1>5
    <3>2. \A x \in B : w[b[x]] = p[Len(v) + x][2]
      BY <1>7, <1>8, <2>3
    <3> QED
      BY <3>1, <3>2 DEF Weights
  <2>5. \A x, y \in B : b[x] = b[y] => x = y
    BY <1>2, <2>1, <2>3
  <2>6. f[B] = g[C]
    <3>1. Transports(b, B, Weights(B), C, w)
      BY <1>3, <2>3, <2>4, <2>5 DEF Transports
    <3>2. IsFiniteSet(B) /\ C \in SUBSET D
      BY <1>5, <1>8
    <3> QED
      BY <1>9, <2>2, <3>1, <3>2, SumTransport
  <2> QED
    BY <2>2, <2>6
<1>13. ScoreOf(p, key) = g[K]
  <2>1. PICK n \in Nat : n = Cardinality(K)
    BY <1>5, FS_CardinalityType
  <2>2. PICK s : s = Ascending(K)
    OBVIOUS
  <2>3. /\ s \in [1 .. n -> K]
        /\ \A x \in K : \E i \in 1 .. n : s[i] = x
        /\ \A i, j \in 1 .. n : i < j => s[i] < s[j]
    <3>1. K \in SUBSET Nat
      BY <1>2, <1>5
    <3>2. IsAscending(s, K)
      BY <1>5, <2>2, <3>1, AscendingInOrder
    <3> QED
      BY <2>1, <3>2 DEF IsAscending
  <2>7. IsFiniteSet(1 .. n) /\ s \in [1 .. n -> D]
    <3>1. IsFiniteSet(1 .. n)
      BY FS_Interval
    <3> QED
      BY <1>8, <2>3, <3>1
  <2>4. \A i, j \in 1 .. n : s[i] = s[j] => i = j
    <3> SUFFICES ASSUME NEW i \in 1 .. n, NEW j \in 1 .. n, s[i] = s[j], i # j PROVE FALSE
      OBVIOUS
    <3>1. s[i] \in Nat
      BY <1>6, <2>3, <2>7
    <3>2. s[i] < s[i]
      BY <2>3
    <3> QED
      BY <3>1, <3>2
  <2>5. PICK u \in [1 .. n -> Nat] : \A i \in 1 .. n : u[i] = p[s[i]][2]
    <3>1. \A i \in 1 .. n : p[s[i]][2] \in Nat
      BY <1>2, <1>5, <2>3
    <3>2. [i \in 1 .. n |-> p[s[i]][2]] \in [1 .. n -> Nat]
      BY <3>1
    <3> QED
      BY <3>2
  <2>6. PICK f : IsSum(f, u, 1 .. n) /\ f[1 .. n] = FoldOf(p, s)
    <3>1. Weighs(u, n, p, s)
      BY <2>3, <2>5 DEF Weighs
    <3> QED
      BY <3>1, AccumulatedIsSum
  <2>8. \A i \in 1 .. n : u[i] = w[s[i]]
    BY <1>7, <2>5, <2>7
  <2>9. f[1 .. n] = g[K]
    <3>1. Transports(s, 1 .. n, u, K, w)
      BY <2>3, <2>4, <2>8 DEF Transports
    <3> QED
      BY <1>8, <1>9, <2>6, <2>7, <3>1, SumTransport
  <2> QED
    BY <1>3, <2>2, <2>6, <2>9 DEF ScoreOf
<1> QED
  BY <1>1, <1>3, <1>10, <1>11, <1>12, <1>13

\* The keys of two rankings.
RankedKeys(v, t) ==
    {Key(v[i]) : i \in 1 .. Len(v)} \cup {Key(t[i]) : i \in 1 .. Len(t)}

\* The entry of a key in the dictionary scores.
Entry(p, key) ==
    [key |-> key,
     score |-> ScoreOf(p, key),
     row |-> p[Last(Ascending(PlacesOf(p, key)))][1],
     born |-> Ascending(PlacesOf(p, key))[1]]

\* What an entry says of its key: its fused score and a row that has the key.
EntryFacts(e, v, t) ==
    /\ e.key \in RankedKeys(v, t)
    /\ e.score = SumOf(Places(v, e.key)) + SumOf(Places(t, e.key))
    /\ e.score \in Nat
    /\ e.born \in Nat
    /\ Key(e.row) = e.key
    /\ (\E i \in 1 .. Len(v) : e.row = v[i]) \/ (\E i \in 1 .. Len(t) : e.row = t[i])

\* The entry that the loops leave for a key says so.
LEMMA EntryIsRight ==
    ASSUME NEW v \in Seq(Rows), NEW t \in Seq(Rows), NEW key \in RankedKeys(v, t)
    PROVE  /\ EntryFacts(Entry(PairsOf(v, t), key), v, t)
           /\ Entry(PairsOf(v, t), key).key = key
           /\ Entry(PairsOf(v, t), key).born \in PlacesOf(PairsOf(v, t), key)
<1>1. PICK p : p = PairsOf(v, t)
  OBVIOUS
<1>2. /\ Len(p) = Len(v) + Len(t)
      /\ Len(v) \in Nat /\ Len(t) \in Nat
      /\ \A i \in 1 .. Len(v) : p[i] = <<v[i], Weight(i)>>
      /\ \A j \in 1 .. Len(t) : p[Len(v) + j] = <<t[j], Weight(j)>>
      /\ \A i \in 1 .. Len(p) :
            \/ i \in 1 .. Len(v)
            \/ \E j \in 1 .. Len(t) : i = Len(v) + j
  BY <1>1, PairsOfRankings
<1>3. PICK K : K = PlacesOf(p, key)
  OBVIOUS
<1>4. K \subseteq 1 .. Len(p) /\ K \in SUBSET Nat /\ IsFiniteSet(K)
  <2>1. IsFiniteSet(1 .. Len(p))
    BY <1>2, FS_Interval
  <2> QED
    BY <1>2, <1>3, <2>1, FS_Subset DEF PlacesOf
<1>5. K # {}
  <2>1. CASE \E i \in 1 .. Len(v) : key = Key(v[i])
    <3>1. PICK i \in 1 .. Len(v) : key = Key(v[i])
      BY <2>1
    <3>2. i \in 1 .. Len(p) /\ p[i][1] = v[i]
      BY <1>2
    <3> QED
      BY <1>3, <3>1, <3>2 DEF PlacesOf
  <2>2. CASE \E j \in 1 .. Len(t) : key = Key(t[j])
    <3>1. PICK j \in 1 .. Len(t) : key = Key(t[j])
      BY <2>2
    <3>2. Len(v) + j \in 1 .. Len(p) /\ p[Len(v) + j][1] = t[j]
      BY <1>2
    <3> QED
      BY <1>3, <3>1, <3>2 DEF PlacesOf
  <2> QED
    BY <2>1, <2>2 DEF RankedKeys
<1>6. PICK n \in Nat \ {0} : n = Cardinality(K)
  BY <1>4, <1>5, FS_CardinalityType, FS_EmptySet
<1>7. PICK s : s = Ascending(K)
  OBVIOUS
<1>8. s \in [1 .. n -> K] /\ Len(s) = n
  <2>1. s \in [1 .. n -> K]
    BY <1>4, <1>6, <1>7, AscendingInOrder DEF IsAscending
  <2>2. s \in Seq(K)
    BY <2>1
  <2> QED
    BY <2>1, <2>2
<1>9. s[1] \in K /\ Last(s) \in K
  <2>1. 1 \in 1 .. n /\ n \in 1 .. n
    BY <1>6
  <2> QED
    BY <1>8, <2>1 DEF Last
<1>10. PICK e : e = Entry(p, key)
  OBVIOUS
<1>11. e.key = key /\ e.score = ScoreOf(p, key) /\ e.row = p[Last(s)][1] /\ e.born = s[1]
  BY <1>3, <1>7, <1>10 DEF Entry
<1>12. Key(e.row) = key
  BY <1>3, <1>9, <1>11 DEF PlacesOf
<1>13. (\E i \in 1 .. Len(v) : e.row = v[i]) \/ (\E i \in 1 .. Len(t) : e.row = t[i])
  <2>1. Last(s) \in 1 .. Len(p)
    BY <1>4, <1>9
  <2>2. CASE Last(s) \in 1 .. Len(v)
    BY <1>2, <1>11, <2>2
  <2>3. CASE \E j \in 1 .. Len(t) : Last(s) = Len(v) + j
    BY <1>2, <1>11, <2>3
  <2> QED
    BY <1>2, <2>1, <2>2, <2>3
<1>14. /\ e.score = SumOf(Places(v, key)) + SumOf(Places(t, key))
       /\ e.score \in Nat
  BY <1>1, <1>11, ScoreOfIsSum
<1>15. EntryFacts(e, v, t)
  BY <1>4, <1>9, <1>11, <1>12, <1>13, <1>14 DEF EntryFacts
<1> QED
  BY <1>1, <1>3, <1>9, <1>10, <1>11, <1>15

\* The dictionary is the set of the entries.
LEMMA ScoresAre ==
    ASSUME NEW rankings, NEW p, p = Weighted(rankings)
    PROVE  Scores(rankings) = {Entry(p, key) : key \in {Key(p[i][1]) : i \in 1 .. Len(p)}}
  BY DEF Scores, InOrder, Ascending, PlacesOf, Entry, ScoreOf, FoldOf

\* S is the dictionary scores of two rankings: an entry for each key.
AreEntries(S, v, t) ==
    /\ IsFiniteSet(S)
    /\ \A e \in S : EntryFacts(e, v, t)
    /\ \A d, e \in S : d.key = e.key => d = e
    /\ \A d, e \in S : d.born = e.born => d = e
    /\ \A key \in RankedKeys(v, t) : \E e \in S : e.key = key
    /\ Cardinality(S) = Cardinality(RankedKeys(v, t))

\* The dictionary that rrf_fuse builds has each key of the rankings once.
LEMMA ScoresAreEntries ==
    ASSUME NEW v \in Seq(Rows), NEW t \in Seq(Rows)
    PROVE  AreEntries(Scores(<<v, t>>), v, t)
<1>1. PICK p : p = PairsOf(v, t)
  OBVIOUS
<1>2. PICK Keys : Keys = RankedKeys(v, t)
  OBVIOUS
<1>3. Keys = {Key(p[i][1]) : i \in 1 .. Len(p)}
  <2>1. /\ Len(p) = Len(v) + Len(t)
        /\ Len(v) \in Nat /\ Len(t) \in Nat
        /\ \A i \in 1 .. Len(v) : p[i] = <<v[i], Weight(i)>>
        /\ \A j \in 1 .. Len(t) : p[Len(v) + j] = <<t[j], Weight(j)>>
        /\ \A i \in 1 .. Len(v) + Len(t) :
              \/ i \in 1 .. Len(v)
              \/ \E j \in 1 .. Len(t) : i = Len(v) + j
    BY <1>1, PairsOfRankings
  <2>2. /\ \A i \in 1 .. Len(v) : i \in 1 .. Len(p) /\ p[i][1] = v[i]
        /\ \A j \in 1 .. Len(t) : Len(v) + j \in 1 .. Len(p) /\ p[Len(v) + j][1] = t[j]
    BY <2>1
  <2>3. ASSUME NEW key \in Keys PROVE \E i \in 1 .. Len(p) : key = Key(p[i][1])
    <3>1. CASE \E i \in 1 .. Len(v) : key = Key(v[i])
      BY <2>2, <3>1
    <3>2. CASE \E j \in 1 .. Len(t) : key = Key(t[j])
      BY <2>2, <3>2
    <3> QED
      BY <1>2, <3>1, <3>2 DEF RankedKeys
  <2>4. ASSUME NEW i \in 1 .. Len(p) PROVE Key(p[i][1]) \in Keys
    <3>1. CASE i \in 1 .. Len(v)
      BY <1>2, <2>2, <3>1 DEF RankedKeys
    <3>2. CASE \E j \in 1 .. Len(t) : i = Len(v) + j
      BY <1>2, <2>2, <3>2 DEF RankedKeys
    <3> QED
      BY <2>1, <3>1, <3>2
  <2> QED
    BY <2>3, <2>4
<1>4. IsFiniteSet(Keys)
  <2>1. IsFiniteSet(1 .. Len(p))
    BY <1>1, PairsOfRankings, FS_Interval
  <2> DEFINE f == [i \in 1 .. Len(p) |-> Key(p[i][1])]
  <2>2. f \in Surjection(1 .. Len(p), Keys)
    BY <1>3 DEF Surjection
  <2> HIDE DEF f
  <2> QED
    BY <2>1, <2>2, FS_Surjection
<1>5. PICK S : S = Scores(<<v, t>>)
  OBVIOUS
<1>6. S = {Entry(p, key) : key \in Keys}
  BY <1>1, <1>3, <1>5, WeightedIsPairs, ScoresAre
<1>7. \A key \in Keys : /\ EntryFacts(Entry(p, key), v, t)
                        /\ Entry(p, key).key = key
                        /\ Entry(p, key).born \in PlacesOf(p, key)
  BY <1>1, <1>2, EntryIsRight
<1>8. ASSUME NEW d \in S, NEW e \in S, d.key = e.key PROVE d = e
  BY <1>6, <1>7, <1>8
<1>9. ASSUME NEW d \in S, NEW e \in S, d.born = e.born PROVE d = e
  <2>1. PICK k \in Keys : d = Entry(p, k)
    BY <1>6
  <2>2. PICK l \in Keys : e = Entry(p, l)
    BY <1>6
  <2>3. d.born \in PlacesOf(p, k) /\ e.born \in PlacesOf(p, l)
    BY <1>7, <2>1, <2>2
  <2>4. k = l
    BY <1>9, <2>3 DEF PlacesOf
  <2> QED
    BY <2>1, <2>2, <2>4
<1>10. IsFiniteSet(S) /\ Cardinality(S) = Cardinality(Keys)
  <2> DEFINE f == [key \in Keys |-> Entry(p, key)]
  <2>1. f \in [Keys -> S] /\ \A e \in S : \E key \in Keys : f[key] = e
    BY <1>6
  <2>2. \A k, l \in Keys : f[k] = f[l] => k = l
    BY <1>7
  <2>3. f \in Bijection(Keys, S)
    <3> HIDE DEF f
    <3> QED
      BY <2>1, <2>2 DEF Bijection, Injection, Surjection, IsInjective
  <2>4. \E b \in Bijection(Keys, S) : TRUE
    BY <2>3
  <2> QED
    BY <1>4, <2>4, FS_Bijection DEF ExistsBijection
<1>11. \A key \in Keys : \E e \in S : e.key = key
  BY <1>6, <1>7
<1>12. \A e \in S : EntryFacts(e, v, t)
  BY <1>6, <1>7
<1> QED
  BY <1>2, <1>5, <1>8, <1>9, <1>10, <1>11, <1>12 DEF AreEntries

\* InOrder by BestFirst of a set of entries.
ByScore(S) ==
    [i \in 1 .. Cardinality(S) |->
        CHOOSE x \in S : Cardinality({y \in S : BestFirst(y, x)}) = i - 1]

\* f lists the k best entries of S, each once.
AreBest(f, S, k) ==
    /\ f \in Seq(S)
    /\ Len(f) = Min2(k, Cardinality(S))
    /\ \A i, j \in 1 .. Len(f) : i < j => f[i] # f[j] /\ f[i].score >= f[j].score
    /\ \A e \in S : \/ \E i \in 1 .. Len(f) : f[i] = e
                    \/ \A i \in 1 .. Len(f) : f[i].score >= e.score

\* The first k members of a sequence.
LEMMA TopOfSequence ==
    ASSUME NEW S, NEW s \in Seq(S), NEW k \in Nat
    PROVE  /\ Top(s, k) \in Seq(S)
           /\ Len(Top(s, k)) = Min2(k, Len(s))
           /\ Len(Top(s, k)) \in Nat
           /\ \A i \in 1 .. Len(Top(s, k)) : i \in 1 .. Len(s) /\ Top(s, k)[i] = s[i]
           /\ \A i \in 1 .. Len(s) : i \in 1 .. Len(Top(s, k)) \/ Len(Top(s, k)) < i
<1>1. PICK m \in Nat : m = Min2(k, Len(s)) /\ m <= Len(s)
  BY DEF Min2
<1>2. Top(s, k) = SubSeq(s, 1, m)
  BY <1>1 DEF Top, Min2
<1>3. PICK u : u = SubSeq(s, 1, m)
  OBVIOUS
<1>4. \A i \in 1 .. m : i \in 1 .. Len(s)
  BY <1>1
<1>5. u \in Seq(S) /\ Len(u) = m /\ \A i \in 1 .. m : u[i] = s[i]
  BY <1>1, <1>3, <1>4
<1> QED
  BY <1>1, <1>2, <1>3, <1>4, <1>5

\* s lists the entries S, best first, each once.
AreInOrder(s, S) ==
    /\ Cardinality(S) \in Nat
    /\ s \in Seq(S)
    /\ Len(s) = Cardinality(S)
    /\ \A e \in S : \E i \in 1 .. Cardinality(S) : s[i] = e
    /\ \A i, j \in 1 .. Cardinality(S) : i < j => s[i] # s[j] /\ s[i].score >= s[j].score

\* sorted() lists the entries in this way.
LEMMA EntriesInOrder ==
    ASSUME NEW S, NEW v, NEW t, AreEntries(S, v, t)
    PROVE  AreInOrder(ByScore(S), S)
<1> DEFINE s == ByScore(S)
           R == {p \in S \X S : BestFirst(p[1], p[2])}
<1>1. /\ \A e \in S : e.score \in Nat /\ e.born \in Nat
      /\ \A d, e \in S : d.born = e.born => d = e
      /\ IsFiniteSet(S)
  BY DEF AreEntries, EntryFacts
<1>2. \A x, y \in S : <<x, y>> \in R <=> BestFirst(x, y)
  OBVIOUS
<1>3. OrderOn(R, S)
  <2>1. ASSUME NEW x \in S PROVE ~BestFirst(x, x)
    BY <1>1 DEF BestFirst
  <2>2. ASSUME NEW x \in S, NEW y \in S, NEW z \in S, BestFirst(x, y), BestFirst(y, z)
        PROVE  BestFirst(x, z)
    BY <1>1, <2>2 DEF BestFirst
  <2>3. ASSUME NEW x \in S, NEW y \in S PROVE x = y \/ BestFirst(x, y) \/ BestFirst(y, x)
    BY <1>1 DEF BestFirst
  <2> HIDE DEF R
  <2> QED
    BY <1>2, <2>1, <2>2, <2>3 DEF OrderOn
<1>4. \A x \in S : Below(x, R, S) = {y \in S : BestFirst(y, x)}
  BY DEF Below
<1>5. s = [i \in 1 .. Cardinality(S) |->
             CHOOSE x \in S : Cardinality({y \in S : BestFirst(y, x)}) = i - 1]
  BY DEF ByScore
<1>6. ASSUME NEW i \in 1 .. Cardinality(S),
             NEW x \in S, Cardinality(Below(x, R, S)) = i - 1
      PROVE  s[i] \in S /\ Cardinality(Below(s[i], R, S)) = i - 1
  <2>1. s[i] \in S /\ Cardinality({y \in S : BestFirst(y, s[i])}) = i - 1
    BY <1>4, <1>5, <1>6
  <2> QED
    BY <1>4, <2>1
<1>7. Lists(s, R, S)
  <2>1. s = [i \in 1 .. Cardinality(S) |-> s[i]]
    BY <1>5
  <2> HIDE DEF s, R
  <2> QED
    BY <1>1, <1>3, <1>6, <2>1, RankedIsListed
<1>8. PICK n \in Nat : n = Cardinality(S)
  BY <1>1, FS_CardinalityType
<1>9. /\ s \in [1 .. n -> S]
      /\ \A x \in S : \E i \in 1 .. n : s[i] = x
      /\ \A i, j \in 1 .. n : i < j => <<s[i], s[j]>> \in R
  BY <1>7, <1>8 DEF Lists
<1>10. s \in Seq(S) /\ Len(s) = n
  <2> HIDE DEF s
  <2>1. s \in Seq(S)
    BY <1>9
  <2> QED
    BY <1>9, <2>1
<1>11. ASSUME NEW i \in 1 .. n, NEW j \in 1 .. n, i < j
       PROVE  s[i] # s[j] /\ s[i].score >= s[j].score
  <2>1. s[i] \in S /\ s[j] \in S /\ <<s[i], s[j]>> \in R
    BY <1>9, <1>11
  <2> HIDE DEF s, R
  <2>2. BestFirst(s[i], s[j])
    BY <1>2, <2>1
  <2>3. s[i].score \in Nat /\ s[j].score \in Nat
    BY <1>1, <2>1
  <2>4. s[i] # s[j]
    BY <1>3, <2>1 DEF OrderOn
  <2> QED
    BY <2>2, <2>3, <2>4 DEF BestFirst
<1> QED
  BY <1>8, <1>9, <1>10, <1>11 DEF AreInOrder

\* rrf_fuse returns the best entries.
LEMMA FusedAreBest ==
    ASSUME NEW v \in Seq(Rows), NEW t \in Seq(Rows), NEW k \in Nat
    PROVE  \E S : AreEntries(S, v, t) /\ AreBest(rrf_fuse(<<v, t>>, k), S, k)
<1>1. PICK S : S = Scores(<<v, t>>) /\ AreEntries(S, v, t)
  BY ScoresAreEntries
<1>2. rrf_fuse(<<v, t>>, k) = Top(ByScore(S), k)
  BY <1>1 DEF rrf_fuse, InOrder, ByScore
<1>3. PICK s : s = ByScore(S)
  OBVIOUS
<1>4. AreInOrder(s, S)
  BY <1>1, <1>3, EntriesInOrder
<1> DEFINE n == Cardinality(S)
<1>5. /\ n \in Nat /\ s \in Seq(S) /\ Len(s) = n
      /\ \A e \in S : \E i \in 1 .. n : s[i] = e
      /\ \A i, j \in 1 .. n : i < j => s[i] # s[j] /\ s[i].score >= s[j].score
  BY <1>4 DEF AreInOrder
<1> HIDE DEF n
<1>6. PICK f : f = Top(s, k)
  OBVIOUS
<1>7. /\ f \in Seq(S) /\ Len(f) = Min2(k, n) /\ Len(f) \in Nat
      /\ \A i \in 1 .. Len(f) : i \in 1 .. n /\ f[i] = s[i]
      /\ \A i \in 1 .. n : i \in 1 .. Len(f) \/ Len(f) < i
  BY <1>5, <1>6, TopOfSequence
<1>8. \A i, j \in 1 .. Len(f) : i < j => f[i] # f[j] /\ f[i].score >= f[j].score
  BY <1>5, <1>7
<1>9. ASSUME NEW e \in S
      PROVE  \/ \E i \in 1 .. Len(f) : f[i] = e
             \/ \A i \in 1 .. Len(f) : f[i].score >= e.score
  <2>1. PICK j \in 1 .. n : s[j] = e
    BY <1>5
  <2>2. CASE j \in 1 .. Len(f)
    BY <1>7, <2>1, <2>2
  <2>3. CASE Len(f) < j
    <3>1. ASSUME NEW i \in 1 .. Len(f) PROVE f[i].score >= e.score
      <4>1. i \in 1 .. n /\ f[i] = s[i] /\ i < j
        BY <1>7, <2>3
      <4> QED
        BY <1>5, <2>1, <4>1
    <3> QED
      BY <3>1
  <2> QED
    BY <1>7, <2>2, <2>3
<1>10. AreBest(f, S, k)
  BY <1>7, <1>8, <1>9 DEF AreBest, n
<1> QED
  BY <1>1, <1>2, <1>3, <1>6, <1>10

----------------------------------------------------------------------------
(* The search *)

\* The rows that pass the filter.
Matching == {c \in table : FilterConditions(c)}

\* seq is a result for the table as it is: matching chunks, each once.
ComesFrom(seq) ==
    /\ \A i \in 1 .. Len(seq) : seq[i].chunk \in Matching
    /\ \A i, j \in 1 .. Len(seq) : seq[i].chunk = seq[j].chunk => i = j

\* Every variable has its type, the results as sequences.
SearchTyped ==
    /\ table \subseteq Chunk /\ IsFiniteSet(table)
    /\ stage \in {"vector", "text", "done"}
    /\ top_k \in TopKs /\ filters \in SearchFilters /\ exact \in BOOLEAN
    /\ vector_rows \in Seq(Rows) /\ Len(vector_rows) <= FETCH_CEILING
    /\ text_rows \in Seq(Rows) /\ Len(text_rows) <= FETCH_CEILING
    /\ found \in Nat /\ changes \in 0 .. MaxChanges

\* The inductive invariant: what each statement of the search has left.
SearchIInv ==
    /\ SearchTyped
    /\ stage = "vector" => vector_rows = <<>>
    /\ stage # "done" => text_rows = <<>> /\ hits = <<>>
    /\ stage = "done" => hits = Hits(vector_rows, text_rows)
    /\ stage # "vector" /\ exact => Len(vector_rows) = Min2(found, Fetch(top_k))
    /\ changes = 0 => ComesFrom(vector_rows) /\ ComesFrom(text_rows)

\* The number of rows that a SELECT fetches.
LEMMA FetchType ==
    ASSUME NEW k \in TopKs
    PROVE  /\ Fetch(k) \in Nat /\ Fetch(k) <= FETCH_CEILING
           /\ k <= FETCH_CEILING => k <= Fetch(k)
<1>1. /\ k \in Nat /\ FETCH_MULTIPLIER \in Nat /\ FETCH_MULTIPLIER >= 1
      /\ FETCH_FLOOR \in Nat /\ FETCH_CEILING \in Nat
  BY SearchAssumption
<1>2. PICK m \in Nat : m = k * FETCH_MULTIPLIER /\ m >= k
  <2>1. \A a, b \in Nat : b >= 1 => a * b \in Nat /\ a * b >= a
    OBVIOUS
  <2> QED
    BY <1>1, <2>1
<1> QED
  BY <1>1, <1>2 DEF Fetch

\* The result of a SELECT without an index: matching chunks, each once, as
\* many as there are up to the limit.
LEMMA OrdersAre ==
    ASSUME NEW S, IsFiniteSet(S), NEW limit \in Nat, NEW order \in Orders(S, limit)
    PROVE  /\ order \in Seq(S)
           /\ Len(order) = Min2(Cardinality(S), limit)
           /\ Len(order) <= limit
           /\ \A i, j \in 1 .. Len(order) : order[i] = order[j] => i = j
<1>1. PICK T \in SUBSET S : /\ order \in SetToSeqs(T)
                            /\ Cardinality(T) = Min2(Cardinality(S), limit)
  <2>1. Cardinality(S) \in Nat
    BY FS_CardinalityType
  <2>2. CASE Cardinality(S) <= limit
    BY <2>1, <2>2 DEF Orders, Min2
  <2>3. CASE ~(Cardinality(S) <= limit)
    BY <2>1, <2>3 DEF Orders, Min2
  <2> QED
    BY <2>2, <2>3
<1>2. PICK n \in Nat : n = Cardinality(T)
  BY FS_Subset, FS_CardinalityType
<1>3. order \in [1 .. n -> T] /\ \A i, j \in 1 .. n : i # j => order[i] # order[j]
  BY <1>1, <1>2 DEF SetToSeqs
<1>4. order \in Seq(S) /\ Len(order) = n
  <2>1. order \in [1 .. n -> S]
    BY <1>3
  <2>2. order \in Seq(S)
    BY <2>1
  <2> QED
    BY <2>1, <2>2
<1>5. n <= limit
  <2>1. Cardinality(S) \in Nat
    BY FS_CardinalityType
  <2> QED
    BY <1>1, <1>2, <2>1 DEF Min2
<1> QED
  BY <1>1, <1>2, <1>3, <1>4, <1>5

\* What one of the two SELECTs yields.
LEMMA SelectedComesFrom ==
    ASSUME table \subseteq Chunk, IsFiniteSet(table), NEW S \in SUBSET Matching,
           NEW limit \in Nat, NEW order \in Orders(S, limit),
           NEW by \in {"distance", "rank"}
    PROVE  /\ Selected(order, by) \in Seq(Rows)
           /\ Len(Selected(order, by)) = Min2(Cardinality(S), limit)
           /\ Len(Selected(order, by)) <= limit
           /\ ComesFrom(Selected(order, by))
<1>1. IsFiniteSet(S)
  BY FS_Subset DEF Matching
<1>2. /\ order \in Seq(S)
      /\ Len(order) = Min2(Cardinality(S), limit)
      /\ Len(order) <= limit
      /\ \A i, j \in 1 .. Len(order) : order[i] = order[j] => i = j
  BY <1>1, OrdersAre
<1>3. PICK s : s = Selected(order, by)
  OBVIOUS
<1>4. S \subseteq Chunk
  BY DEF Matching
<1>5. \A i \in 1 .. Len(order) : order[i] \in S /\ order[i] \in Chunk
  BY <1>2, <1>4
<1>6. s = [i \in 1 .. Len(order) |-> [chunk |-> order[i], by |-> by]]
  BY <1>3 DEF Selected
<1>7. \A i \in 1 .. Len(order) : s[i].chunk = order[i] /\ s[i] \in Rows
  BY <1>5, <1>6 DEF Rows
<1>8. s \in Seq(Rows) /\ Len(s) = Len(order)
  <2>1. Len(order) \in Nat
    BY <1>2
  <2>2. s \in [1 .. Len(order) -> Rows]
    BY <1>6, <1>7
  <2>3. s \in Seq(Rows)
    BY <2>1, <2>2
  <2> QED
    BY <2>1, <2>2, <2>3
<1>9. ComesFrom(s)
  BY <1>2, <1>5, <1>7, <1>8 DEF ComesFrom
<1> QED
  BY <1>2, <1>3, <1>8, <1>9

\* The invariant holds before the first SELECT ...
LEMMA SearchInitial == SearchInit => SearchIInv
<1> SUFFICES ASSUME SearchInit PROVE SearchIInv
  OBVIOUS
<1>1. table \subseteq Chunk /\ IsFiniteSet(table)
  BY InputsAssumption DEF SearchInit, Tables
<1>2. MaxChanges \in Nat /\ FETCH_CEILING \in Nat /\ filters \in SearchFilters
  BY SearchAssumption, InputsAssumption DEF SearchInit
<1>3. SearchTyped
  BY <1>1, <1>2 DEF SearchInit, SearchTyped
<1> QED
  BY <1>3 DEF SearchInit, SearchIInv, ComesFrom

\* ... and each SELECT and each change of the table preserves it.
LEMMA SearchStep == SearchIInv /\ [SearchNext]_searchVars => SearchIInv'
<1> SUFFICES ASSUME SearchIInv, [SearchNext]_searchVars PROVE SearchIInv'
  OBVIOUS
<1>0. SearchTyped /\ MaxChanges \in Nat /\ FETCH_CEILING \in Nat
  BY SearchAssumption DEF SearchIInv
<1>1. PICK limit \in Nat : limit = Fetch(top_k) /\ limit <= FETCH_CEILING
  BY <1>0, FetchType DEF SearchTyped
<1>2. CASE SelectVector
  <2>1. PICK order \in Scanned(Matching, limit) :
           /\ vector_rows' = Selected(order, "distance")
           /\ found' = Cardinality(Matching)
    BY <1>1, <1>2 DEF SelectVector, Matching
  <2>2. PICK S \in SUBSET Matching : /\ order \in Orders(S, limit)
                                     /\ exact => S = Matching
    BY <2>1 DEF Scanned
  <2>3. /\ vector_rows' \in Seq(Rows)
        /\ Len(vector_rows') = Min2(Cardinality(S), limit)
        /\ Len(vector_rows') <= limit
        /\ ComesFrom(Selected(order, "distance"))
    BY <1>0, <2>1, <2>2, SelectedComesFrom DEF SearchTyped
  <2>4. found' \in Nat
    <3>1. IsFiniteSet(Matching)
      BY <1>0, FS_Subset DEF Matching, SearchTyped
    <3> QED
      BY <2>1, <3>1, FS_CardinalityType
  <2>5. SearchTyped'
    BY <1>0, <1>1, <1>2, <2>3, <2>4 DEF SelectVector, SearchTyped
  <2>6. ComesFrom(vector_rows)'
    BY <1>2, <2>1, <2>3 DEF SelectVector, ComesFrom, Matching, FilterConditions
  <2>7. ComesFrom(text_rows)'
    <3>1. text_rows' = <<>>
      BY <1>2 DEF SelectVector, SearchIInv
    <3> QED
      BY <3>1 DEF ComesFrom
  <2>8. exact' => Len(vector_rows') = Min2(found', Fetch(top_k'))
    BY <1>1, <1>2, <2>1, <2>2, <2>3 DEF SelectVector
  <2>9. stage' = "text" /\ text_rows' = <<>> /\ hits' = <<>>
    BY <1>2 DEF SelectVector, SearchIInv
  <2> QED
    BY <2>5, <2>6, <2>7, <2>8, <2>9 DEF SearchIInv
<1>3. ASSUME NEW new, new \subseteq Chunk, IsFiniteSet(new), Change(new) PROVE SearchIInv'
  <2>1. SearchTyped'
    BY <1>0, <1>3 DEF Change, SearchTyped
  <2>2. changes' # 0
    BY <1>0, <1>3 DEF Change, SearchTyped
  <2> QED
    BY <1>3, <2>1, <2>2 DEF Change, SearchIInv, Hits
<1>4. ASSUME NEW c \in table \cup Made, UpsertChunk(c) PROVE SearchIInv'
  <2> DEFINE d == [c EXCEPT !.text = 2, !.tag_id = 0, !.document_status = 0]
  <2>1. c \in Chunk /\ d \in Chunk
    BY <1>0, InputsAssumption DEF SearchTyped, Chunk
  <2>2. IsFiniteSet((table \ {c}) \cup {d})
    BY <1>0, FS_RemoveElement, FS_AddElement DEF SearchTyped
  <2>3. Change((table \ {c}) \cup {d})
    BY <1>4 DEF UpsertChunk
  <2> HIDE DEF d
  <2> QED
    BY <1>0, <1>3, <2>1, <2>2, <2>3 DEF SearchTyped
<1>7. ASSUME NEW document \in DocumentIds, NEW tag_id \in {0, 1, 2}, NEW status \in {1, 2},
             RefreshMetadata(document, tag_id, status)
      PROVE  SearchIInv'
  <2> DEFINE f == [c \in table |-> IF c.document = document
                      THEN [c EXCEPT !.tag_id = tag_id, !.document_status = status] ELSE c]
             new == {f[c] : c \in table}
  <2>1. new \subseteq Chunk
    BY <1>0 DEF SearchTyped, Chunk
  <2>2. IsFiniteSet(new)
    <3>1. f \in [table -> new]
      OBVIOUS
    <3> HIDE DEF f
    <3>2. f \in Surjection(table, new)
      BY <3>1 DEF Surjection
    <3> QED
      BY <1>0, <3>2, FS_Surjection DEF SearchTyped
  <2>3. new = {IF c.document = document
                  THEN [c EXCEPT !.tag_id = tag_id, !.document_status = status]
                  ELSE c : c \in table}
    OBVIOUS
  <2>4. Change(new)
    BY <1>7, <2>3 DEF RefreshMetadata
  <2> HIDE DEF new
  <2> QED
    BY <1>3, <2>1, <2>2, <2>4
<1>8. ASSUME NEW document \in DocumentIds, DeleteChunks(document) PROVE SearchIInv'
  <2> DEFINE new == {c \in table : c.document # document}
  <2>1. new \subseteq Chunk /\ IsFiniteSet(new)
    BY <1>0, FS_Subset DEF SearchTyped
  <2>2. Change(new)
    BY <1>8 DEF DeleteChunks
  <2> HIDE DEF new
  <2> QED
    BY <1>3, <2>1, <2>2
<1>5. CASE SelectText
  <2>1. PICK texts \in SUBSET {Identity(c) : c \in table} :
           \E order \in Orders({c \in table : FilterConditions(c) /\ Identity(c) \in texts},
                               limit) :
              text_rows' = Selected(order, "rank")
    BY <1>1, <1>5 DEF SelectText
  <2> DEFINE S == {c \in table : FilterConditions(c) /\ Identity(c) \in texts}
  <2>2. PICK order \in Orders(S, limit) : text_rows' = Selected(order, "rank")
    BY <2>1
  <2>3. S \in SUBSET Matching
    BY DEF Matching
  <2>4. /\ text_rows' \in Seq(Rows)
        /\ Len(text_rows') <= limit
        /\ ComesFrom(Selected(order, "rank"))
    <3> HIDE DEF S
    <3> QED
      BY <1>0, <2>2, <2>3, SelectedComesFrom DEF SearchTyped
  <2>5. SearchTyped'
    BY <1>0, <1>1, <1>5, <2>4 DEF SelectText, SearchTyped
  <2>6. changes' = 0 => ComesFrom(vector_rows)' /\ ComesFrom(text_rows)'
    BY <1>5, <2>2, <2>4 DEF SelectText, SearchIInv, ComesFrom, Matching, FilterConditions
  <2>7. hits' = Hits(vector_rows', text_rows')
    BY <1>5 DEF SelectText
  <2>8. Hits(vector_rows', text_rows') = Hits(vector_rows, text_rows)'
    BY <1>5 DEF SelectText, Hits
  <2> QED
    BY <1>5, <2>5, <2>6, <2>7, <2>8 DEF SelectText, SearchIInv
<1>6. CASE UNCHANGED searchVars
  <2>1. /\ UNCHANGED <<table, stage, top_k, filters, exact>>
        /\ UNCHANGED <<vector_rows, text_rows, hits, found, changes>>
    BY <1>6 DEF searchVars
  <2>2. SearchTyped'
    BY <1>0, <2>1 DEF SearchTyped
  <2>3. changes' = 0 => ComesFrom(vector_rows)' /\ ComesFrom(text_rows)'
    BY <2>1 DEF SearchIInv, ComesFrom, Matching, FilterConditions
  <2>4. Hits(vector_rows, text_rows)' = Hits(vector_rows, text_rows)
    BY <2>1 DEF Hits
  <2> QED
    BY <2>1, <2>2, <2>3, <2>4 DEF SearchIInv
<1> QED
  BY <1>2, <1>4, <1>5, <1>6, <1>7, <1>8 DEF SearchNext

\* What the SELECTs of a search have left between them, whatever changed.
THEOREM SearchInvariant == SearchSpec => []SearchIInv
  BY SearchInitial, SearchStep, PTL DEF SearchSpec

----------------------------------------------------------------------------
(* What a finished search returns *)

\* Without a text ranking: the first rows of the vector ranking.
LEMMA VectorHits ==
    ASSUME SearchIInv, stage = "done", text_rows = <<>>
    PROVE  /\ hits \in Seq(Rows)
           /\ Len(hits) = Min2(top_k, Len(vector_rows))
           /\ Len(hits) \in Nat
           /\ \A i \in 1 .. Len(hits) : i \in 1 .. Len(vector_rows) /\ hits[i] = vector_rows[i]
<1>1. hits = Top(vector_rows, top_k)
  BY DEF SearchIInv, Hits
<1>2. top_k \in Nat /\ vector_rows \in Seq(Rows)
  BY SearchAssumption DEF SearchIInv, SearchTyped
<1> QED
  BY <1>1, <1>2, TopOfSequence

\* f are the entries of the hits.
AreHits(f) ==
    /\ Len(f) \in Nat
    /\ hits \in Seq(Rows)
    /\ Len(hits) = Len(f)
    /\ \A i \in 1 .. Len(f) : hits[i] = f[i].row

\* With one: the rows of the best entries.
LEMMA HybridHits ==
    ASSUME SearchIInv, stage = "done", text_rows # <<>>
    PROVE  \E S, f : /\ AreEntries(S, vector_rows, text_rows)
                     /\ AreBest(f, S, top_k)
                     /\ AreHits(f)
<1>1. /\ top_k \in Nat /\ vector_rows \in Seq(Rows) /\ text_rows \in Seq(Rows)
      /\ hits = Hits(vector_rows, text_rows)
  BY SearchAssumption DEF SearchIInv, SearchTyped
<1>2. PICK f : f = rrf_fuse(<<vector_rows, text_rows>>, top_k)
  OBVIOUS
<1>3. PICK S : AreEntries(S, vector_rows, text_rows) /\ AreBest(f, S, top_k)
  BY <1>1, <1>2, FusedAreBest
<1>4. f \in Seq(S) /\ Len(f) \in Nat
  BY <1>3 DEF AreBest
<1>5. hits = [i \in 1 .. Len(f) |-> f[i].row]
  BY <1>1, <1>2 DEF Hits
<1>6. ASSUME NEW i \in 1 .. Len(f) PROVE f[i].row \in Rows
  <2>1. PICK e \in S : e = f[i]
    BY <1>4
  <2>2. EntryFacts(e, vector_rows, text_rows)
    BY <1>3 DEF AreEntries
  <2>3. /\ \A j \in 1 .. Len(vector_rows) : vector_rows[j] \in Rows
        /\ \A j \in 1 .. Len(text_rows) : text_rows[j] \in Rows
    BY <1>1
  <2> QED
    BY <2>1, <2>2, <2>3 DEF EntryFacts
<1>7. hits \in Seq(Rows) /\ Len(hits) = Len(f)
  <2>1. hits \in [1 .. Len(f) -> Rows]
    BY <1>5, <1>6
  <2>2. hits \in Seq(Rows)
    BY <1>4, <2>1
  <2> QED
    BY <1>4, <2>1, <2>2
<1>8. AreHits(f)
  BY <1>4, <1>5, <1>7 DEF AreHits
<1> QED
  BY <1>3, <1>8

\* The type of the hits.
LEMMA HitsType == ASSUME SearchIInv PROVE \A i \in 1 .. Len(hits) : hits[i] \in Rows
<1>1. hits \in Seq(Rows)
  <2>1. CASE stage # "done"
    BY <2>1 DEF SearchIInv
  <2>2. CASE stage = "done" /\ text_rows = <<>>
    BY <2>2, VectorHits
  <2>3. CASE stage = "done" /\ text_rows # <<>>
    BY <2>3, HybridHits DEF AreHits
  <2> QED
    BY <2>1, <2>2, <2>3
<1> QED
  BY <1>1

\* Type correctness of a search, for every value of the constants.
THEOREM SearchTypeCorrect == SearchSpec => []SearchType
<1>1. SearchIInv => SearchType
  <2> SUFFICES ASSUME SearchIInv PROVE SearchType
    OBVIOUS
  <2>1. SearchTyped
    BY DEF SearchIInv
  <2>2. \A seq \in {vector_rows, text_rows} :
           Len(seq) <= FETCH_CEILING /\ \A i \in 1 .. Len(seq) : seq[i] \in Rows
    BY <2>1 DEF SearchTyped
  <2> QED
    BY <2>1, <2>2, HitsType DEF SearchType, SearchTyped
<1> QED
  BY <1>1, SearchInvariant, PTL

\* rrf_fuse's promise, for rankings of any length, with keys that repeat within
\* and between them: the hits come in the order of their fused scores, and no
\* candidate that was left out has a better one.
THEOREM HitsBest == SearchSpec => []HitsAreBest
<1>1. SearchIInv => HitsAreBest
  <2> SUFFICES ASSUME SearchIInv, stage = "done", text_rows # <<>>
               PROVE  /\ \A i, j \in 1 .. Len(hits) :
                            i < j => Score(Key(hits[i])) >= Score(Key(hits[j]))
                      /\ \A i \in 1 .. Len(hits) : \A key \in Ranked \ HitKeys :
                            Score(Key(hits[i])) >= Score(key)
    BY DEF HitsAreBest
  <2>1. PICK S, f : /\ AreEntries(S, vector_rows, text_rows)
                    /\ AreBest(f, S, top_k)
                    /\ AreHits(f)
    BY HybridHits
  <2>2. \A e \in S : EntryFacts(e, vector_rows, text_rows)
    BY <2>1 DEF AreEntries
  <2>3. \A e \in S : Score(e.key) = e.score /\ Key(e.row) = e.key
    BY <2>2 DEF EntryFacts, Score
  <2>4. \A i \in 1 .. Len(f) : f[i] \in S
    BY <2>1 DEF AreBest, AreHits
  <2>5. \A i \in 1 .. Len(hits) : /\ i \in 1 .. Len(f)
                                   /\ Key(hits[i]) = f[i].key
                                   /\ Score(Key(hits[i])) = f[i].score
    BY <2>1, <2>3, <2>4 DEF AreHits
  <2>6. ASSUME NEW i \in 1 .. Len(hits), NEW j \in 1 .. Len(hits), i < j
        PROVE  Score(Key(hits[i])) >= Score(Key(hits[j]))
    BY <2>1, <2>5, <2>6 DEF AreBest
  <2>7. ASSUME NEW i \in 1 .. Len(hits), NEW key \in Ranked \ HitKeys
        PROVE  Score(Key(hits[i])) >= Score(key)
    <3>1. key \in RankedKeys(vector_rows, text_rows)
      BY DEF Ranked, RankedKeys
    <3>2. PICK e \in S : e.key = key
      BY <2>1, <3>1 DEF AreEntries
    <3>3. \A j \in 1 .. Len(f) : f[j] # e
      <4> SUFFICES ASSUME NEW j \in 1 .. Len(f), f[j] = e PROVE FALSE
        OBVIOUS
      <4>1. j \in 1 .. Len(hits)
        BY <2>1 DEF AreHits
      <4>2. Key(hits[j]) = key
        BY <2>5, <3>2, <4>1
      <4> QED
        BY <4>1, <4>2 DEF HitKeys
    <3>4. f[i].score >= e.score
      BY <2>1, <2>5, <3>3 DEF AreBest
    <3> QED
      BY <2>3, <2>5, <3>2, <3>4
  <2> QED
    BY <2>6, <2>7
<1> QED
  BY <1>1, SearchInvariant, PTL

\* The hits of a search that no change disturbed.
LEMMA HitsFromTable == ASSUME SearchIInv PROVE HitsAreRows
<1>e. \A c \in Matching : c \in table /\ ~ Excluded(c)
  <2> SUFFICES ASSUME NEW c \in Matching, Excluded(c) PROVE FALSE
    BY DEF Matching
  <2>0. FilterConditions(c) /\ c \in Chunk
    BY DEF Matching, SearchIInv, SearchTyped
  <2>1. FilterConditions(c) /\ c.created_at \in Times /\ c.created_at \in Nat
        /\ c.created_at # 0
    BY <2>0, InputsAssumption DEF Chunk
  <2>2. filters.created_after \in Times \cup {0} /\ filters.created_before \in Times \cup {0}
    BY DEF SearchIInv, SearchTyped, SearchFilters
  <2>3. Times \subseteq Nat
    BY InputsAssumption
  <2>4. CASE filters.created_after > c.created_at
    <3>0. PICK a, t \in Nat : a = filters.created_after /\ t = c.created_at
      BY <2>1, <2>2, <2>3
    <3>1. filters.created_after \in Nat /\ filters.created_after # 0
      BY <2>4, <3>0
    <3>2. c.created_at >= filters.created_after
      BY <2>1, <3>1 DEF FilterConditions
    <3> QED
      BY <2>1, <2>4, <3>1, <3>2
  <2>5. CASE filters.created_before \notin {0} \cup {t \in Times : t >= c.created_at}
    BY <2>1, <2>2, <2>3, <2>5 DEF FilterConditions
  <2> QED
    BY <2>1, <2>4, <2>5 DEF FilterConditions, Excluded
<1> SUFFICES ASSUME changes = 0
             PROVE  /\ \A i \in 1 .. Len(hits) : hits[i].chunk \in Matching
                    /\ \A i, j \in 1 .. Len(hits) : hits[i].chunk = hits[j].chunk => i = j
  BY <1>e DEF HitsAreRows
<1>1. ComesFrom(vector_rows) /\ ComesFrom(text_rows)
  BY DEF SearchIInv
<1>2. CASE stage # "done"
  BY <1>2 DEF SearchIInv
<1>3. CASE stage = "done" /\ text_rows = <<>>
  <2>1. \A i \in 1 .. Len(hits) : i \in 1 .. Len(vector_rows) /\ hits[i] = vector_rows[i]
    BY <1>3, VectorHits
  <2> QED
    BY <1>1, <2>1 DEF ComesFrom
<1>4. CASE stage = "done" /\ text_rows # <<>>
  <2>1. PICK S, f : /\ AreEntries(S, vector_rows, text_rows)
                    /\ AreBest(f, S, top_k)
                    /\ AreHits(f)
    BY <1>4, HybridHits
  <2>2. \A i \in 1 .. Len(hits) : /\ i \in 1 .. Len(f)
                                   /\ f[i] \in S
                                   /\ hits[i] = f[i].row
                                   /\ EntryFacts(f[i], vector_rows, text_rows)
    BY <2>1 DEF AreEntries, AreBest, AreHits
  <2>3. ASSUME NEW i \in 1 .. Len(hits) PROVE hits[i].chunk \in Matching
    <3>1. \/ \E j \in 1 .. Len(vector_rows) : hits[i] = vector_rows[j]
          \/ \E j \in 1 .. Len(text_rows) : hits[i] = text_rows[j]
      BY <2>2 DEF EntryFacts
    <3> QED
      BY <1>1, <3>1 DEF ComesFrom
  <2>4. ASSUME NEW i \in 1 .. Len(hits), NEW j \in 1 .. Len(hits),
               hits[i].chunk = hits[j].chunk, i # j
        PROVE  FALSE
    <3>1. Key(hits[i]) = Key(hits[j])
      BY <2>4 DEF Key
    <3>2. f[i].key = f[j].key
      BY <2>2, <3>1 DEF EntryFacts
    <3>3. f[i] = f[j]
      BY <2>1, <2>2, <3>2 DEF AreEntries
    <3>4. i < j \/ j < i
      BY <2>1, <2>2, <2>4 DEF AreHits
    <3> QED
      BY <2>1, <2>2, <3>3, <3>4 DEF AreBest
  <2> QED
    BY <2>3, <2>4
<1> QED
  BY <1>2, <1>3, <1>4

\* "Maximum number of hits" and no fewer than there are: search returns top_k
\* hits or all it can, each key once, and, when nothing changed between its
\* SELECTs, only rows of the table that pass the filters.
THEOREM HitsComplete == SearchSpec => []HitsAreComplete
<1>1. SearchIInv => HitsAreComplete
  <2> SUFFICES ASSUME SearchIInv, stage = "done" PROVE HitsAreComplete
    BY DEF HitsAreComplete
  <2>1. HitsAreRows
    BY HitsFromTable
  <2>2. ASSUME text_rows = <<>>, exact, top_k <= FETCH_CEILING
        PROVE  Len(hits) = Min2(top_k, found)
    <3>1. Len(hits) = Min2(top_k, Len(vector_rows))
      BY <2>2, VectorHits
    <3>2. Len(vector_rows) = Min2(found, Fetch(top_k))
      BY <2>2 DEF SearchIInv
    <3>3. /\ top_k \in Nat /\ found \in Nat
          /\ Fetch(top_k) \in Nat /\ top_k <= Fetch(top_k)
      BY <2>2, FetchType, SearchAssumption DEF SearchIInv, SearchTyped
    <3> QED
      BY <3>1, <3>2, <3>3 DEF Min2
  <2>3. ASSUME text_rows # <<>>
        PROVE  /\ Len(hits) = Min2(top_k, Cardinality(Ranked))
               /\ Cardinality(HitKeys) = Len(hits)
    <3>1. PICK S, f : /\ AreEntries(S, vector_rows, text_rows)
                      /\ AreBest(f, S, top_k)
                      /\ AreHits(f)
      BY <2>3, HybridHits
    <3>2. Len(hits) = Min2(top_k, Cardinality(Ranked))
      BY <3>1 DEF AreEntries, AreBest, AreHits, Ranked, RankedKeys
    <3>3. \A i \in 1 .. Len(hits) : /\ i \in 1 .. Len(f)
                                     /\ f[i] \in S
                                     /\ Key(hits[i]) = f[i].key
      BY <3>1 DEF AreEntries, AreBest, AreHits, EntryFacts
    <3>4. ASSUME NEW i \in 1 .. Len(hits), NEW j \in 1 .. Len(hits),
                 Key(hits[i]) = Key(hits[j]), i # j
          PROVE  FALSE
      <4>1. f[i] = f[j]
        BY <3>1, <3>3, <3>4 DEF AreEntries
      <4>2. i < j \/ j < i
        BY <3>1, <3>3, <3>4 DEF AreHits
      <4> QED
        BY <3>1, <3>3, <4>1, <4>2 DEF AreBest
    <3>5. PICK n \in Nat : n = Len(hits)
      BY <3>1 DEF AreHits
    <3> DEFINE b == [i \in 1 .. n |-> Key(hits[i])]
    <3>6. b \in Bijection(1 .. n, HitKeys)
      <4>1. b \in [1 .. n -> HitKeys] /\ \A k \in HitKeys : \E i \in 1 .. n : b[i] = k
        BY <3>5 DEF HitKeys
      <4>2. \A i, j \in 1 .. n : b[i] = b[j] => i = j
        BY <3>4, <3>5
      <4> HIDE DEF b
      <4> QED
        BY <4>1, <4>2 DEF Bijection, Injection, Surjection, IsInjective
    <3>7. IsFiniteSet(1 .. n) /\ Cardinality(1 .. n) = n
      BY FS_Interval
    <3>8. ExistsBijection(1 .. n, HitKeys)
      <4> HIDE DEF b
      <4> QED
        BY <3>6 DEF ExistsBijection
    <3> QED
      BY <3>2, <3>5, <3>7, <3>8, FS_Bijection
  <2> QED
    BY <2>1, <2>2, <2>3 DEF HitsAreComplete
<1> QED
  BY <1>1, SearchInvariant, PTL
=============================================================================
