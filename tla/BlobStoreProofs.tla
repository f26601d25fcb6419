--------------------------- MODULE BlobStoreProofs ---------------------------
(***************************************************************************)
(* Proofs about BlobStore, for any number of writers, keys and deletions:  *)
(* a returned put is stored, and the store implements BlobContract.        *)
(*                                                                         *)
(* Both need that the callers of put_stream give the size (SizesAreGiven). *)
(* Without it a short stream is uploaded as it is, and nothing ever        *)
(* replaces it.                                                            *)
(***************************************************************************)
EXTENDS BlobStore, TLAPS

\* Every caller of put_stream gives the size.
SizesAreGiven == FALSE \notin Sized

\* What a call may upload is complete, and is the one content of an addressed
\* key: a broken stream is caught by the size check.
JobsAreSound ==
    \A w \in Writers :
        pc[w] # "idle" => /\ job[w].short => job[w].sized
                          /\ job[w].content \in ContentsOf(job[w].key)

\* So is what the store holds.
ObjectsAreSound ==
    \A k \in Keys :
        store[k] # Nothing => store[k].whole /\ store[k].content \in ContentsOf(k)

Inv == TypeOK /\ JobsAreSound /\ ObjectsAreSound /\ ReturnedIsStored

----------------------------------------------------------------------------
(* Type correctness *)

\* Every object is present: it is not Nothing.
LEMMA NothingIsNoObject == Nothing \notin Objects
BY DEF Nothing, Objects, Contents

\* There is a job to choose.
LEMMA NoJobType == NoJob \in Jobs
<1>1. PICK k \in Keys : TRUE
  BY BlobStoreAssumption
<1>2. [key |-> k, content |-> 1, short |-> FALSE, sized |-> FALSE] \in Jobs
  BY DEF Jobs, Contents
<1>3. \E j \in Jobs : TRUE
  BY <1>2
<1> QED
  BY <1>3, Zenon DEF NoJob

\* What is uploaded for a job is an object.
LEMMA StoredType == ASSUME NEW j \in Jobs PROVE Stored(j) \in Objects
BY DEF Jobs, Stored, Objects

\* The contents a key may have are contents.
LEMMA ContentsOfType == ASSUME NEW k PROVE ContentsOf(k) \subseteq Contents
BY DEF ContentsOf, Contents

\* The job of a call of put or put_stream has its type; it is sound when the
\* sizes are given.
LEMMA CallJob ==
    ASSUME NEW k \in Keys, NEW content \in ContentsOf(k), NEW short \in BOOLEAN,
           NEW sized \in BOOLEAN, short => sized
    PROVE  LET j == [key |-> k, content |-> content, short |-> short, sized |-> sized]
           IN  /\ j \in Jobs
               /\ j.key = k
               /\ j.short => j.sized
               /\ j.content \in ContentsOf(j.key)
BY ContentsOfType DEF Jobs

\* Every step is one of these; the two ways to put are calls with a sound job.
LEMMA NextForm ==
    ASSUME SizesAreGiven, Next
    PROVE  \/ \E w \in Writers : \E j \in Jobs :
                 /\ Call(w, j)
                 /\ j.short => j.sized
                 /\ j.content \in ContentsOf(j.key)
           \/ \E w \in Writers : Stat(w) \/ PutObject(w) \/ Raise(w) \/ Handled(w)
           \/ \E k \in Keys : delete(k)
<1>1. ASSUME NEW w \in Writers, NEW k \in Keys, NEW content \in ContentsOf(k),
             put(w, k, content)
      PROVE  \E j \in Jobs : /\ Call(w, j)
                             /\ j.short => j.sized
                             /\ j.content \in ContentsOf(j.key)
  <2> DEFINE j == [key |-> k, content |-> content, short |-> FALSE, sized |-> TRUE]
  <2>1. Call(w, j)
    BY <1>1 DEF put
  <2>2. j \in Jobs /\ (j.short => j.sized) /\ j.content \in ContentsOf(j.key)
    BY CallJob
  <2> HIDE DEF j
  <2> QED
    BY <2>1, <2>2
<1>2. ASSUME NEW w \in Writers, NEW k \in Keys, NEW content \in ContentsOf(k),
             NEW short \in BOOLEAN, NEW sized \in Sized,
             put_stream(w, k, content, short, sized)
      PROVE  \E j \in Jobs : /\ Call(w, j)
                             /\ j.short => j.sized
                             /\ j.content \in ContentsOf(j.key)
  <2> DEFINE j == [key |-> k, content |-> content, short |-> short, sized |-> sized]
  <2>1. Call(w, j)
    BY <1>2 DEF put_stream
  <2>2. sized \in BOOLEAN /\ sized
    BY BlobStoreAssumption DEF SizesAreGiven
  <2>3. j \in Jobs /\ (j.short => j.sized) /\ j.content \in ContentsOf(j.key)
    BY <2>2, CallJob
  <2> HIDE DEF j
  <2> QED
    BY <2>1, <2>3
<1> QED
  BY <1>1, <1>2 DEF Next

\* The first state has its types.
LEMMA InitType == Init => TypeOK
<1> SUFFICES ASSUME Init PROVE TypeOK
  OBVIOUS
<1> QED
  BY NoJobType, BlobStoreAssumption DEF Init, TypeOK

\* The steps other than a call keep the types.
LEMMA StepType ==
    ASSUME TypeOK,
           \/ \E w \in Writers : \/ \E j \in Jobs : Call(w, j)
                                 \/ Stat(w) \/ PutObject(w) \/ Raise(w) \/ Handled(w)
           \/ \E k \in Keys : delete(k)
    PROVE  TypeOK'
<1>1. ASSUME NEW w \in Writers, NEW j \in Jobs, Call(w, j) PROVE TypeOK'
  BY <1>1 DEF TypeOK, Call, Goto
<1>2. ASSUME NEW w \in Writers, Stat(w) \/ Raise(w) PROVE TypeOK'
  BY <1>2 DEF TypeOK, Stat, Raise, Goto
<1>3. ASSUME NEW w \in Writers, PutObject(w) PROVE TypeOK'
  <2>1. Stored(job[w]) \in Objects
    BY StoredType DEF TypeOK
  <2>2. store' \in [Keys -> Objects \cup {Nothing}]
    BY <1>3, <2>1 DEF TypeOK, PutObject
  <2> QED
    BY <1>3, <2>2 DEF TypeOK, PutObject, Goto
<1>4. ASSUME NEW w \in Writers, Handled(w) PROVE TypeOK'
  BY <1>4, NoJobType DEF TypeOK, Handled, Goto
<1>5. ASSUME NEW k \in Keys, delete(k) PROVE TypeOK'
  <2>1. undisturbed' \in [Writers -> BOOLEAN]
    BY <1>5 DEF TypeOK, delete
  <2>2. store' \in [Keys -> Objects \cup {Nothing}]
    BY <1>5 DEF TypeOK, delete
  <2>3. deletes' \in 0 .. MaxDeletes
    BY <1>5, BlobStoreAssumption DEF TypeOK, delete
  <2> QED
    BY <1>5, <2>1, <2>2, <2>3 DEF TypeOK, delete
<1> QED
  BY <1>1, <1>2, <1>3, <1>4, <1>5

----------------------------------------------------------------------------
(* A returned put is stored *)

\* The first state satisfies Inv.
LEMMA InitInv == Init => Inv
<1> SUFFICES ASSUME Init PROVE Inv
  OBVIOUS
<1> QED
  BY InitType DEF Init, Inv, JobsAreSound, ObjectsAreSound, ReturnedIsStored

\* A call only brings in a sound job.
LEMMA CallInv ==
    ASSUME Inv, NEW w \in Writers, NEW j \in Jobs, Call(w, j),
           j.short => j.sized, j.content \in ContentsOf(j.key)
    PROVE  Inv'
<1>1. TypeOK'
  BY StepType DEF Inv
<1>2. /\ pc' = [pc EXCEPT ![w] = "exists"] /\ job' = [job EXCEPT ![w] = j]
      /\ undisturbed' = [undisturbed EXCEPT ![w] = TRUE] /\ store' = store
  BY DEF Call, Goto
<1>3. JobsAreSound'
  BY <1>2 DEF Inv, TypeOK, JobsAreSound
<1>4. ObjectsAreSound'
  BY <1>2 DEF Inv, ObjectsAreSound
<1>5. ReturnedIsStored'
  <2> SUFFICES ASSUME NEW v \in Writers, pc'[v] = "returned", undisturbed'[v]
               PROVE  store'[job'[v].key].whole
    BY DEF ReturnedIsStored
  <2>1. v # w
    BY <1>2 DEF Inv, TypeOK
  <2>2. pc[v] = "returned" /\ undisturbed[v] /\ job'[v] = job[v]
    BY <1>2, <2>1 DEF Inv, TypeOK
  <2> QED
    BY <1>2, <2>2 DEF Inv, ReturnedIsStored
<1> QED
  BY <1>1, <1>3, <1>4, <1>5 DEF Inv

\* exists(key): what it finds is whole.
LEMMA StatInv == ASSUME Inv, NEW w \in Writers, Stat(w) PROVE Inv'
<1>1. TypeOK'
  BY StepType DEF Inv
<1>2. /\ pc[w] = "exists"
      /\ pc' = [pc EXCEPT ![w] = IF store[job[w].key] # Nothing THEN "returned" ELSE "write"]
      /\ UNCHANGED <<store, job, undisturbed>>
  BY DEF Stat, Goto
<1>3. JobsAreSound' /\ ObjectsAreSound'
  BY <1>2 DEF Inv, TypeOK, JobsAreSound, ObjectsAreSound
<1>4. ReturnedIsStored'
  <2> SUFFICES ASSUME NEW v \in Writers, pc'[v] = "returned", undisturbed'[v]
               PROVE  store[job[v].key].whole
    BY <1>2 DEF ReturnedIsStored
  <2>1. job[v].key \in Keys
    BY DEF Inv, TypeOK, Jobs
  <2>2. CASE v = w
    BY <1>2, <2>1, <2>2 DEF Inv, TypeOK, ObjectsAreSound
  <2>3. CASE v # w
    BY <1>2, <2>3 DEF Inv, TypeOK, ReturnedIsStored
  <2> QED
    BY <2>2, <2>3
<1> QED
  BY <1>1, <1>3, <1>4 DEF Inv

\* What a call uploads past the size check is whole, has the content of its
\* job and is not Nothing.
LEMMA UploadIsSound ==
    ASSUME Inv, NEW w \in Writers, PutObject(w)
    PROVE  /\ Stored(job[w]) # Nothing
           /\ Stored(job[w]).whole
           /\ Stored(job[w]).content \in ContentsOf(job[w].key)
           /\ ~ job[w].short /\ job[w].content \in ContentsOf(job[w].key)
<1>1. job[w] \in Jobs /\ pc[w] # "idle" /\ ~ (job[w].sized /\ job[w].short)
  BY DEF Inv, TypeOK, PutObject, SizeMismatch
<1>2. ~ job[w].short
  BY <1>1 DEF Inv, JobsAreSound
<1>3. Stored(job[w]).whole /\ Stored(job[w]).content = job[w].content
  BY <1>2 DEF Stored
<1>4. job[w].content \in ContentsOf(job[w].key)
  BY <1>1 DEF Inv, JobsAreSound
<1> QED
  BY <1>1, <1>2, <1>3, <1>4, StoredType, NothingIsNoObject

\* put_object: it may replace what another writer stored since exists, but by
\* a whole object.
LEMMA PutObjectInv == ASSUME Inv, NEW w \in Writers, PutObject(w) PROVE Inv'
<1> DEFINE o == Stored(job[w])
           k == job[w].key
<1>1. TypeOK'
  BY StepType DEF Inv
<1>2. PICK point \in {"returned", "raised"} : pc' = [pc EXCEPT ![w] = point]
  BY DEF PutObject, Goto
<1>3. /\ store' = [store EXCEPT ![k] = o]
      /\ UNCHANGED <<job, undisturbed>>
      /\ pc[w] # "idle"
  BY DEF PutObject
<1>4. o # Nothing /\ o.whole /\ o.content \in ContentsOf(k)
  BY UploadIsSound
<1>5. k \in Keys
  BY DEF Inv, TypeOK, Jobs
<1> HIDE DEF o, k
<1>6. JobsAreSound'
  BY <1>2, <1>3 DEF Inv, TypeOK, JobsAreSound
<1>7. ObjectsAreSound'
  BY <1>3, <1>4, <1>5 DEF Inv, TypeOK, ObjectsAreSound
<1>8. ReturnedIsStored'
  <2> SUFFICES ASSUME NEW v \in Writers, pc'[v] = "returned", undisturbed'[v]
               PROVE  store'[job[v].key].whole
    BY <1>3 DEF ReturnedIsStored
  <2>1. job[v].key \in Keys
    BY DEF Inv, TypeOK, Jobs
  <2>2. CASE job[v].key = k
    BY <1>3, <1>4, <1>5, <2>2 DEF Inv, TypeOK
  <2>3. CASE job[v].key # k
    <3>1. v # w
      BY <2>3 DEF k
    <3>2. pc[v] = "returned" /\ undisturbed[v]
      BY <1>2, <1>3, <3>1 DEF Inv, TypeOK
    <3> QED
      BY <1>3, <2>1, <2>3, <3>2 DEF Inv, TypeOK, ReturnedIsStored
  <2> QED
    BY <2>2, <2>3
<1> QED
  BY <1>1, <1>6, <1>7, <1>8 DEF Inv

\* Raise and Handled end a call and leave the store alone.
LEMMA EndInv == ASSUME Inv, NEW w \in Writers, Raise(w) \/ Handled(w) PROVE Inv'
<1>1. TypeOK'
  BY StepType DEF Inv
<1>2. /\ store' = store
      /\ \A v \in Writers \ {w} : /\ pc'[v] = pc[v] /\ job'[v] = job[v]
                                  /\ undisturbed'[v] = undisturbed[v]
      /\ pc'[w] = "idle" \/ (pc[w] # "idle" /\ pc'[w] = "raised" /\ job'[w] = job[w])
  BY DEF Inv, TypeOK, Raise, Handled, Goto
<1>3. JobsAreSound' /\ ObjectsAreSound'
  BY <1>2 DEF Inv, JobsAreSound, ObjectsAreSound
<1>4. ReturnedIsStored'
  BY <1>2 DEF Inv, ReturnedIsStored
<1> QED
  BY <1>1, <1>3, <1>4 DEF Inv

\* delete disturbs the calls that put its key and no other.
LEMMA DeleteInv == ASSUME Inv, NEW k \in Keys, delete(k) PROVE Inv'
<1>1. TypeOK'
  BY StepType DEF Inv
<1>2. /\ store' = [store EXCEPT ![k] = Nothing]
      /\ undisturbed' = [w \in Writers |-> undisturbed[w] /\ job[w].key # k]
      /\ UNCHANGED <<pc, job>>
  BY DEF delete
<1>3. JobsAreSound'
  BY <1>2 DEF Inv, JobsAreSound
<1>4. ObjectsAreSound'
  BY <1>2 DEF Inv, TypeOK, ObjectsAreSound
<1>5. ReturnedIsStored'
  <2> SUFFICES ASSUME NEW v \in Writers, pc'[v] = "returned", undisturbed'[v]
               PROVE  store'[job[v].key].whole
    BY <1>2 DEF ReturnedIsStored
  <2>1. undisturbed[v] /\ job[v].key # k
    BY <1>2
  <2>2. job[v].key \in Keys
    BY DEF Inv, TypeOK, Jobs
  <2> QED
    BY <1>2, <2>1, <2>2 DEF Inv, TypeOK, ReturnedIsStored
<1> QED
  BY <1>1, <1>3, <1>4, <1>5 DEF Inv

\* Every step keeps Inv when the sizes are given.
LEMMA NextInv == SizesAreGiven /\ Inv /\ [Next]_vars => Inv'
<1> SUFFICES ASSUME SizesAreGiven, Inv, [Next]_vars PROVE Inv'
  OBVIOUS
<1>1. CASE UNCHANGED vars
  BY <1>1 DEF vars, Inv, TypeOK, JobsAreSound, ObjectsAreSound, ReturnedIsStored
<1>2. CASE Next
  BY <1>2, NextForm, CallInv, StatInv, PutObjectInv, EndInv, DeleteInv
<1> QED
  BY <1>1, <1>2

\* Type correctness and soundness of what is stored, while sizes are given.
THEOREM Invariance == ASSUME SizesAreGiven PROVE Spec => []Inv
<1>1. Inv /\ [Next]_vars => Inv'
  BY NextInv
<1> QED
  BY <1>1, InitInv, PTL DEF Spec

\* A put or put_stream that returned has its whole object in the store, for
\* any number of concurrent writers, unless the key was deleted meanwhile.
THEOREM ReturnedStored == ASSUME SizesAreGiven PROVE Spec => []ReturnedIsStored
<1>1. Inv => ReturnedIsStored
  BY DEF Inv
<1> QED
  BY <1>1, Invariance, PTL

----------------------------------------------------------------------------
(* The contract *)

\* The contract's variables, as Contract instantiates them.
present == [k \in Addressed |-> store[k]]

CallOf(point, j) ==
    IF point = "idle" \/ j.key \notin Addressed THEN "none"
    ELSE IF point \in {"exists", "write"} THEN "pending"
    ELSE point

KeyOf(point, j) == IF point # "idle" /\ j.key \in Addressed THEN j.key ELSE Nothing

call == [w \in Writers |-> CallOf(pc[w], job[w])]
key == [w \in Writers |-> KeyOf(pc[w], job[w])]

\* What a step of one writer does to the contract's view of the calls.
LEMMA CallStep ==
    ASSUME NEW w \in Writers,
           \A v \in Writers \ {w} : pc'[v] = pc[v] /\ job'[v] = job[v]
    PROVE  /\ call' = [call EXCEPT ![w] = CallOf(pc'[w], job'[w])]
           /\ key' = [key EXCEPT ![w] = KeyOf(pc'[w], job'[w])]
BY DEF call, key

\* When neither the addressed objects nor the view of the calls change, the
\* contract stutters.
LEMMA Stutter ==
    ASSUME present' = present, call' = call, key' = key
    PROVE  UNCHANGED Contract!vars
BY DEF Contract!vars, present, call, key, CallOf, KeyOf

\* The first state is one of the contract's.
LEMMA InitContract == Init => Contract!Init
BY BlobStoreAssumption DEF Init, Contract!Init

\* A call for an addressed key is the contract's; another is not its business.
LEMMA CallContract ==
    ASSUME TypeOK, NEW w \in Writers, NEW j \in Jobs, Call(w, j)
    PROVE  Contract!Next \/ UNCHANGED Contract!vars
<1>1. /\ pc[w] = "idle" /\ pc'[w] = "exists" /\ job'[w] = j /\ store' = store
      /\ \A v \in Writers \ {w} : pc'[v] = pc[v] /\ job'[v] = job[v]
  BY DEF TypeOK, Call, Goto
<1>2. /\ call[w] = "none" /\ key[w] = Nothing /\ present' = present
      /\ call' = [call EXCEPT ![w] = CallOf("exists", j)]
      /\ key' = [key EXCEPT ![w] = KeyOf("exists", j)]
  BY <1>1, CallStep DEF call, key, present, CallOf, KeyOf
<1>3. CASE j.key \in Addressed
  <2>1. CallOf("exists", j) = "pending" /\ KeyOf("exists", j) = j.key
    BY <1>3 DEF CallOf, KeyOf
  <2>2. Contract!Put(w, j.key)
    BY <1>2, <2>1 DEF Contract!Put, call, key, present, CallOf, KeyOf
  <2> QED
    BY <1>3, <2>2 DEF Contract!Next
<1>4. CASE j.key \notin Addressed
  <2>1. CallOf("exists", j) = "none" /\ KeyOf("exists", j) = Nothing
    BY <1>4 DEF CallOf, KeyOf
  <2>2. call' = call /\ key' = key
    BY <1>2, <2>1 DEF call, key
  <2> QED
    BY <1>2, <2>2, Stutter
<1> QED
  BY <1>3, <1>4

\* The store changes of an effect: an addressed key gets its only content
\* where it had none, and keeps it otherwise.
LEMMA TakesContract ==
    ASSUME TypeOK, NEW w \in Writers, NEW end \in {"returned", "raised"},
           pc[w] \in {"exists", "write"}, job[w].key \in Addressed,
           pc' = [pc EXCEPT ![w] = end], job' = job,
           present' = [present EXCEPT ![job[w].key] =
                          IF @ = Nothing THEN [content |-> 1, whole |-> TRUE] ELSE @]
    PROVE  Contract!Next
<1> DEFINE k == job[w].key
           C == [q \in Addressed |-> [content |-> 1, whole |-> TRUE]]
<1>1. call[w] = "pending" /\ key[w] = k
  BY DEF call, key, CallOf, KeyOf
<1>2. /\ call' = [call EXCEPT ![w] = CallOf(end, job[w])]
      /\ key' = [key EXCEPT ![w] = KeyOf(end, job[w])]
  BY CallStep DEF TypeOK
<1>3. CallOf(end, job[w]) = end /\ KeyOf(end, job[w]) = k
  BY DEF CallOf, KeyOf
<1>4. call' = [call EXCEPT ![w] = end] /\ key' = key
  BY <1>1, <1>2, <1>3 DEF key
<1>5. C[k] = [content |-> 1, whole |-> TRUE]
  OBVIOUS
<1>6. present' = [present EXCEPT ![key[w]] = IF @ = Nothing THEN C[key[w]] ELSE @]
  BY <1>1, <1>5
<1>7. Contract!Takes(w)
  BY <1>1, <1>4, <1>6 DEF Contract!Takes, present, call, key, CallOf, KeyOf
<1> QED
  BY <1>7 DEF Contract!Next

\* exists(key) that finds the object is the effect of the call; one that finds
\* nothing is not seen.
LEMMA StatContract ==
    ASSUME Inv, NEW w \in Writers, Stat(w)
    PROVE  Contract!Next \/ UNCHANGED Contract!vars
<1> DEFINE k == job[w].key
           end == IF store[k] # Nothing THEN "returned" ELSE "write"
<1>1. /\ pc[w] = "exists" /\ pc' = [pc EXCEPT ![w] = end]
      /\ job' = job /\ present' = present
  BY DEF Stat, Goto, present
<1>t. TypeOK
  BY DEF Inv
<1>2. CASE k \in Addressed /\ store[k] # Nothing
  <2>1. present' = [present EXCEPT ![k] = IF @ = Nothing THEN [content |-> 1, whole |-> TRUE]
                                                         ELSE @]
    BY <1>1, <1>2 DEF present
  <2>2. end = "returned"
    BY <1>2
  <2> QED
    BY <1>1, <1>2, <1>t, <2>1, <2>2, TakesContract
<1>3. CASE ~ (k \in Addressed /\ store[k] # Nothing)
  <2>1. /\ call' = [call EXCEPT ![w] = CallOf(end, job[w])]
        /\ key' = [key EXCEPT ![w] = KeyOf(end, job[w])]
    BY <1>1, <1>t, CallStep DEF TypeOK
  <2>2. CallOf(end, job[w]) = CallOf(pc[w], job[w]) /\ KeyOf(end, job[w]) = KeyOf(pc[w], job[w])
    BY <1>1, <1>3 DEF CallOf, KeyOf
  <2>3. call' = call /\ key' = key
    BY <2>1, <2>2 DEF call, key
  <2> QED
    BY <1>1, <2>3, Stutter
<1> QED
  BY <1>2, <1>3

\* put_object is the effect of the call, also when another writer's object is
\* there: the two are the same.
LEMMA PutObjectContract ==
    ASSUME Inv, NEW w \in Writers, PutObject(w)
    PROVE  Contract!Next \/ UNCHANGED Contract!vars
<1> DEFINE k == job[w].key
           o == Stored(job[w])
<1>1. PICK end \in {"returned", "raised"} : pc' = [pc EXCEPT ![w] = end]
  BY DEF PutObject, Goto
<1>2. pc[w] = "write" /\ job' = job /\ store' = [store EXCEPT ![k] = o]
  BY DEF PutObject
<1>3. TypeOK /\ k \in Keys
  BY DEF Inv, TypeOK, Jobs
<1>4. CASE k \in Addressed
  <2> DEFINE C == [content |-> 1, whole |-> TRUE]
  <2>1. o = C
    <3>1. o = [content |-> job[w].content, whole |-> ~ job[w].short]
      BY DEF Stored
    <3>2. ~ job[w].short /\ job[w].content \in {1}
      BY <1>4, UploadIsSound DEF ContentsOf
    <3>3. job[w].content = 1
      BY <3>2
    <3>4. (~ job[w].short) = TRUE
      BY <3>2
    <3> QED
      BY <3>1, <3>3, <3>4
  <2>2. store[k] = Nothing \/ store[k] = C
    <3>1. CASE store[k] # Nothing
      <4>1. store[k] \in Objects /\ store[k].whole /\ store[k].content \in {1}
        BY <1>3, <1>4, <3>1 DEF Inv, TypeOK, ObjectsAreSound, ContentsOf
      <4>2. store[k].whole = TRUE /\ store[k].content = 1
        BY <4>1 DEF Objects
      <4> QED
        BY <4>1, <4>2 DEF Objects
    <3> QED
      BY <3>1
  <2> HIDE DEF C, o
  <2>3. present' = [present EXCEPT ![k] = IF @ = Nothing THEN C ELSE @]
    BY <1>2, <1>3, <1>4, <2>1, <2>2 DEF present, TypeOK
  <2> QED
    BY <1>1, <1>2, <1>3, <1>4, <2>3, TakesContract DEF C
<1>5. CASE k \notin Addressed
  <2>1. present' = present
    BY <1>2, <1>3, <1>5, BlobStoreAssumption DEF present, TypeOK
  <2>2. /\ call' = [call EXCEPT ![w] = CallOf(end, job[w])]
        /\ key' = [key EXCEPT ![w] = KeyOf(end, job[w])]
    BY <1>1, <1>2, <1>3, CallStep DEF TypeOK
  <2>3. CallOf(end, job[w]) = call[w] /\ KeyOf(end, job[w]) = key[w]
    BY <1>5 DEF call, key, CallOf, KeyOf
  <2>4. call' = call /\ key' = key
    BY <2>2, <2>3 DEF call, key
  <2> QED
    BY <2>1, <2>4, Stutter
<1> QED
  BY <1>4, <1>5

\* A call that fails, and a caller that takes its answer.
LEMMA EndContract ==
    ASSUME TypeOK, NEW w \in Writers, Raise(w) \/ Handled(w)
    PROVE  Contract!Next \/ UNCHANGED Contract!vars
<1> DEFINE k == job[w].key
<1>1. /\ present' = present
      /\ call' = [call EXCEPT ![w] = CallOf(pc'[w], job'[w])]
      /\ key' = [key EXCEPT ![w] = KeyOf(pc'[w], job'[w])]
  <2>1. \A v \in Writers \ {w} : pc'[v] = pc[v] /\ job'[v] = job[v]
    BY DEF TypeOK, Raise, Handled, Goto
  <2> QED
    BY <2>1, CallStep DEF present, Raise, Handled
<1>2. \/ pc[w] \in {"exists", "write"} /\ pc'[w] = "raised" /\ job'[w] = job[w]
      \/ pc[w] \in {"returned", "raised"} /\ pc'[w] = "idle"
  BY DEF TypeOK, Raise, Handled, Goto
<1>3. CASE k \notin Addressed
  <2>1. CallOf(pc'[w], job'[w]) = call[w] /\ KeyOf(pc'[w], job'[w]) = key[w]
    BY <1>2, <1>3 DEF call, key, CallOf, KeyOf
  <2>2. call' = call /\ key' = key
    BY <1>1, <2>1 DEF call, key
  <2> QED
    BY <1>1, <2>2, Stutter
<1>4. CASE k \in Addressed /\ pc'[w] = "raised"
  <2>1. call[w] = "pending" /\ CallOf(pc'[w], job'[w]) = "raised"
    BY <1>2, <1>4 DEF call, CallOf
  <2>2. key' = key
    BY <1>1, <1>2, <1>4 DEF key, KeyOf
  <2>3. Contract!Rejects(w)
    BY <1>1, <2>1, <2>2 DEF Contract!Rejects, present, call, key, CallOf, KeyOf
  <2> QED
    BY <2>3 DEF Contract!Next
<1>5. CASE k \in Addressed /\ pc'[w] = "idle"
  <2>1. /\ call[w] \in {"returned", "raised"} /\ CallOf(pc'[w], job'[w]) = "none"
        /\ KeyOf(pc'[w], job'[w]) = Nothing
    BY <1>2, <1>5 DEF call, CallOf, KeyOf
  <2>2. Contract!Done(w)
    BY <1>1, <2>1 DEF Contract!Done, present, call, key, CallOf, KeyOf
  <2> QED
    BY <2>2 DEF Contract!Next
<1> QED
  BY <1>2, <1>3, <1>4, <1>5

\* delete of an addressed key is the contract's.
LEMMA DeleteContract ==
    ASSUME TypeOK, NEW k \in Keys, delete(k)
    PROVE  Contract!Next \/ UNCHANGED Contract!vars
<1>1. store' = [store EXCEPT ![k] = Nothing] /\ call' = call /\ key' = key
  BY DEF delete, call, key
<1>2. CASE k \in Addressed
  <2>1. present' = [present EXCEPT ![k] = Nothing]
    BY <1>1, <1>2, BlobStoreAssumption DEF TypeOK, present
  <2>2. Contract!Delete(k)
    BY <1>1, <2>1 DEF Contract!Delete, present, call, key, CallOf, KeyOf
  <2> QED
    BY <1>2, <2>2 DEF Contract!Next
<1>3. CASE k \notin Addressed
  <2>1. present' = present
    BY <1>1, <1>3, BlobStoreAssumption DEF TypeOK, present
  <2> QED
    BY <1>1, <2>1, Stutter
<1> QED
  BY <1>2, <1>3

\* Every step of the store is a step of the contract or none.
LEMMA NextContract ==
    SizesAreGiven /\ Inv /\ [Next]_vars => [Contract!Next]_(Contract!vars)
<1> SUFFICES ASSUME SizesAreGiven, Inv, [Next]_vars
             PROVE  Contract!Next \/ UNCHANGED Contract!vars
  OBVIOUS
<1>1. CASE UNCHANGED vars
  <2>1. present' = present /\ call' = call /\ key' = key
    BY <1>1 DEF vars, present, call, key
  <2> QED
    BY <2>1, Stutter
<1>2. CASE Next
  <2>1. TypeOK
    BY DEF Inv
  <2> QED
    BY <1>2, <2>1, NextForm, CallContract, StatContract, PutObjectContract, EndContract,
       DeleteContract
<1> QED
  BY <1>1, <1>2

\* MinioBlobStore implements the contract for content-addressed keys: although
\* put checks and writes in two requests, every call has its effect at one
\* instant and no object is replaced by another.
THEOREM ContractImplemented == ASSUME SizesAreGiven PROVE Spec => ImplementsContract
<1>1. Inv /\ [Next]_vars => [Contract!Next]_(Contract!vars)
  BY NextContract
<1> QED
  BY <1>1, InitContract, Invariance, PTL DEF Spec, ImplementsContract, Contract!Spec
=============================================================================
