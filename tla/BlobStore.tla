------------------------------ MODULE BlobStore ------------------------------
(***************************************************************************)
(* MinioBlobStore (src/ipa/storage/blob.py): put, put_stream and delete by *)
(* concurrent writers.  put is check-then-write: exists(key) and           *)
(* put_object are two requests run in threads.                             *)
(*                                                                         *)
(* The object store is external: put_object replaces an object as a whole, *)
(* and its answer may be lost.                                             *)
(***************************************************************************)
EXTENDS Naturals

CONSTANTS
    Writers,    \* coroutines that use the store
    Keys,       \* blob keys
    Addressed,  \* the content-addressed keys (original_key): one key has one
                \* content; page_key and thumb_key are not addressed
    Sized,      \* whether callers of put_stream give the size: a subset of BOOLEAN
    MaxDeletes  \* bound on the deletions

ASSUME BlobStoreAssumption ==
    /\ Keys # {} /\ Addressed \subseteq Keys
    /\ Sized \subseteq BOOLEAN
    /\ MaxDeletes \in Nat

VARIABLES
    store,      \* store[k]: the object under k
    pc,         \* pc[w]: where writer w is in its put or put_stream
    job,        \* job[w]: what it is putting
    undisturbed,\* history: no delete of that key was done since the call
    deletes     \* deletions so far

vars == <<store, pc, job, undisturbed, deletes>>

Contents == {1, 2}

\* What may be put under a key.
ContentsOf(k) == IF k \in Addressed THEN {1} ELSE Contents

\* whole: all the bytes of the content are there.
Objects == [content : Contents, whole : BOOLEAN]
Nothing == [content |-> 0, whole |-> FALSE]

\* short: the reader of a stream ends early; sized: the caller gave the size.
Jobs == [key : Keys, content : Contents, short : BOOLEAN, sized : BOOLEAN]

NoJob == CHOOSE j \in Jobs : TRUE

Init ==
    /\ store = [k \in Keys |-> Nothing]
    /\ pc = [w \in Writers |-> "idle"]
    /\ job = [w \in Writers |-> NoJob]
    /\ undisturbed = [w \in Writers |-> TRUE]
    /\ deletes = 0

Goto(w, point) == pc' = [pc EXCEPT ![w] = point]

Call(w, j) ==
    /\ pc[w] = "idle"
    /\ job' = [job EXCEPT ![w] = j]
    /\ undisturbed' = [undisturbed EXCEPT ![w] = TRUE]
    /\ Goto(w, "exists")
    /\ UNCHANGED <<store, deletes>>

\* put has all the bytes in hand.
put(w, k, content) ==
    Call(w, [key |-> k, content |-> content, short |-> FALSE, sized |-> TRUE])

\* put_stream gets them from a reader, which may end early.
put_stream(w, k, content, short, sized) ==
    Call(w, [key |-> k, content |-> content, short |-> short, sized |-> sized])

\* exists(key): an existing object is left alone and counts as stored.
Stat(w) ==
    /\ pc[w] = "exists"
    /\ Goto(w, IF store[job[w].key] # Nothing THEN "returned" ELSE "write")
    /\ UNCHANGED <<store, job, undisturbed, deletes>>

\* Mutant: the declared size is not compared.
SizeIgnored(j) == FALSE

\* A stream whose length is not the declared size is refused.
SizeMismatch(j) == j.sized /\ j.short

\* Mutant: the spool is not rewound before the upload.
StoredUnrewound(j) == [content |-> 0, whole |-> TRUE]

Stored(j) == [content |-> j.content, whole |-> ~ j.short]

\* put_object is done; the caller gets the key, or the answer is lost and it
\* gets an IpaError.
PutObject(w) ==
    /\ pc[w] = "write"
    /\ ~ SizeMismatch(job[w])
    /\ store' = [store EXCEPT ![job[w].key] = Stored(job[w])]
    /\ \E point \in {"returned", "raised"} : Goto(w, point)
    /\ UNCHANGED <<job, undisturbed, deletes>>

\* The size check, a request or the reader fails.
Raise(w) ==
    /\ pc[w] \in {"exists", "write"}
    /\ Goto(w, "raised")
    /\ UNCHANGED <<store, job, undisturbed, deletes>>

\* The caller takes the result; after an error it may call again.
Handled(w) ==
    /\ pc[w] \in {"returned", "raised"}
    /\ Goto(w, "idle")
    /\ job' = [job EXCEPT ![w] = NoJob]
    /\ undisturbed' = [undisturbed EXCEPT ![w] = TRUE]
    /\ UNCHANGED <<store, deletes>>

\* remove_object succeeds whether or not the object is there.
delete(k) ==
    /\ deletes < MaxDeletes
    /\ deletes' = deletes + 1
    /\ store' = [store EXCEPT ![k] = Nothing]
    /\ undisturbed' = [w \in Writers |-> undisturbed[w] /\ job[w].key # k]
    /\ UNCHANGED <<pc, job>>

Next ==
    \/ \E w \in Writers :
          \/ \E k \in Keys : \E content \in ContentsOf(k) :
                \/ put(w, k, content)
                \/ \E short \in BOOLEAN, sized \in Sized :
                      put_stream(w, k, content, short, sized)
          \/ Stat(w)
          \/ PutObject(w)
          \/ Raise(w)
          \/ Handled(w)
    \/ \E k \in Keys : delete(k)

Spec == Init /\ [][Next]_vars

----------------------------------------------------------------------------
(* Properties *)

\* Every variable has its type.
TypeOK ==
    /\ store \in [Keys -> Objects \cup {Nothing}]
    /\ pc \in [Writers -> {"idle", "exists", "write", "returned", "raised"}]
    /\ job \in [Writers -> Jobs]
    /\ undisturbed \in [Writers -> BOOLEAN]
    /\ deletes \in 0 .. MaxDeletes

\* A put or put_stream that returned has its whole object stored, by itself
\* or by an earlier call, unless the key was deleted meanwhile, provided
\* that the callers of put_stream give the size.  As an existing key is never
\* written again, a truncated object would stay for good.
ReturnedIsStored ==
    \A w \in Writers :
        pc[w] = "returned" /\ undisturbed[w] => store[job[w].key].whole

\* The store as the contract sees it: the content-addressed keys, and the
\* calls that put one.
Contract == INSTANCE BlobContract WITH
    Keys <- Addressed,
    Content <- [k \in Addressed |-> [content |-> 1, whole |-> TRUE]],
    Absent <- Nothing,
    present <- [k \in Addressed |-> store[k]],
    call <- [w \in Writers |->
                IF pc[w] = "idle" \/ job[w].key \notin Addressed THEN "none"
                ELSE IF pc[w] \in {"exists", "write"} THEN "pending"
                ELSE pc[w]],
    key <- [w \in Writers |->
               IF pc[w] # "idle" /\ job[w].key \in Addressed THEN job[w].key ELSE Nothing]

\* MinioBlobStore implements the contract of BlobStore: although exists and
\* put_object are two requests and a stream may break off, concurrent puts,
\* put_streams and deletes of a content-addressed key look as if each had
\* happened at one instant, and no object is ever replaced by another one or
\* by a truncated one.  For the other keys two writers that both found
\* nothing do overwrite.
ImplementsContract == Contract!Spec
=============================================================================
