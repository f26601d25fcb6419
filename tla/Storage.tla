------------------------------- MODULE Storage -------------------------------
(***************************************************************************)
(* put_pages (ContentPages) through the process-wide client that the       *)
(* storage factory hands out and closes (StoreLifecycle): a caller gets    *)
(* the content store from get_content_store, keeps it, and uses it later,  *)
(* while another coroutine may run close_stores.                           *)
(*                                                                         *)
(* The driver is external: on a closed client a new operation raises       *)
(* InvalidOperation, while one that was sent before goes on.               *)
(***************************************************************************)
EXTENDS ContentPages

CONSTANTS
    Closers,    \* coroutines that call close_stores
    MaxMade     \* bound on the clients made per store

VARIABLES
    installed, made, closed, pc, target, lost,  \* see StoreLifecycle
    client      \* client[a]: the content client of the a-th call, 0 before it has one

L == INSTANCE StoreLifecycle

\* Call a has had its answer for page p, and has not raised.
Done(a, p) ==
    \/ call[a] = "returned"
    \/ /\ call[a] = "batch"
       /\ p < start[a] + UPSERT_BATCH_SIZE
       /\ p < start[a] \/ <<a, p>> \notin flying

WrittenBy == [a \in Calls |-> {p \in Pages : Done(a, p)}]

Contract == INSTANCE PagesContract WITH
                Pages <- Pages, Calls <- Calls, rows <- rows, call <- call,
                written <- WrittenBy, keyed <- unique

storeVars == <<installed, made, closed, pc, target, lost>>
allVars == <<vars, storeVars, client>>

StorageInit ==
    /\ Init
    /\ L!Init
    /\ client = [a \in Calls |-> 0]

\* content_store_dep, or get_content_store in a worker: the installed client,
\* or a new one.
TakeStore(a) ==
    /\ MayCall(a)
    /\ client[a] = 0
    /\ \/ installed["content"] # 0 /\ UNCHANGED storeVars
       \/ L!GetStore("content")
    /\ client' = [client EXCEPT ![a] = installed'["content"]]
    /\ UNCHANGED vars

Closed(a) == <<"content", client[a]>> \in closed

\* put_pages is called on that client.
Put(a) ==
    /\ client[a] # 0
    /\ ~ Closed(a) \/ Pages = {}
    /\ PutPages(a)
    /\ UNCHANGED <<storeVars, client>>

\* The call goes on, or it is over and needs the client no more.
Continue(a) ==
    /\ ~ Closed(a) \/ NextStart(a) > NumPages
    /\ NextBatch(a)
    /\ UNCHANGED <<storeVars, client>>

\* The first upsert, or the first of the next batch, finds the client closed:
\* put_pages raises IpaError and nothing was sent.
ClosedRaises(a) ==
    /\ Closed(a)
    /\ \/ MayCall(a) /\ Pages # {}
       \/ BatchOver(a) /\ NextStart(a) <= NumPages
    /\ call' = [call EXCEPT ![a] = "raised"]
    /\ UNCHANGED <<unique, rows, flying, missed, start, left, storeVars, client>>

\* What MongoDB does with an upsert.
Answer(u) == (Replace(u) \/ Miss(u) \/ Insert(u)) /\ UNCHANGED <<storeVars, client>>

Fail(u) == UpsertFails(u) /\ UNCHANGED <<storeVars, client>>

\* A process runs init_storage.
Index == CreateIndex /\ UNCHANGED <<storeVars, client>>

\* Other coroutines use and close the stores.
Get(s) == L!GetStore(s) /\ UNCHANGED <<vars, client>>
AtOnce(t) == L!CloseAtOnce(t) /\ UNCHANGED <<vars, client>>
Begins(t) == L!CloseBegins(t) /\ UNCHANGED <<vars, client>>
Ends(t) == L!CloseEnds(t) /\ UNCHANGED <<vars, client>>
Fails(t) == L!CloseFails(t) /\ UNCHANGED <<vars, client>>

StorageNext ==
    \/ \E a \in Calls : TakeStore(a) \/ Put(a) \/ Continue(a) \/ ClosedRaises(a)
    \/ \E u \in flying : Answer(u) \/ Fail(u)
    \/ Index
    \/ \E s \in L!Stores : Get(s)
    \/ \E t \in Closers : AtOnce(t) \/ Begins(t) \/ Ends(t) \/ Fails(t)

StorageSpec == StorageInit /\ [][StorageNext]_allVars

\* The event loop resumes a call whose batch was answered, also to tell it
\* that its client is closed, and the server answers every upsert; failures
\* and the closing of the stores are not fair.
FairSpec ==
    /\ StorageSpec
    /\ \A a \in Calls :
          /\ WF_allVars(Continue(a) \/ ClosedRaises(a))
          /\ \A p \in Pages : WF_allVars(Answer(<<a, p>>))

----------------------------------------------------------------------------
(* Properties *)

\* The clients of a store that were made and not closed.
Open(s) == {<<s, n>> : n \in 1 .. made[s]} \ closed

\* "a process holds at most one client pool per backend", and close_stores
\* must "neither leak the others nor leave a closed client installed": of a
\* store with a connection pool, the open clients are exactly the one that is
\* installed.  One exception: when aclose() raises, the content client is
\* forgotten without having been closed.
NoClientLeaks ==
    \A s \in L!Pooled : Open(s) \ lost = {<<s, n>> : n \in {installed[s]} \ {0}}

\* put_pages, with its batches, the upserts that outlive a failed call and
\* the clients closed under it, keeps the promise of the ContentStore
\* protocol: a page is written at one instant, and a call that returned has
\* written every page and will write none any more; from the moment the unique
\* index is there, a write leaves one row of its page.
ImplementsPages == Contract!Spec
=============================================================================
