--------------------------- MODULE StoreLifecycle ---------------------------
(***************************************************************************)
(* The storage singletons of a process (src/ipa/storage/factory.py): the   *)
(* get_ functions that create them on first use and close_stores, run by   *)
(* the coroutines of one event loop.                                       *)
(*                                                                         *)
(* Only an await lets another coroutine run, so close_stores is two steps: *)
(* up to the await of the cache client's aclose(), and from there to the   *)
(* end.                                                                    *)
(***************************************************************************)
EXTENDS Naturals

CONSTANTS
    Closers,    \* coroutines that call close_stores
    MaxMade     \* bound on the clients made per store

VARIABLES
    installed,  \* installed[s]: the number of the client installed, 0 for None
    made,       \* made[s]: clients made so far
    closed,     \* clients that were closed, as pairs <<store, number>>
    pc,         \* pc[t]: "idle", or "aclose" while t awaits the cache client
    target,     \* target[t]: the cache client t is closing
    lost        \* history: content clients forgotten because aclose() raised

vars == <<installed, made, closed, pc, target, lost>>

\* The blob client holds no connection pool and is never closed.
Stores == {"blob", "content", "cache"}
Pooled == {"content", "cache"}

Init ==
    /\ installed = [s \in Stores |-> 0]
    /\ made = [s \in Stores |-> 0]
    /\ closed = {}
    /\ pc = [t \in Closers |-> "idle"]
    /\ target = [t \in Closers |-> 0]
    /\ lost = {}

\* get_blob_store, get_content_store, get_cache_store, of any coroutine.
GetStore(s) ==
    /\ installed[s] = 0
    /\ made[s] < MaxMade
    /\ made' = [made EXCEPT ![s] = @ + 1]
    /\ installed' = [installed EXCEPT ![s] = made[s] + 1]
    /\ UNCHANGED <<closed, pc, target, lost>>

\* Mutant: the content store is not forgotten.
ForgetOthers == installed' = [installed EXCEPT !["blob"] = 0, !["cache"] = 0]

\* The finally clause.
Forget == installed' = [s \in Stores |-> 0]

\* _content_store.close(), if there is one.
ContentClosed ==
    IF installed["content"] # 0 THEN {<<"content", installed["content"]>>} ELSE {}

\* close_stores with no cache client: there is nothing to await.
CloseAtOnce(t) ==
    /\ pc[t] = "idle"
    /\ installed["cache"] = 0
    /\ closed' = closed \cup ContentClosed
    /\ Forget
    /\ UNCHANGED <<made, pc, target, lost>>

\* close_stores reaches "await _cache_store.aclose()".
CloseBegins(t) ==
    /\ pc[t] = "idle"
    /\ installed["cache"] # 0
    /\ pc' = [pc EXCEPT ![t] = "aclose"]
    /\ target' = [target EXCEPT ![t] = installed["cache"]]
    /\ UNCHANGED <<installed, made, closed, lost>>

\* The await returns; the rest runs without another await.
CloseEnds(t) ==
    /\ pc[t] = "aclose"
    /\ closed' = closed \cup {<<"cache", target[t]>>} \cup ContentClosed
    /\ Forget
    /\ pc' = [pc EXCEPT ![t] = "idle"]
    /\ target' = [target EXCEPT ![t] = 0]
    /\ UNCHANGED <<made, lost>>

\* The await raises, or is cancelled: the finally clause is all that runs.
\* The cache client's own pool is counted as closed.
CloseFails(t) ==
    /\ pc[t] = "aclose"
    /\ closed' = closed \cup {<<"cache", target[t]>>}
    /\ Forget
    /\ pc' = [pc EXCEPT ![t] = "idle"]
    /\ target' = [target EXCEPT ![t] = 0]
    /\ lost' = lost \cup ContentClosed
    /\ UNCHANGED made
=============================================================================
