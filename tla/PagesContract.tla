---------------------------- MODULE PagesContract ----------------------------
(***************************************************************************)
(* What the ContentStore protocol (src/ipa/contracts/protocols.py)         *)
(* promises of put_pages, "idempotent: keyed on (document_id, page)", with *)
(* batches, requests and clients left out: a page is written at one        *)
(* instant, a call returns when it has written every page itself, and none *)
(* of its writes is to come after that.  A call that raised may have       *)
(* written pages, and may still write.  The promise "keyed" is that a      *)
(* write leaves one row of its page; it is kept from the moment the        *)
(* collection has the key, and before that a write may add a row.          *)
(***************************************************************************)
EXTENDS Naturals

CONSTANTS
    Pages,      \* pages of the document
    Calls       \* the calls of put_pages: numbers, in their order

VARIABLES
    keyed,      \* the collection has a key on (document_id, page)
    rows,       \* rows[p]: the calls whose text some row of page p holds
    call,       \* call[a]: "new", "batch" while it runs, "returned" or "raised"
    written     \* written[a]: the pages call a has written, while it can return

vars == <<keyed, rows, call, written>>

Init ==
    /\ keyed = FALSE
    /\ rows = [p \in Pages |-> {}]
    /\ call = [a \in Calls |-> "new"]
    /\ written = [a \in Calls |-> {}]

\* The calls come one after the other.
InTurn(a) == \A b \in Calls : b < a => call[b] \in {"returned", "raised"}

\* A key is given to a collection in which it holds.
GetsKey ==
    /\ \A p \in Pages : \A a, b \in rows[p] : a = b
    /\ keyed' = TRUE
    /\ UNCHANGED <<rows, call, written>>

Begins(a) ==
    /\ call[a] = "new" /\ InTurn(a)
    /\ call' = [call EXCEPT ![a] = "batch"]
    /\ UNCHANGED <<keyed, rows, written>>

\* Call a writes a row of page p, instead of another or beside the others;
\* with a key it is the one row of the page.
Overwrites(a, p) ==
    /\ \E old \in {{}} \cup {{b} : b \in rows[p]} :
          /\ keyed => old = rows[p]
          /\ rows' = [rows EXCEPT ![p] = (@ \ old) \cup {a}]
    /\ UNCHANGED keyed

\* It does so while the call runs,
Writes(a, p) ==
    /\ call[a] = "batch"
    /\ Overwrites(a, p)
    /\ written' = [written EXCEPT ![a] = @ \cup {p}]
    /\ UNCHANGED call

\* or when it raises over that write, or has raised before.
WritesInVain(a, p) ==
    /\ call[a] \in {"batch", "raised"}
    /\ Overwrites(a, p)
    /\ call' = [call EXCEPT ![a] = "raised"]
    /\ written' = [written EXCEPT ![a] = {}]

\* A document without pages needs no call to the server.
Returns(a) ==
    /\ call[a] = "batch" \/ (call[a] = "new" /\ InTurn(a))
    /\ written[a] = Pages
    /\ call' = [call EXCEPT ![a] = "returned"]
    /\ UNCHANGED <<keyed, rows, written>>

Raises(a) ==
    /\ call[a] = "batch" \/ (call[a] = "new" /\ InTurn(a))
    /\ call' = [call EXCEPT ![a] = "raised"]
    /\ written' = [written EXCEPT ![a] = {}]
    /\ UNCHANGED <<keyed, rows>>

Next ==
    \/ GetsKey
    \/ \E a \in Calls :
        \/ Begins(a)
        \/ \E p \in Pages : Writes(a, p) \/ WritesInVain(a, p)
        \/ Returns(a)
        \/ Raises(a)

Spec == Init /\ [][Next]_vars
=============================================================================
