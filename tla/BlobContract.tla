---------------------------- MODULE BlobContract ----------------------------
(***************************************************************************)
(* What the BlobStore protocol (src/ipa/contracts/protocols.py) promises   *)
(* for content-addressed keys: a put has its effect at one instant, which  *)
(* is to store the content where there is none and otherwise nothing, and  *)
(* a put that returned had it.  put and put_stream make the same promise.  *)
(***************************************************************************)

CONSTANTS
    Writers,    \* callers of the store
    Keys,       \* content-addressed keys
    Content,    \* Content[k]: the only object that k may hold
    Absent      \* no object, no key

VARIABLES
    present,    \* present[k]: the object under k, or Absent
    call,       \* call[w]: "none", "pending", "returned" or "raised"
    key         \* key[w]: the key w is putting, while it is

vars == <<present, call, key>>

Init ==
    /\ present = [k \in Keys |-> Absent]
    /\ call = [w \in Writers |-> "none"]
    /\ key = [w \in Writers |-> Absent]

\* put or put_stream is called.
Put(w, k) ==
    /\ call[w] = "none"
    /\ call' = [call EXCEPT ![w] = "pending"]
    /\ key' = [key EXCEPT ![w] = k]
    /\ UNCHANGED present

\* The effect: an existing key counts as success and is not written.  The
\* caller gets the key, or an IpaError although the effect took place.
Takes(w) ==
    /\ call[w] = "pending"
    /\ present' = [present EXCEPT ![key[w]] = IF @ = Absent THEN Content[key[w]] ELSE @]
    /\ \E end \in {"returned", "raised"} : call' = [call EXCEPT ![w] = end]
    /\ UNCHANGED key

\* The object store rejects the write.
Rejects(w) ==
    /\ call[w] = "pending"
    /\ call' = [call EXCEPT ![w] = "raised"]
    /\ UNCHANGED <<present, key>>

\* The caller has its answer.
Done(w) ==
    /\ call[w] \in {"returned", "raised"}
    /\ call' = [call EXCEPT ![w] = "none"]
    /\ key' = [key EXCEPT ![w] = Absent]
    /\ UNCHANGED present

\* delete succeeds also where there is nothing.
Delete(k) ==
    /\ present' = [present EXCEPT ![k] = Absent]
    /\ UNCHANGED <<call, key>>

Next ==
    \/ \E w \in Writers :
          \/ \E k \in Keys : Put(w, k)
          \/ Takes(w)
          \/ Rejects(w)
          \/ Done(w)
    \/ \E k \in Keys : Delete(k)

Spec == Init /\ [][Next]_vars
=============================================================================
