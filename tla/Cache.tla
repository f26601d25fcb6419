-------------------------------- MODULE Cache --------------------------------
(***************************************************************************)
(* RedisCacheStore (src/ipa/storage/cache.py): lock, claim_idempotency and *)
(* the JSON cache with cached_json, each for one key, used by concurrent   *)
(* clients over a network that loses answers, delays commands and makes    *)
(* the driver send a command again.                                        *)
(*                                                                         *)
(* Redis is external: it executes one command at a time, and a key set     *)
(* with EX may go at any time after that.  The functions that cached_json  *)
(* decorates are not written yet: fn reads `source`, and whoever changes   *)
(* it calls delete afterwards.                                             *)
(***************************************************************************)
EXTENDS Naturals, FiniteSets

CONSTANTS
    Clients,    \* coroutines that use the cache store
    Used,       \* the keys they use
    MaxTries,   \* bound on the calls of one client
    MaxSends,   \* how often the driver sends one command before it raises
    None        \* no value

ASSUME CacheAssumption ==
    /\ Used \subseteq {"lock", "idem", "json"}
    /\ MaxTries \in Nat
    /\ MaxSends \in Nat \ {0}
    /\ None \notin Clients /\ None \notin (Clients \cup {None}) \X Nat

VARIABLES
    store,      \* store[k]: the value of the key of kind k, or None
    pc,         \* pc[c]: where client c is in its call
    tries,      \* tries[c]: calls made so far
    command,    \* command[c]: the last command it sent; its n counts the sends
    wire,       \* commands sent and not executed (yet, or ever)
    source,     \* what fn returns: changed source times
    expired,    \* history: lock tokens whose lease has ended
    winners,    \* history: calls told True since the "idem" key was last absent
    outdated,   \* history: no delete was executed since source changed
    late        \* history: the last value cached was old when it was stored

vars == <<store, pc, tries, command, wire, source, expired, winners, outdated, late>>

\* self.key(kind, ...): the kinds are different keys.
Kinds == {"lock", "idem", "json"}

\* token = uuid4().hex: fresh for every call.
Token(c) == <<c, tries[c]>>
Tokens == Clients \X (0 .. MaxTries)

\* A lock holds a token, a claim the same constant whoever makes it, the JSON
\* cache what fn returned.
Value(k, token) ==
    CASE k = "lock" -> token
      [] k = "idem" -> <<None, 0>>
      [] k = "json" -> <<None, source>>

Values == Tokens \cup ({None} \X Nat)

Commands == [op : {"set", "release", "delete"}, kind : Kinds, token : Tokens,
             value : Values, n : 1 .. MaxSends]
NoCommand == [n |-> 0]

Init ==
    /\ store = [k \in Kinds |-> None]
    /\ pc = [c \in Clients |-> "out"]
    /\ tries = [c \in Clients |-> 0]
    /\ command = [c \in Clients |-> NoCommand]
    /\ wire = {}
    /\ source = 0
    /\ expired = {}
    /\ winners = {}
    /\ outdated = FALSE
    /\ late = FALSE

----------------------------------------------------------------------------
(* Redis *)

\* ex=ttl_s: the key's time is over.
Expire(k) ==
    /\ store[k] # None
    /\ store' = [store EXCEPT ![k] = None]
    /\ expired' = IF k = "lock" THEN expired \cup {store[k]} ELSE expired
    /\ winners' = IF k = "idem" THEN {} ELSE winners
    /\ UNCHANGED <<pc, tries, command, wire, source, outdated, late>>

\* Mutant: SET without nx.
SetPlain(m) == TRUE

\* nx=True: SET is done only when the key is absent; set_json has no nx.
SetNx(m) == m.kind = "json" \/ store[m.kind] = None

\* Mutant: the lock is released with a plain DEL.
ReleaseUnchecked(m) == store' = [store EXCEPT ![m.kind] = None]

\* _RELEASE_LOCK_SCRIPT: delete the key if its value is still the token.
ReleaseScript(m) ==
    store' = [store EXCEPT ![m.kind] = IF @ = m.token THEN None ELSE @]

\* Mutant: delete names another key.
DeleteElsewhere(m) == UNCHANGED store

\* DEL
DeleteKey(m) == store' = [store EXCEPT ![m.kind] = None]

----------------------------------------------------------------------------
(* The calls *)

\* The command op is sent for the first time, in the nth call of client c.
Send(c, op, k, nth) ==
    LET m == [op |-> op, kind |-> k, token |-> <<c, nth>>,
              value |-> Value(k, <<c, nth>>), n |-> 1]
    IN  command' = [command EXCEPT ![c] = m] /\ wire' = wire \cup {m}

Enter(c, point) ==
    /\ pc[c] = "out"
    /\ tries[c] < MaxTries
    /\ pc' = [pc EXCEPT ![c] = point]
    /\ tries' = [tries EXCEPT ![c] = @ + 1]

\* lock(key) is entered, or claim_idempotency(key) called: SET NX is sent.
Call(c, k) ==
    /\ k # "json"
    /\ Enter(c, "setting")
    /\ Send(c, "set", k, tries[c] + 1)
    /\ UNCHANGED <<store, source, expired, winners, outdated, late>>

\* cached_json: get_json finds nothing, or degrades because Redis does not
\* answer or the value cannot be decoded.  (With a hit the call is over.)
GetJson(c) ==
    /\ Enter(c, "computing")
    /\ UNCHANGED <<store, command, wire, source, expired, winners, outdated, late>>

\* cached_json: fn returns and set_json sends its SET.
SetJson(c) ==
    /\ pc[c] = "computing"
    /\ pc' = [pc EXCEPT ![c] = "setting"]
    /\ Send(c, "set", "json", tries[c])
    /\ UNCHANGED <<store, tries, source, expired, winners, outdated, late>>

\* What fn reads is changed, and delete(key) called.
Change(c) ==
    /\ Enter(c, "deleting")
    /\ source' = source + 1
    /\ outdated' = TRUE
    /\ Send(c, "delete", "json", tries[c] + 1)
    /\ UNCHANGED <<store, expired, winners, late>>

\* Where the caller is once SET was answered: a lock that was acquired is
\* held, everything else is over.
After(k, acquired) == IF k = "lock" /\ acquired THEN "in" ELSE "out"

\* The client of m still waits for the answer to this very command.
Waits(m, point) == pc[m.token[1]] = point /\ command[m.token[1]] = m

\* The server executes a SET; the answer reaches its client or is lost.
ExecuteSet(m) ==
    LET acquired == SetNx(m)
    IN  /\ m \in wire
        /\ m.op = "set"
        /\ wire' = wire \ {m}
        /\ store' = IF acquired THEN [store EXCEPT ![m.kind] = m.value] ELSE store
        /\ late' = IF m.kind = "json" THEN m.value # Value("json", m.token) ELSE late
        /\ \/ UNCHANGED <<pc, winners>>
           \/ /\ Waits(m, "setting")
              /\ pc' = [pc EXCEPT ![m.token[1]] = After(m.kind, acquired)]
              /\ winners' = IF m.kind = "idem" /\ acquired
                               THEN winners \cup {m.token} ELSE winners
        /\ UNCHANGED <<tries, command, source, expired, outdated>>

\* The body of the lock's context ends, normally or not: the finally clause
\* sends the release script.
Leave(c) ==
    /\ pc[c] = "in"
    /\ pc' = [pc EXCEPT ![c] = "releasing"]
    /\ Send(c, "release", "lock", tries[c])
    /\ UNCHANGED <<store, tries, source, expired, winners, outdated, late>>

ExecuteRelease(m) ==
    /\ m \in wire
    /\ m.op = "release"
    /\ wire' = wire \ {m}
    /\ ReleaseScript(m)
    /\ \/ UNCHANGED pc
       \/ Waits(m, "releasing") /\ pc' = [pc EXCEPT ![m.token[1]] = "out"]
    /\ UNCHANGED <<tries, command, source, expired, winners, outdated, late>>

ExecuteDelete(m) ==
    /\ m \in wire
    /\ m.op = "delete"
    /\ wire' = wire \ {m}
    /\ DeleteKey(m)
    /\ outdated' = FALSE
    /\ \/ UNCHANGED pc
       \/ Waits(m, "deleting") /\ pc' = [pc EXCEPT ![m.token[1]] = "out"]
    /\ UNCHANGED <<tries, command, source, expired, winners, late>>

\* The driver saw the connection fail or time out and sends the command
\* again; the one before may still be on its way.
Resend(c) ==
    LET m == [command[c] EXCEPT !.n = @ + 1]
    IN  /\ pc[c] \in {"setting", "deleting", "releasing"}
        /\ m.n <= MaxSends
        /\ command' = [command EXCEPT ![c] = m]
        /\ wire' = wire \cup {m}
        /\ UNCHANGED <<store, pc, tries, source, expired, winners, outdated, late>>

\* The driver's last attempt fails, the coroutine is cancelled or its process
\* dies.  A call that waits for SET NX raises: it does not degrade to
\* "acquired".  A set_json, delete or release that fails is only logged.  And
\* what fn returned is not cached unless it is a dict.
GiveUp(c) ==
    /\ pc[c] # "out"
    /\ pc' = [pc EXCEPT ![c] = "out"]
    /\ UNCHANGED <<store, tries, command, wire, source, expired, winners, outdated, late>>

Next ==
    \/ \E k \in Kinds : Expire(k)
    \/ \E c \in Clients : \/ \E k \in Used : Call(c, k)
                          \/ "json" \in Used /\ (GetJson(c) \/ Change(c))
                          \/ SetJson(c)
                          \/ Leave(c)
                          \/ Resend(c)
                          \/ GiveUp(c)
    \/ \E m \in wire : ExecuteSet(m) \/ ExecuteRelease(m) \/ ExecuteDelete(m)

Spec == Init /\ [][Next]_vars

----------------------------------------------------------------------------
(* Properties *)

\* Every variable has its type.
TypeOK ==
    /\ store \in [Kinds -> Values \cup {None}]
    /\ pc \in [Clients -> {"out", "computing", "setting", "deleting", "in", "releasing"}]
    /\ tries \in [Clients -> 0 .. MaxTries]
    /\ command \in [Clients -> Commands \cup {NoCommand}]
    /\ wire \in SUBSET Commands
    /\ source \in Nat
    /\ expired \in SUBSET Tokens
    /\ winners \in SUBSET Tokens
    /\ outdated \in BOOLEAN
    /\ late \in BOOLEAN

\* "an expired lock that someone else re-acquired is never stolen by our exit
\* path": whoever is inside lock() and whose lease has not ended still owns
\* the key, whatever the releases, late commands and resends of other calls
\* did meanwhile.  So no two of them are inside at once.
LeaseIsHonoured ==
    \A c \in Clients :
        pc[c] = "in" /\ Token(c) \notin expired => store["lock"] = Token(c)

\* claim_idempotency tells one caller at most that it won, until the claim
\* expires; answers that are lost, sent again or late make no second winner.
ClaimsAreExclusive ==
    Cardinality(winners) <= 1 /\ (winners # {} => store["idem"] = <<None, 0>>)

\* What is cached is what fn returns now, once a delete has followed its last
\* change, and although failed deletes and fills are only logged.  The one
\* exception is a fill that arrives late: fn had returned before the change,
\* and its SET is executed after it.  Only the TTL ends that.
CachedIsCurrent ==
    store["json"] # None /\ ~ outdated /\ ~ late => store["json"] = <<None, source>>
=============================================================================
