----------------------------- MODULE CacheProofs -----------------------------
(***************************************************************************)
(* Proofs about Cache, for any number of clients, calls and resends.       *)
(*                                                                         *)
(* The properties are about what a command does when it arrives, long      *)
(* after its client may have gone on.  The inductive invariant says what   *)
(* the commands on the wire can be: each is of the form its method sends   *)
(* (WellFormed), belongs to a call made (Sent), and a release of the       *)
(* token in use is there only when its holder has left.                    *)
(***************************************************************************)
EXTENDS Cache, TLAPS, FiniteSetTheorems

\* The commands the methods send: a release is of a lock, a delete of the
\* cache, a SET NX writes the token or the constant of a claim.
WellFormed(m) ==
    /\ m.op = "release" => m.kind = "lock"
    /\ m.op = "delete" => m.kind = "json"
    /\ m.op = "set" /\ m.kind = "lock" => m.value = m.token
    /\ m.op = "set" /\ m.kind = "idem" => m.value = <<None, 0>>

\* What a client waits for while it is at a point.
OpAt(point) ==
    CASE point = "setting" -> "set"
      [] point = "deleting" -> "delete"
      [] point = "releasing" -> "release"

Waiting == {"setting", "deleting", "releasing"}

\* A client that waits for an answer waits for the one to its own command.
CommandIsOwn ==
    \A c \in Clients :
        pc[c] \in Waiting =>
            /\ command[c] \in Commands
            /\ WellFormed(command[c])
            /\ command[c].token = Token(c)
            /\ command[c].op = OpAt(pc[c])

\* A command on the wire belongs to a call that was made; the release of its
\* last lock is there only when the client has left it.
Sent(m) ==
    /\ m.token[2] <= tries[m.token[1]]
    /\ m.op = "release" /\ m.token[2] = tries[m.token[1]]
          => pc[m.token[1]] \in {"releasing", "out"}

WireIsSound == \A m \in wire : WellFormed(m) /\ Sent(m)

\* The lock key holds a token.
LockIsToken == store["lock"] \in Tokens \cup {None}

CommandInv == TypeOK /\ LockIsToken /\ CommandIsOwn /\ WireIsSound

\* ClaimsAreExclusive without Cardinality.
OneWinner ==
    /\ winners # {} => store["idem"] = <<None, 0>>
    /\ winners # {} => \E t \in Tokens : winners = {t}

Inv == CommandInv /\ LeaseIsHonoured /\ OneWinner /\ CachedIsCurrent

----------------------------------------------------------------------------
(* Commands *)

\* The value that SET writes, per kind.
LEMMA ValueForm ==
    ASSUME NEW t
    PROVE  /\ Value("lock", t) = t
           /\ Value("idem", t) = <<None, 0>>
           /\ Value("json", t) = <<None, source>>
BY DEF Value

\* It has its type.
LEMMA ValueType ==
    ASSUME TypeOK, NEW k \in Kinds, NEW t \in Tokens
    PROVE  Value(k, t) \in Values
<1>1. k = "lock" \/ k = "idem" \/ k = "json"
  BY DEF Kinds
<1>2. source \in Nat
  BY DEF TypeOK
<1> QED
  BY <1>1, <1>2, ValueForm DEF Values

\* No value is None.
LEMMA ValueIsNotNone == ASSUME NEW v \in Values PROVE v # None
BY CacheAssumption DEF Values, Tokens

\* What a command carries.
LEMMA CommandParts ==
    ASSUME NEW m \in Commands
    PROVE  /\ m.op \in {"set", "release", "delete"} /\ m.kind \in Kinds
           /\ m.token \in Tokens /\ m.value \in Values /\ m.n \in 1 .. MaxSends
           /\ m.token[1] \in Clients /\ m.token[2] \in Nat
           /\ m.token = <<m.token[1], m.token[2]>>
BY CacheAssumption DEF Commands, Tokens

\* The first state satisfies CommandInv.
LEMMA InitCommand == Init => CommandInv
<1> SUFFICES ASSUME Init PROVE CommandInv
  OBVIOUS
<1>1. TypeOK
  <2>1. outdated \in BOOLEAN /\ late \in BOOLEAN
    BY DEF Init
  <2>2. /\ store \in [Kinds -> Values \cup {None}]
        /\ command \in [Clients -> Commands \cup {NoCommand}]
    BY DEF Init
  <2>3. /\ pc \in [Clients -> {"out", "computing", "setting", "deleting", "in", "releasing"}]
        /\ tries \in [Clients -> 0 .. MaxTries] /\ source \in Nat
    BY CacheAssumption DEF Init
  <2>4. wire = {} /\ expired = {} /\ winners = {}
    BY DEF Init
  <2> QED
    BY <2>1, <2>2, <2>3, <2>4 DEF TypeOK
<1>2. LockIsToken /\ CommandIsOwn /\ WireIsSound
  BY DEF Init, LockIsToken, Kinds, CommandIsOwn, WireIsSound, Waiting
<1> QED
  BY <1>1, <1>2 DEF CommandInv

\* A client sends a command, in its current call or the next one.  In the
\* current one it has not released its lock yet, or it repeats itself.
LEMMA SendKeeps ==
    ASSUME CommandInv, NEW c \in Clients, NEW m \in Commands, NEW point \in Waiting,
           WellFormed(m), m.op = OpAt(point),
           command' = [command EXCEPT ![c] = m], wire' = wire \cup {m},
           pc' = [pc EXCEPT ![c] = point],
           m.token = <<c, tries'[c]>>,
           \/ tries' = [tries EXCEPT ![c] = @ + 1]
           \/ tries' = tries /\ (pc[c] \notin {"releasing", "out"} \/ point = pc[c])
    PROVE  CommandIsOwn' /\ WireIsSound'
<1> USE DEF CommandInv
<1>t. /\ pc \in [Clients -> {"out", "computing", "setting", "deleting", "in", "releasing"}]
      /\ tries \in [Clients -> 0 .. MaxTries]
      /\ command \in [Clients -> Commands \cup {NoCommand}]
      /\ wire \subseteq Commands
  BY DEF TypeOK
<1>1. \A b \in Clients \ {c} : /\ pc'[b] = pc[b] /\ command'[b] = command[b]
                               /\ tries'[b] = tries[b]
  BY <1>t
<1>2. pc'[c] = point /\ command'[c] = m /\ Token(c)' = m.token
  BY <1>t DEF Token
<1>3. CommandIsOwn'
  <2> SUFFICES ASSUME NEW b \in Clients, pc'[b] \in Waiting
               PROVE  /\ command'[b] \in Commands
                      /\ WellFormed(command'[b])
                      /\ command'[b].token = Token(b)'
                      /\ command'[b].op = OpAt(pc'[b])
    BY DEF CommandIsOwn, WellFormed, OpAt
  <2>1. CASE b = c
    BY <1>2, <2>1
  <2>2. CASE b # c
    <3>1. /\ pc'[b] = pc[b] /\ command'[b] = command[b] /\ Token(b)' = Token(b)
      BY <1>1, <2>2 DEF Token
    <3> QED
      BY <3>1 DEF CommandIsOwn
  <2> QED
    BY <2>1, <2>2
<1>4. ASSUME NEW q \in wire
      PROVE  Sent(q)'
  <2>1. q.token[1] \in Clients /\ q.token[2] \in Nat /\ Sent(q)
    BY <1>t, CommandParts DEF WireIsSound
  <2>2. CASE q.token[1] # c
    BY <1>1, <2>1, <2>2 DEF Sent
  <2>3. CASE q.token[1] = c /\ tries' = [tries EXCEPT ![c] = @ + 1]
    <3>1. q.token[2] <= tries[c] /\ tries'[c] = tries[c] + 1 /\ tries[c] \in Nat
      BY <1>t, <2>1, <2>3 DEF Sent
    <3> QED
      BY <2>1, <2>3, <3>1 DEF Sent
  <2>4. CASE q.token[1] = c /\ tries' = tries /\ (pc[c] \notin {"releasing", "out"} \/ point = pc[c])
    BY <1>2, <2>1, <2>4 DEF Sent
  <2> QED
    BY <2>2, <2>3, <2>4
<1>5. Sent(m)'
  <2>1. m.token[1] = c /\ m.token[2] = tries'[c] /\ tries'[c] \in Nat
    BY <1>t, CacheAssumption
  <2>2. m.op = "release" => point = "releasing"
    BY DEF OpAt, Waiting
  <2> QED
    BY <1>2, <2>1, <2>2 DEF Sent
<1>6. WireIsSound'
  <2> SUFFICES ASSUME NEW q \in wire' PROVE WellFormed(q) /\ Sent(q)'
    BY DEF WireIsSound, WellFormed
  <2> QED
    BY <1>4, <1>5 DEF WireIsSound
<1> QED
  BY <1>3, <1>6

\* Nothing is sent: a client may begin a call, be answered or give up.
LEMMA QuietKeeps ==
    ASSUME CommandInv, wire' \subseteq wire, command' = command, NEW c \in Clients,
           NEW point \in {"out", "in", "computing"},
           \/ pc' = pc /\ tries' = tries
           \/ /\ pc' = [pc EXCEPT ![c] = point]
              /\ \/ tries' = [tries EXCEPT ![c] = @ + 1]
                 \/ tries' = tries /\ (pc[c] \notin {"releasing", "out"} \/ point = "out")
    PROVE  CommandIsOwn' /\ WireIsSound'
<1> USE DEF CommandInv
<1>t. /\ pc \in [Clients -> {"out", "computing", "setting", "deleting", "in", "releasing"}]
      /\ tries \in [Clients -> 0 .. MaxTries]
      /\ wire \subseteq Commands
  BY DEF TypeOK
<1>1. CommandIsOwn'
  <2> SUFFICES ASSUME NEW b \in Clients, pc'[b] \in Waiting
               PROVE  /\ command[b] \in Commands
                      /\ WellFormed(command[b])
                      /\ command[b].token = Token(b)'
                      /\ command[b].op = OpAt(pc'[b])
    BY DEF CommandIsOwn, WellFormed, OpAt
  <2>1. pc'[b] = pc[b] /\ Token(b)' = Token(b)
    BY <1>t DEF Token, Waiting
  <2> QED
    BY <2>1 DEF CommandIsOwn
<1>2. ASSUME NEW q \in wire
      PROVE  Sent(q)'
  <2>1. q.token[1] \in Clients /\ q.token[2] \in Nat /\ Sent(q)
    BY <1>t, CommandParts DEF WireIsSound
  <2>2. \/ pc'[q.token[1]] = pc[q.token[1]] /\ tries'[q.token[1]] = tries[q.token[1]]
        \/ tries'[q.token[1]] = tries[q.token[1]] + 1
        \/ /\ tries'[q.token[1]] = tries[q.token[1]]
           /\ pc[q.token[1]] \notin {"releasing", "out"} \/ pc'[q.token[1]] = "out"
    BY <1>t, <2>1
  <2>3. tries[q.token[1]] \in Nat
    BY <1>t, <2>1
  <2> QED
    BY <2>1, <2>2, <2>3 DEF Sent
<1>3. WireIsSound'
  BY <1>2 DEF WireIsSound, WellFormed
<1> QED
  BY <1>1, <1>3

\* Call, SetJson, Change and Leave send a first command: they keep CommandInv.
LEMMA FirstSend ==
    ASSUME CommandInv, NEW c \in Clients,
           \/ \E k \in Used : Call(c, k)
           \/ SetJson(c) \/ Change(c) \/ Leave(c)
    PROVE  CommandInv'
<1>t. TypeOK /\ tries[c] \in 0 .. MaxTries
  BY DEF CommandInv, TypeOK
<1>k. "lock" \in Kinds /\ "json" \in Kinds
  BY DEF Kinds
<1>1. ASSUME NEW op \in {"set", "release", "delete"}, NEW k \in Kinds,
             NEW nth \in 0 .. MaxTries, Send(c, op, k, nth),
             op = "release" => k = "lock", op = "delete" => k = "json",
             NEW point \in Waiting, op = OpAt(point),
             pc' = [pc EXCEPT ![c] = point], nth = tries'[c],
             tries' \in [Clients -> 0 .. MaxTries], source' \in Nat,
             outdated' \in BOOLEAN,
             \/ tries' = [tries EXCEPT ![c] = @ + 1]
             \/ tries' = tries /\ pc[c] \notin {"releasing", "out"},
             UNCHANGED <<store, expired, winners, late>>
      PROVE  CommandInv'
  <2> DEFINE t == <<c, nth>>
             m == [op |-> op, kind |-> k, token |-> t, value |-> Value(k, t), n |-> 1]
  <2>a. command' = [command EXCEPT ![c] = m] /\ wire' = wire \cup {m}
    BY <1>1 DEF Send
  <2>b. t \in Tokens
    BY DEF Tokens
  <2> HIDE DEF t
  <2>c. Value(k, t) \in Values
    BY <1>t, <2>b, ValueType
  <2>d. m \in Commands
    BY <2>b, <2>c, CacheAssumption DEF Commands
  <2>e. /\ k = "lock" => Value(k, t) = t
        /\ k = "idem" => Value(k, t) = <<None, 0>>
    BY ValueForm
  <2>f. m.op = op /\ m.kind = k /\ m.token = t /\ m.value = Value(k, t)
    OBVIOUS
  <2> HIDE DEF m
  <2>g. WellFormed(m)
    BY <1>1, <2>e, <2>f DEF WellFormed
  <2>1. m.op = OpAt(point) /\ m.token = <<c, tries'[c]>>
    BY <1>1, <2>f DEF t
  <2>2. CommandIsOwn' /\ WireIsSound'
    BY <1>1, <2>a, <2>d, <2>g, <2>1, SendKeeps
  <2>3. TypeOK'
    BY <1>1, <1>t, <2>a, <2>d DEF TypeOK, Waiting
  <2>4. LockIsToken'
    BY <1>1 DEF CommandInv, LockIsToken
  <2> QED
    BY <2>2, <2>3, <2>4 DEF CommandInv
<1>2. ASSUME NEW k \in Used, Call(c, k) PROVE CommandInv'
  <2>1. /\ Send(c, "set", k, tries[c] + 1) /\ pc' = [pc EXCEPT ![c] = "setting"]
        /\ tries' = [tries EXCEPT ![c] = @ + 1] /\ tries[c] < MaxTries
        /\ UNCHANGED <<store, source, expired, winners, outdated, late>>
    BY <1>2 DEF Call, Enter
  <2>2. k \in Kinds /\ "setting" \in Waiting /\ OpAt("setting") = "set"
    BY CacheAssumption DEF Kinds, Waiting, OpAt
  <2>3. /\ tries[c] + 1 \in 0 .. MaxTries /\ tries'[c] = tries[c] + 1
        /\ tries' \in [Clients -> 0 .. MaxTries]
    BY <1>t, <2>1, CacheAssumption DEF TypeOK
  <2>4. source' \in Nat /\ outdated' \in BOOLEAN
    BY <1>t, <2>1 DEF TypeOK
  <2> QED
    BY <1>1, <2>1, <2>2, <2>3, <2>4
<1>3. ASSUME SetJson(c) PROVE CommandInv'
  <2>1. /\ Send(c, "set", "json", tries[c]) /\ pc' = [pc EXCEPT ![c] = "setting"]
        /\ tries' = tries /\ pc[c] = "computing"
        /\ UNCHANGED <<store, source, expired, winners, outdated, late>>
    BY <1>3 DEF SetJson
  <2>2. "setting" \in Waiting /\ OpAt("setting") = "set"
    BY DEF Waiting, OpAt
  <2>3. tries' \in [Clients -> 0 .. MaxTries] /\ source' \in Nat /\ outdated' \in BOOLEAN
    BY <1>t, <2>1 DEF TypeOK
  <2> QED
    BY <1>1, <1>t, <1>k, <2>1, <2>2, <2>3
<1>4. ASSUME Change(c) PROVE CommandInv'
  <2>1. /\ Send(c, "delete", "json", tries[c] + 1) /\ pc' = [pc EXCEPT ![c] = "deleting"]
        /\ tries' = [tries EXCEPT ![c] = @ + 1] /\ tries[c] < MaxTries
        /\ source' = source + 1 /\ outdated' = TRUE
        /\ UNCHANGED <<store, expired, winners, late>>
    BY <1>4 DEF Change, Enter
  <2>2. "deleting" \in Waiting /\ OpAt("deleting") = "delete"
    BY DEF Waiting, OpAt
  <2>3. /\ tries[c] + 1 \in 0 .. MaxTries /\ tries'[c] = tries[c] + 1
        /\ tries' \in [Clients -> 0 .. MaxTries]
    BY <1>t, <2>1, CacheAssumption DEF TypeOK
  <2>4. source' \in Nat
    BY <1>t, <2>1 DEF TypeOK
  <2>5. outdated' \in BOOLEAN
    BY <2>1
  <2> QED
    BY <1>1, <1>k, <2>1, <2>2, <2>3, <2>4, <2>5
<1>5. ASSUME Leave(c) PROVE CommandInv'
  <2>1. /\ Send(c, "release", "lock", tries[c]) /\ pc' = [pc EXCEPT ![c] = "releasing"]
        /\ tries' = tries /\ pc[c] = "in"
        /\ UNCHANGED <<store, source, expired, winners, outdated, late>>
    BY <1>5 DEF Leave
  <2>2. "releasing" \in Waiting /\ OpAt("releasing") = "release"
    BY DEF Waiting, OpAt
  <2>3. tries' \in [Clients -> 0 .. MaxTries] /\ source' \in Nat /\ outdated' \in BOOLEAN
    BY <1>t, <2>1 DEF TypeOK
  <2> QED
    BY <1>1, <1>t, <1>k, <2>1, <2>2, <2>3
<1> QED
  BY <1>2, <1>3, <1>4, <1>5

\* Resend: the same command with another number.
LEMMA ResendCommand ==
    ASSUME CommandInv, NEW c \in Clients, Resend(c)
    PROVE  CommandInv'
<1> DEFINE m == [command[c] EXCEPT !.n = @ + 1]
<1>1. /\ pc[c] \in Waiting /\ m.n <= MaxSends
      /\ command' = [command EXCEPT ![c] = m] /\ wire' = wire \cup {m}
      /\ UNCHANGED <<store, pc, tries, source, expired, winners, outdated, late>>
  BY DEF Resend, Waiting
<1>2. /\ command[c] \in Commands /\ WellFormed(command[c])
      /\ command[c].token = Token(c) /\ command[c].op = OpAt(pc[c])
  BY <1>1 DEF CommandInv, CommandIsOwn
<1>3. /\ m \in Commands
      /\ m.op = command[c].op /\ m.kind = command[c].kind
      /\ m.token = command[c].token /\ m.value = command[c].value
  BY <1>1, <1>2, CacheAssumption DEF Commands
<1> HIDE DEF m
<1>4. WellFormed(m)
  BY <1>2, <1>3 DEF WellFormed
<1>5. CommandIsOwn' /\ WireIsSound'
  <2>1. pc' = [pc EXCEPT ![c] = pc[c]] /\ m.token = <<c, tries'[c]>>
    BY <1>1, <1>2, <1>3 DEF Token, CommandInv, TypeOK
  <2> QED
    BY <1>1, <1>2, <1>3, <1>4, <2>1, SendKeeps
<1>6. TypeOK' /\ LockIsToken'
  BY <1>1, <1>3 DEF CommandInv, TypeOK, LockIsToken
<1> QED
  BY <1>5, <1>6 DEF CommandInv

\* Expire, GetJson and GiveUp send nothing.
LEMMA QuietCommand ==
    ASSUME CommandInv,
           \/ \E k \in Kinds : Expire(k)
           \/ \E c \in Clients : GetJson(c) \/ GiveUp(c)
    PROVE  CommandInv'
<1>t. TypeOK
  BY DEF CommandInv
<1>1. ASSUME NEW k \in Kinds, Expire(k) PROVE CommandInv'
  <2>1. /\ store' = [store EXCEPT ![k] = None]
        /\ store[k] # None
        /\ expired' = IF k = "lock" THEN expired \cup {store[k]} ELSE expired
        /\ winners' = IF k = "idem" THEN {} ELSE winners
        /\ UNCHANGED <<pc, tries, command, wire, source, outdated, late>>
    BY <1>1 DEF Expire
  <2>2. CommandIsOwn' /\ WireIsSound'
    BY <2>1 DEF CommandInv, CommandIsOwn, WireIsSound, Sent, Token
  <2>3. expired' \in SUBSET Tokens
    BY <1>t, <2>1 DEF TypeOK, CommandInv, LockIsToken
  <2>4. TypeOK' /\ LockIsToken'
    BY <1>t, <2>1, <2>3 DEF TypeOK, CommandInv, LockIsToken, Kinds
  <2> QED
    BY <2>2, <2>4 DEF CommandInv
<1>2. ASSUME NEW c \in Clients, GetJson(c) PROVE CommandInv'
  <2>1. /\ pc' = [pc EXCEPT ![c] = "computing"] /\ tries[c] < MaxTries
        /\ tries' = [tries EXCEPT ![c] = @ + 1]
        /\ UNCHANGED <<store, command, wire, source, expired, winners, outdated, late>>
    BY <1>2 DEF GetJson, Enter
  <2>2. CommandIsOwn' /\ WireIsSound'
    BY <2>1, QuietKeeps
  <2>3. TypeOK' /\ LockIsToken'
    BY <1>t, <2>1, CacheAssumption DEF TypeOK, CommandInv, LockIsToken
  <2> QED
    BY <2>2, <2>3 DEF CommandInv
<1>3. ASSUME NEW c \in Clients, GiveUp(c) PROVE CommandInv'
  <2>1. /\ pc' = [pc EXCEPT ![c] = "out"]
        /\ UNCHANGED <<store, tries, command, wire, source, expired, winners, outdated, late>>
    BY <1>3 DEF GiveUp
  <2>2. CommandIsOwn' /\ WireIsSound'
    BY <2>1, QuietKeeps
  <2>3. TypeOK' /\ LockIsToken'
    BY <1>t, <2>1 DEF TypeOK, CommandInv, LockIsToken
  <2> QED
    BY <2>2, <2>3 DEF CommandInv
<1> QED
  BY <1>1, <1>2, <1>3

\* A client that waits for m is the one whose token m carries.
LEMMA WaitsForOwn ==
    ASSUME CommandInv, NEW m \in wire, NEW point \in Waiting, Waits(m, point)
    PROVE  m.token = Token(m.token[1])
<1>1. m.token[1] \in Clients
  BY CommandParts DEF CommandInv, TypeOK
<1> QED
  BY <1>1 DEF Waits, CommandInv, CommandIsOwn

\* The server executes a SET.
LEMMA SetCommand ==
    ASSUME CommandInv, NEW m \in wire, ExecuteSet(m)
    PROVE  CommandInv'
<1> DEFINE c == m.token[1]
<1>t. TypeOK /\ m \in Commands /\ c \in Clients /\ m.token \in Tokens
  BY CommandParts DEF CommandInv, TypeOK
<1>1. /\ m.op = "set" /\ wire' = wire \ {m}
      /\ store' = IF SetNx(m) THEN [store EXCEPT ![m.kind] = m.value] ELSE store
      /\ UNCHANGED <<tries, command, source, expired, outdated>>
  BY DEF ExecuteSet
<1>2. \/ UNCHANGED <<pc, winners>>
      \/ /\ Waits(m, "setting")
         /\ pc' = [pc EXCEPT ![c] = After(m.kind, SetNx(m))]
         /\ winners' = winners \/ winners' = winners \cup {m.token}
  BY DEF ExecuteSet
<1>3. late' \in BOOLEAN
  BY <1>t DEF ExecuteSet, TypeOK
<1>4. After(m.kind, SetNx(m)) \in {"in", "out"}
  BY DEF After
<1>5. Waits(m, "setting") => pc[c] \notin {"releasing", "out"}
  BY DEF Waits
<1> DEFINE point == After(m.kind, SetNx(m))
<1>a. pc' = pc \/ (pc' = [pc EXCEPT ![c] = point] /\ pc[c] \notin {"releasing", "out"})
  BY <1>2, <1>5
<1>b. winners' \in SUBSET Tokens
  BY <1>2, <1>t DEF TypeOK
<1>c. store' \in [Kinds -> Values \cup {None}]
  BY <1>1, <1>t, CommandParts DEF TypeOK
<1> HIDE DEF point, c
<1>6. CommandIsOwn' /\ WireIsSound'
  BY <1>1, <1>a, <1>4, <1>t, QuietKeeps DEF point
<1>7. TypeOK'
  BY <1>1, <1>a, <1>b, <1>c, <1>3, <1>4, <1>t DEF TypeOK, point
<1>8. LockIsToken'
  <2>1. m.kind = "lock" => m.value = m.token
    BY <1>1 DEF CommandInv, WireIsSound, WellFormed
  <2> QED
    BY <1>1, <1>t, <2>1 DEF CommandInv, LockIsToken, TypeOK, Kinds
<1> QED
  BY <1>6, <1>7, <1>8 DEF CommandInv

\* The server executes a release or a DEL.
LEMMA RemoveCommand ==
    ASSUME CommandInv, NEW m \in wire, ExecuteRelease(m) \/ ExecuteDelete(m)
    PROVE  CommandInv'
<1> DEFINE c == m.token[1]
<1>t. TypeOK /\ m \in Commands /\ c \in Clients /\ m.kind \in Kinds
  BY CommandParts DEF CommandInv, TypeOK
<1>1. /\ wire' \subseteq wire
      /\ store' = store \/ store' = [store EXCEPT ![m.kind] = None]
      /\ pc' = pc \/ pc' = [pc EXCEPT ![c] = "out"]
      /\ UNCHANGED <<tries, command, source, expired, winners, late>>
  BY <1>t DEF ExecuteRelease, ExecuteDelete, ReleaseScript, DeleteKey, TypeOK
<1>2. outdated' \in BOOLEAN
  BY <1>t DEF ExecuteRelease, ExecuteDelete, TypeOK
<1> HIDE DEF c
<1>3. CommandIsOwn' /\ WireIsSound'
  BY <1>1, <1>t, QuietKeeps
<1>4. TypeOK' /\ LockIsToken'
  BY <1>1, <1>2, <1>t DEF TypeOK, CommandInv, LockIsToken, Kinds
<1> QED
  BY <1>3, <1>4 DEF CommandInv

\* Every step keeps CommandInv.
LEMMA NextCommand == CommandInv /\ [Next]_vars => CommandInv'
<1> SUFFICES ASSUME CommandInv, [Next]_vars PROVE CommandInv'
  OBVIOUS
<1>1. CASE UNCHANGED vars
  BY <1>1 DEF vars, CommandInv, TypeOK, LockIsToken, CommandIsOwn, WireIsSound, Sent, Token
<1>2. CASE Next
  BY <1>2, FirstSend, ResendCommand, QuietCommand, SetCommand, RemoveCommand DEF Next
<1> QED
  BY <1>1, <1>2

\* Type correctness of the cache store and of every command ever sent.
THEOREM TypeCorrect == Spec => []TypeOK
<1>1. CommandInv => TypeOK
  BY DEF CommandInv
<1> QED
  BY <1>1, InitCommand, NextCommand, PTL DEF Spec

----------------------------------------------------------------------------
(* The keys *)

\* The first state satisfies Inv.
LEMMA InitInv == Init => Inv
<1> SUFFICES ASSUME Init PROVE LeaseIsHonoured /\ OneWinner /\ CachedIsCurrent
  BY InitCommand DEF Inv
<1> QED
  BY DEF Init, LeaseIsHonoured, OneWinner, CachedIsCurrent, Kinds

\* While the lock key stays as it is and nobody enters, leases are honoured.
LEMMA LeaseKept ==
    ASSUME LeaseIsHonoured, store'["lock"] = store["lock"], expired \subseteq expired',
           \A c \in Clients : pc'[c] = "in" => pc[c] = "in" /\ tries'[c] = tries[c]
    PROVE  LeaseIsHonoured'
BY DEF LeaseIsHonoured, Token

\* Only Redis changes the keys: a step of a client cannot break the facts about
\* them, as a change of what fn reads is recorded in outdated.
LEMMA ClientKeeps ==
    ASSUME Inv, NEW c \in Clients,
           \/ \E k \in Used : Call(c, k)
           \/ GetJson(c) \/ SetJson(c) \/ Change(c) \/ Leave(c) \/ Resend(c) \/ GiveUp(c)
    PROVE  LeaseIsHonoured' /\ OneWinner' /\ CachedIsCurrent'
<1>t. TypeOK
  BY DEF Inv, CommandInv
<1>1. UNCHANGED <<store, expired, winners, late>>
  BY DEF Call, GetJson, SetJson, Change, Leave, Resend, GiveUp
<1>2. UNCHANGED <<source, outdated>> \/ outdated' = TRUE
  BY DEF Call, GetJson, SetJson, Change, Leave, Resend, GiveUp
<1>3. \A b \in Clients : pc'[b] = "in" => pc[b] = "in" /\ tries'[b] = tries[b]
  BY <1>t DEF Call, GetJson, SetJson, Change, Leave, Resend, GiveUp, Enter, TypeOK
<1>4. LeaseIsHonoured'
  BY <1>1, <1>3, LeaseKept DEF Inv
<1>5. OneWinner'
  BY <1>1 DEF Inv, OneWinner
<1>6. CachedIsCurrent'
  BY <1>1, <1>2 DEF Inv, CachedIsCurrent
<1> QED
  BY <1>4, <1>5, <1>6

\* Expire: the lease of the token that was there ends, the claim is free.
LEMMA ExpireKeeps ==
    ASSUME Inv, NEW k \in Kinds, Expire(k)
    PROVE  LeaseIsHonoured' /\ OneWinner' /\ CachedIsCurrent'
<1>1. /\ store' = [store EXCEPT ![k] = None]
      /\ expired' = IF k = "lock" THEN expired \cup {store[k]} ELSE expired
      /\ winners' = IF k = "idem" THEN {} ELSE winners
      /\ UNCHANGED <<pc, tries, source, outdated, late>>
  BY DEF Expire
<1>2. \A q \in Kinds : store'[q] = IF q = k THEN None ELSE store[q]
  BY <1>1 DEF Inv, CommandInv, TypeOK
<1>3. "lock" \in Kinds /\ "idem" \in Kinds /\ "json" \in Kinds
  BY DEF Kinds
<1>4. LeaseIsHonoured'
  <2>1. CASE k = "lock"
    BY <1>1, <2>1 DEF Inv, LeaseIsHonoured, Token
  <2>2. CASE k # "lock"
    BY <1>1, <1>2, <1>3, <2>2, LeaseKept DEF Inv
  <2> QED
    BY <2>1, <2>2
<1>5. OneWinner'
  BY <1>1, <1>2, <1>3 DEF Inv, OneWinner
<1>6. CachedIsCurrent'
  BY <1>1, <1>2, <1>3 DEF Inv, CachedIsCurrent
<1> QED
  BY <1>4, <1>5, <1>6

\* SET NX: it succeeds only where there is no key, so whoever holds a lease
\* keeps it and whoever won a claim stays the only one.
LEMMA SetKeeps ==
    ASSUME Inv, NEW m \in wire, ExecuteSet(m)
    PROVE  LeaseIsHonoured' /\ OneWinner' /\ CachedIsCurrent'
<1> DEFINE c == m.token[1]
<1>t. /\ TypeOK /\ CommandInv /\ m \in Commands /\ c \in Clients
      /\ m.token \in Tokens /\ m.kind \in Kinds /\ m.value \in Values
  BY CommandParts DEF Inv, CommandInv, TypeOK
<1>k. "lock" \in Kinds /\ "idem" \in Kinds /\ "json" \in Kinds
  BY DEF Kinds
<1>1. /\ m.op = "set"
      /\ store' = IF SetNx(m) THEN [store EXCEPT ![m.kind] = m.value] ELSE store
      /\ late' = IF m.kind = "json" THEN m.value # Value("json", m.token) ELSE late
      /\ UNCHANGED <<tries, source, expired, outdated>>
  BY DEF ExecuteSet
<1>2. \/ pc' = pc /\ winners' = winners
      \/ /\ Waits(m, "setting")
         /\ pc' = [pc EXCEPT ![c] = After(m.kind, SetNx(m))]
         /\ winners' = IF m.kind = "idem" /\ SetNx(m) THEN winners \cup {m.token} ELSE winners
  BY DEF ExecuteSet
<1>3. /\ m.kind = "lock" => m.value = m.token
      /\ m.kind = "idem" => m.value = <<None, 0>>
  BY <1>1 DEF Inv, CommandInv, WireIsSound, WellFormed
<1>4. \A q \in Kinds : store'[q] = IF SetNx(m) /\ q = m.kind THEN m.value ELSE store[q]
  BY <1>1, <1>t DEF TypeOK
<1>5. "setting" \in Waiting
  BY DEF Waiting
<1>6. LeaseIsHonoured'
  <2> SUFFICES ASSUME NEW b \in Clients, pc'[b] = "in", Token(b) \notin expired
               PROVE  store'["lock"] = Token(b)
    BY <1>1 DEF LeaseIsHonoured, Token
  <2>1. CASE pc[b] = "in"
    <3>1. store["lock"] = Token(b)
      BY <2>1 DEF Inv, LeaseIsHonoured
    <3>2. Token(b) \in Values
      BY <1>t DEF Token, Values, Tokens, TypeOK
    <3>3. store["lock"] # None
      BY <3>1, <3>2, ValueIsNotNone
    <3>4. SetNx(m) => m.kind # "lock"
      BY <3>3 DEF SetNx
    <3> QED
      BY <1>4, <1>k, <3>1, <3>4
  <2>2. CASE pc[b] # "in"
    <3>1. b = c /\ Waits(m, "setting") /\ m.kind = "lock" /\ SetNx(m)
      BY <1>2, <1>t, <2>2 DEF TypeOK, After
    <3>2. m.token = Token(c)
      BY <1>t, <1>5, <3>1, WaitsForOwn
    <3> QED
      BY <1>3, <1>4, <1>k, <3>1, <3>2
  <2> QED
    BY <2>1, <2>2
<1>7. OneWinner'
  <2>1. CASE m.kind = "idem" /\ SetNx(m)
    <3>1. store["idem"] = None
      BY <2>1 DEF SetNx
    <3>2. <<None, 0>> \in Values
      BY DEF Values
    <3>3. winners = {}
      BY <3>1, <3>2, ValueIsNotNone DEF Inv, OneWinner
    <3>4. store'["idem"] = <<None, 0>>
      BY <1>3, <1>4, <1>k, <2>1
    <3>5. winners' = {} \/ winners' = {m.token}
      BY <1>2, <2>1, <3>3
    <3> QED
      BY <1>t, <3>4, <3>5 DEF OneWinner
  <2>2. CASE ~ (m.kind = "idem" /\ SetNx(m))
    <3>1. winners' = winners /\ store'["idem"] = store["idem"]
      BY <1>2, <1>4, <1>k, <2>2
    <3> QED
      BY <3>1 DEF Inv, OneWinner
  <2> QED
    BY <2>1, <2>2
<1>8. CachedIsCurrent'
  <2>1. CASE m.kind = "json"
    <3>1. Value("json", m.token) = <<None, source>>
      BY ValueForm
    <3>2. store'["json"] = m.value
      BY <1>4, <1>k, <2>1 DEF SetNx
    <3>3. late' = (m.value # <<None, source>>)
      BY <1>1, <2>1, <3>1
    <3> QED
      BY <1>1, <3>2, <3>3 DEF CachedIsCurrent
  <2>2. CASE m.kind # "json"
    <3>1. store'["json"] = store["json"] /\ late' = late
      BY <1>1, <1>4, <1>k, <2>2
    <3> QED
      BY <1>1, <3>1 DEF Inv, CachedIsCurrent
  <2> QED
    BY <2>1, <2>2
<1> QED
  BY <1>6, <1>7, <1>8

\* The release script: a release on the wire carries the token of a call that
\* is over, which is not the one of whoever is inside.
LEMMA ReleaseKeeps ==
    ASSUME Inv, NEW m \in wire, ExecuteRelease(m)
    PROVE  LeaseIsHonoured' /\ OneWinner' /\ CachedIsCurrent'
<1> DEFINE c == m.token[1]
<1>t. /\ TypeOK /\ m \in Commands /\ c \in Clients
      /\ m.token = <<c, m.token[2]>> /\ m.kind \in Kinds
  BY CommandParts DEF Inv, CommandInv, TypeOK
<1>1. /\ m.op = "release" /\ m.kind = "lock" /\ Sent(m)
  BY DEF ExecuteRelease, Inv, CommandInv, WireIsSound, WellFormed
<1>2. /\ store' = [store EXCEPT !["lock"] = IF @ = m.token THEN None ELSE @]
      /\ UNCHANGED <<tries, source, expired, winners, outdated, late>>
      /\ pc' = pc \/ pc' = [pc EXCEPT ![c] = "out"]
  BY <1>1 DEF ExecuteRelease, ReleaseScript
<1>3. /\ store'["lock"] = IF store["lock"] = m.token THEN None ELSE store["lock"]
      /\ store'["idem"] = store["idem"] /\ store'["json"] = store["json"]
  BY <1>2, <1>t DEF TypeOK, Kinds
<1>4. LeaseIsHonoured'
  <2> SUFFICES ASSUME NEW b \in Clients, pc'[b] = "in", Token(b) \notin expired
               PROVE  store'["lock"] = Token(b)
    BY <1>2 DEF LeaseIsHonoured, Token
  <2>1. pc[b] = "in"
    BY <1>2, <1>t DEF TypeOK
  <2>2. store["lock"] = Token(b)
    BY <2>1 DEF Inv, LeaseIsHonoured
  <2>3. m.token # Token(b)
    <3> SUFFICES ASSUME m.token = Token(b) PROVE FALSE
      OBVIOUS
    <3>1. b = c /\ m.token[2] = tries[c]
      BY <1>t DEF Token
    <3> QED
      BY <1>1, <2>1, <3>1 DEF Sent
  <2> QED
    BY <1>3, <2>2, <2>3
<1>5. OneWinner'
  BY <1>2, <1>3 DEF Inv, OneWinner
<1>6. CachedIsCurrent'
  BY <1>2, <1>3 DEF Inv, CachedIsCurrent
<1> QED
  BY <1>4, <1>5, <1>6

\* DEL: it names the cached value and no other key.
LEMMA DeleteKeeps ==
    ASSUME Inv, NEW m \in wire, ExecuteDelete(m)
    PROVE  LeaseIsHonoured' /\ OneWinner' /\ CachedIsCurrent'
<1>t. TypeOK
  BY DEF Inv, CommandInv
<1>1. m.op = "delete" /\ m.kind = "json"
  BY DEF ExecuteDelete, Inv, CommandInv, WireIsSound, WellFormed
<1>2. /\ store' = [store EXCEPT !["json"] = None]
      /\ UNCHANGED <<tries, source, expired, winners, late>>
      /\ pc' = pc \/ pc' = [pc EXCEPT ![m.token[1]] = "out"]
  BY <1>1 DEF ExecuteDelete, DeleteKey
<1>3. /\ store'["json"] = None
      /\ store'["idem"] = store["idem"] /\ store'["lock"] = store["lock"]
  BY <1>2, <1>t DEF TypeOK, Kinds
<1>4. \A b \in Clients : pc'[b] = "in" => pc[b] = "in"
  BY <1>2, <1>t DEF TypeOK
<1>5. LeaseIsHonoured'
  BY <1>2, <1>3, <1>4, LeaseKept DEF Inv
<1>6. OneWinner' /\ CachedIsCurrent'
  BY <1>2, <1>3 DEF Inv, OneWinner, CachedIsCurrent
<1> QED
  BY <1>5, <1>6

\* Every step keeps Inv.
LEMMA NextInv == Inv /\ [Next]_vars => Inv'
<1> SUFFICES ASSUME Inv, [Next]_vars
             PROVE  LeaseIsHonoured' /\ OneWinner' /\ CachedIsCurrent'
  BY NextCommand DEF Inv
<1>1. CASE UNCHANGED vars
  BY <1>1 DEF vars, Inv, LeaseIsHonoured, OneWinner, CachedIsCurrent, Token
<1>2. CASE Next
  BY <1>2, ClientKeeps, ExpireKeeps, SetKeeps, ReleaseKeeps, DeleteKeeps DEF Next
<1> QED
  BY <1>1, <1>2

\* Inv is an invariant of the cache store.
THEOREM Invariance == Spec => []Inv
BY InitInv, NextInv, PTL DEF Spec

\* "an expired lock that someone else re-acquired is never stolen by our exit
\* path", whatever number of clients, lost answers and repeated commands.
THEOREM LeasesAreHonoured == Spec => []LeaseIsHonoured
<1>1. Inv => LeaseIsHonoured
  BY DEF Inv
<1> QED
  BY <1>1, Invariance, PTL

\* So two clients are inside lock() at once only when the lease of one ended.
THEOREM LocksExclude ==
    Spec => [](\A a, b \in Clients :
                  /\ pc[a] = "in" /\ Token(a) \notin expired
                  /\ pc[b] = "in" /\ Token(b) \notin expired
                  => a = b)
<1>1. LeaseIsHonoured => (\A a, b \in Clients :
                              /\ pc[a] = "in" /\ Token(a) \notin expired
                              /\ pc[b] = "in" /\ Token(b) \notin expired
                              => a = b)
  <2> SUFFICES ASSUME LeaseIsHonoured, NEW a \in Clients, NEW b \in Clients,
                      pc[a] = "in", Token(a) \notin expired,
                      pc[b] = "in", Token(b) \notin expired
               PROVE  a = b
    OBVIOUS
  <2>1. Token(a) = Token(b)
    BY DEF LeaseIsHonoured
  <2> QED
    BY <2>1 DEF Token
<1> QED
  BY <1>1, LeasesAreHonoured, PTL

\* claim_idempotency has one winner at most until the claim expires.
THEOREM ClaimsExclude == Spec => []ClaimsAreExclusive
<1>1. Inv => ClaimsAreExclusive
  <2> SUFFICES ASSUME Inv PROVE Cardinality(winners) <= 1
    BY DEF Inv, OneWinner, ClaimsAreExclusive
  <2>1. CASE winners = {}
    BY <2>1, FS_EmptySet
  <2>2. CASE winners # {}
    <3>1. PICK t \in Tokens : winners = {t}
      BY <2>2 DEF Inv, OneWinner
    <3>2. Cardinality({t}) = 1
      BY FS_Singleton
    <3> QED
      BY <3>1, <3>2
  <2> QED
    BY <2>1, <2>2
<1> QED
  BY <1>1, Invariance, PTL

\* What is cached is current after a delete, but for a fill that came late.
THEOREM CacheIsCurrent == Spec => []CachedIsCurrent
<1>1. Inv => CachedIsCurrent
  BY DEF Inv
<1> QED
  BY <1>1, Invariance, PTL
=============================================================================
