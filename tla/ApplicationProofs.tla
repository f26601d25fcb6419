-------------------------- MODULE ApplicationProofs --------------------------
(***************************************************************************)
(* Proofs about the application's process: the API process (Service), for  *)
(* any capabilities, environments, dimensions, HTTP codes and probed       *)
(* dependencies; and the storage clients it hands out (Storage), for any   *)
(* number of pages, batch size, calls of put_pages and clients made.       *)
(*                                                                         *)
(* Of Storage, two inductive invariants.  PagesInv, about put_pages: a     *)
(* page keeps the one row it has, the pages a call is done with are        *)
(* stored, and they are stored with its text unless a stray has put an     *)
(* older one back.  With StrayInv, about who sent an upsert, it gives the  *)
(* refinement of PagesContract.  LifeInv, about the clients of the         *)
(* factory: it needs that one coroutine at a time runs close_stores.       *)
(*                                                                         *)
(* Of Service, one for each property: AnswerInv and ReadyInv tie an answer *)
(* to the request and to the probes it comes from, and VerifiedInv ties    *)
(* what was verified to what the database records.  MigrationsInvert is    *)
(* inductive as it stands; its steps are the two runs of Alembic, followed *)
(* statement by statement along AtUpgrade and AtDowngrade.                 *)
(***************************************************************************)
EXTENDS Storage, Service, TLAPS, FiniteSetTheorems, WellFoundedInduction


\* With the unique index a page has one row, once it has one.
OneRow == unique => \A p \in Pages : rows[p] = {} \/ \E a \in Calls : rows[p] = {a}

\* An upsert that is on its way belongs to a call that waits for it, or is a
\* stray.
FlightsAreKnown == \A u \in flying : call[u[1]] = "batch" \/ u \in left

\* The calls come one after the other, and each starts with the first page.
CallsInTurn ==
    \A a \in Calls :
        /\ call[a] = "new" => start[a] = 1
        /\ call[a] # "new" => \A b \in Calls : b < a => call[b] \in {"returned", "raised"}

DoneIsStored == \A a \in Calls, p \in Pages : Done(a, p) => rows[p] # {}

Latest(a) == \A b \in Calls : b > a => call[b] = "new"

\* Page p has the text of call a, or the one a stray put back.
Written(a, p) ==
    \E b \in Calls : /\ b = a \/ <<b, p>> \in left
                     /\ b \in rows[p]
                     /\ unique => rows[p] = {b}

\* Call a writes page p, instead of a row or beside the others.
WritesRow(a, p) ==
    \E old \in {{}} \cup {{b} : b \in rows[p]} :
        /\ unique => old = rows[p]
        /\ rows' = [rows EXCEPT ![p] = (@ \ old) \cup {a}]

\* What is then stored of the page.
HasText(a, p) == a \in rows[p] /\ (unique => rows[p] = {a})

DoneIsWritten == \A a \in Calls, p \in Pages : Latest(a) /\ Done(a, p) => Written(a, p)

PagesInv ==
    TypeOK /\ OneRow /\ FlightsAreKnown /\ CallsInTurn /\ DoneIsStored /\ DoneIsWritten

\* close_stores runs "on process shutdown and between tests": one coroutine
\* calls it.
OneCloser == \A t, u \in Closers : t = u

LifeType ==
    /\ installed \in [L!Stores -> Nat]
    /\ made \in [L!Stores -> Nat]
    /\ pc \in [Closers -> {"idle", "aclose"}]
    /\ target \in [Closers -> Nat]

\* The client installed is the last one made; numbers are not handed out
\* twice; the client that is being closed is still installed; and the others
\* are closed or lost.
LifeInv ==
    /\ LifeType
    /\ \A s \in L!Stores : installed[s] \in {0, made[s]}
    /\ \A s \in L!Stores, n \in Nat : <<s, n>> \in closed \cup lost => n <= made[s]
    /\ \A t \in Closers : pc[t] = "aclose" => target[t] = installed["cache"] /\ target[t] # 0
    /\ \A s \in L!Pooled : \A n \in 1 .. made[s] :
          <<s, n>> \in closed \cup lost <=> n # installed[s]

----------------------------------------------------------------------------
(* put_pages *)

\* Pages and calls are numbers.
LEMMA Numbers ==
    /\ \A p \in Pages : p \in Nat /\ p >= 1 /\ p <= NumPages
    /\ \A a \in Calls : a \in Nat
BY ContentPagesAssumption DEF Pages, Calls

\* An upsert is a call and a page.
LEMMA UpsertType ==
    ASSUME TypeOK, NEW u \in flying
    PROVE  u[1] \in Calls /\ u[2] \in Pages /\ u = <<u[1], u[2]>>
BY DEF TypeOK

\* The upserts of a batch.
LEMMA UpsertsOf ==
    ASSUME NEW a \in Calls, NEW first \in Nat
    PROVE  /\ Upserts(a, first) \subseteq Calls \X Pages
           /\ \A v \in Upserts(a, first) : v[1] = a
           /\ \A p \in Pages : first <= p /\ p < first + UPSERT_BATCH_SIZE
                 => <<a, p>> \in Upserts(a, first)
           /\ \A b \in Calls, p \in Pages : <<b, p>> \in Upserts(a, first) => b = a
BY DEF Upserts, Batch

\* An upsert that writes does so in one of those ways.
LEMMA WriteForm ==
    ASSUME TypeOK, OneRow, NEW u \in flying,
           \/ rows' \in Replaced(u)
           \/ ~ Refused(u) /\ rows' = Inserted(u)
    PROVE  WritesRow(u[1], u[2])
<1>1. u[2] \in Pages
  BY UpsertType
<1>2. CASE rows' \in Replaced(u)
  <2>1. PICK old \in rows[u[2]] : rows' = [rows EXCEPT ![u[2]] = (@ \ {old}) \cup {u[1]}]
    BY <1>2 DEF Replaced
  <2>2. unique => {old} = rows[u[2]]
    BY <1>1 DEF OneRow
  <2> QED
    BY <2>1, <2>2 DEF WritesRow
<1>3. CASE ~ Refused(u) /\ rows' = Inserted(u)
  <2>1. rows' = [rows EXCEPT ![u[2]] = (@ \ {}) \cup {u[1]}]
    BY <1>3 DEF Inserted
  <2>2. unique => {} = rows[u[2]]
    BY <1>3 DEF Refused
  <2> QED
    BY <2>1, <2>2 DEF WritesRow
<1> QED
  BY <1>2, <1>3

\* What such a write leaves.
LEMMA WriteText ==
    ASSUME TypeOK, NEW a \in Calls, NEW p \in Pages, WritesRow(a, p), unique' = unique
    PROVE  /\ rows' \in [Pages -> SUBSET Calls]
           /\ \A q \in Pages : q # p => rows'[q] = rows[q]
           /\ HasText(a, p)'
<1>1. PICK old \in {{}} \cup {{b} : b \in rows[p]} :
         /\ unique => old = rows[p]
         /\ rows' = [rows EXCEPT ![p] = (@ \ old) \cup {a}]
  BY DEF WritesRow
<1> QED
  BY <1>1 DEF TypeOK, HasText

\* PagesInv depends on the variables of ContentPages.
LEMMA PagesSame ==
    ASSUME PagesInv, UNCHANGED vars
    PROVE  PagesInv'
BY DEF vars, PagesInv, TypeOK, OneRow, FlightsAreKnown, CallsInTurn, DoneIsStored,
       DoneIsWritten, Done, Latest, Written

\* Nothing is stored and nothing is called.
LEMMA InitPages == Init => PagesInv
<1> SUFFICES ASSUME Init PROVE PagesInv
  OBVIOUS
<1>1. TypeOK
  BY DEF Init, TypeOK
<1>2. OneRow /\ FlightsAreKnown /\ CallsInTurn
  BY DEF Init, OneRow, FlightsAreKnown, CallsInTurn
<1>3. DoneIsStored /\ DoneIsWritten
  BY DEF Init, DoneIsStored, DoneIsWritten, Done
<1> QED
  BY <1>1, <1>2, <1>3 DEF PagesInv

\* While a call waits, it is the latest one.
LEMMA BatchIsLatest ==
    ASSUME PagesInv, NEW a \in Calls, call[a] = "batch", NEW b \in Calls, call[b] # "new"
    PROVE  b <= a /\ (b < a => call[b] \in {"returned", "raised"})
BY Numbers DEF PagesInv, CallsInTurn

\* The server works on an upsert, or the upsert fails: what happens to its
\* page, to its call and to the other upserts of the call.
LEMMA Lands ==
    ASSUME PagesInv, TypeOK', NEW u \in flying,
           rows' = rows \/ WritesRow(u[1], u[2]),
           \/ flying' = flying
           \/ /\ flying' = flying \ {u}
              /\ \/ WritesRow(u[1], u[2])
                 \/ call'[u[1]] # "batch",
           \A a \in Calls : call'[a] = call[a]
              \/ /\ a = u[1] /\ call[a] = "batch" /\ call'[a] = "raised"
                 /\ \A v \in flying' : v[1] = a => v \in left',
           left \subseteq left', start' = start, unique' = unique
    PROVE  PagesInv'
<1>t. TypeOK /\ u[1] \in Calls /\ u[2] \in Pages /\ u = <<u[1], u[2]>>
  BY UpsertType DEF PagesInv
<1>1. \A p \in Pages : rows'[p] = rows[p] \/ (p = u[2] /\ HasText(u[1], p)')
  BY <1>t, WriteText
<1>2. OneRow'
  BY <1>1, <1>t DEF PagesInv, OneRow, HasText
<1>3. FlightsAreKnown'
  <2> SUFFICES ASSUME NEW v \in flying' PROVE call'[v[1]] = "batch" \/ v \in left'
    BY DEF FlightsAreKnown
  <2>1. v \in flying /\ v[1] \in Calls
    BY <1>t, UpsertType
  <2>2. call[v[1]] = "batch" \/ v \in left
    BY <2>1 DEF PagesInv, FlightsAreKnown
  <2> QED
    BY <2>1, <2>2
<1>4. CallsInTurn'
  BY DEF PagesInv, CallsInTurn
<1>5. ASSUME NEW a \in Calls, NEW p \in Pages, Done(a, p)', ~ (p = u[2] /\ HasText(u[1], p)')
      PROVE  Done(a, p) /\ rows'[p] = rows[p]
  <2>1. rows'[p] = rows[p]
    BY <1>1, <1>5
  <2>2. call'[a] = call[a]
    BY <1>5 DEF Done
  <2>3. CASE call[a] = "returned"
    BY <2>1, <2>3 DEF Done
  <2>4. CASE call[a] # "returned"
    <3>1. /\ call[a] = "batch" /\ p < start[a] + UPSERT_BATCH_SIZE
          /\ p < start[a] \/ <<a, p>> \notin flying'
      BY <1>5, <2>2, <2>4 DEF Done
    <3>2. <<a, p>> \notin flying' => <<a, p>> \notin flying
      <4> SUFFICES ASSUME <<a, p>> \notin flying', <<a, p>> \in flying PROVE FALSE
        OBVIOUS
      <4>1. u = <<a, p>> /\ flying' = flying \ {u}
        OBVIOUS
      <4>2. a = u[1] /\ p = u[2]
        BY <4>1
      <4>3. WritesRow(u[1], u[2])
        BY <2>2, <3>1, <4>1, <4>2
      <4>4. HasText(u[1], p)'
        BY <4>2, <4>3, <1>t, WriteText
      <4> QED
        BY <1>5, <4>2, <4>4
    <3> QED
      BY <2>1, <3>1, <3>2 DEF Done
  <2> QED
    BY <2>3, <2>4
<1>6. DoneIsStored'
  <2> SUFFICES ASSUME NEW a \in Calls, NEW p \in Pages, Done(a, p)' PROVE rows'[p] # {}
    BY DEF DoneIsStored
  <2> QED
    BY <1>5 DEF PagesInv, DoneIsStored, HasText
<1>7. DoneIsWritten'
  <2> SUFFICES ASSUME NEW a \in Calls, NEW p \in Pages, Latest(a)', Done(a, p)'
               PROVE  Written(a, p)'
    BY DEF DoneIsWritten
  <2>1. Latest(a) /\ call'[a] = call[a] /\ call[a] \in {"batch", "returned"}
    BY DEF Latest, Done
  <2>2. CASE p = u[2] /\ HasText(u[1], p)' /\ u[1] = a
    BY <2>2 DEF Written, HasText
  <2>3. CASE p = u[2] /\ HasText(u[1], p)' /\ u[1] # a
    <3>1. call[u[1]] # "batch"
      <4> SUFFICES ASSUME call[u[1]] = "batch" PROVE FALSE
        OBVIOUS
      <4>1. a <= u[1] /\ a # u[1]
        BY <1>t, <2>1, <2>3, BatchIsLatest
      <4>2. call[u[1]] = "new"
        BY <1>t, <2>1, <4>1, Numbers DEF Latest
      <4> QED
        BY <4>2
    <3>2. u \in left'
      BY <3>1 DEF PagesInv, FlightsAreKnown
    <3> QED
      BY <1>t, <2>3, <3>2 DEF Written, HasText
  <2>4. CASE ~ (p = u[2] /\ HasText(u[1], p)')
    <3>1. Done(a, p) /\ rows'[p] = rows[p]
      BY <1>5, <2>1, <2>4
    <3>2. Written(a, p)
      BY <2>1, <3>1 DEF PagesInv, DoneIsWritten
    <3>3. PICK b \in Calls : /\ b = a \/ <<b, p>> \in left
                             /\ b \in rows[p]
                             /\ unique => rows[p] = {b}
      BY <3>2 DEF Written
    <3>4. b = a \/ <<b, p>> \in left'
      BY <3>3
    <3>5. b \in rows'[p]
      BY <3>1, <3>3
    <3>6. unique' => rows'[p] = {b}
      BY <3>1, <3>3
    <3> QED
      BY <3>4, <3>5, <3>6 DEF Written
  <2> QED
    BY <2>2, <2>3, <2>4
<1> QED
  BY <1>2, <1>3, <1>4, <1>6, <1>7 DEF PagesInv

\* replace_one finds a row and replaces it, or inserts one.
LEMMA AnswerPages ==
    ASSUME PagesInv, NEW u \in flying, Replace(u) \/ Miss(u) \/ Insert(u)
    PROVE  PagesInv'
<1>t. TypeOK /\ OneRow
  BY DEF PagesInv
<1>1. CASE Replace(u)
  <2>1. WritesRow(u[1], u[2])
    BY <1>1, <1>t, WriteForm DEF Replace
  <2>2. /\ flying' = flying \ {u} /\ missed' = missed \ {u}
        /\ call' = call /\ start' = start /\ left' = left /\ unique' = unique
    BY <1>1 DEF Replace, Landed
  <2>3. TypeOK'
    BY <1>t, <2>1, <2>2, UpsertType, WriteText DEF TypeOK
  <2> QED
    BY <2>1, <2>2, <2>3, Lands
<1>2. CASE Miss(u)
  <2>1. /\ flying' = flying /\ missed' = missed \cup {u}
        /\ rows' = rows /\ call' = call /\ start' = start /\ left' = left /\ unique' = unique
    BY <1>2 DEF Miss
  <2>2. TypeOK'
    BY <1>t, <2>1 DEF TypeOK
  <2> QED
    BY <2>1, <2>2, Lands
<1>3. CASE Insert(u) /\ Refused(u)
  <2>1. /\ flying' = flying /\ missed' = missed \ {u}
        /\ rows' = rows /\ call' = call /\ start' = start /\ left' = left /\ unique' = unique
    BY <1>3 DEF Insert
  <2>2. TypeOK'
    BY <1>t, <2>1 DEF TypeOK
  <2> QED
    BY <2>1, <2>2, Lands
<1>4. CASE Insert(u) /\ ~ Refused(u)
  <2>1. WritesRow(u[1], u[2])
    BY <1>4, <1>t, WriteForm DEF Insert
  <2>2. /\ flying' = flying \ {u} /\ missed' = missed \ {u}
        /\ call' = call /\ start' = start /\ left' = left /\ unique' = unique
    BY <1>4 DEF Insert, Landed
  <2>3. TypeOK'
    BY <1>t, <2>1, <2>2, UpsertType, WriteText DEF TypeOK
  <2> QED
    BY <2>1, <2>2, <2>3, Lands
<1> QED
  BY <1>1, <1>2, <1>3, <1>4

\* An upsert fails: the call that waited for it raises, and the rest of its
\* batch goes on as strays.
LEMMA FailPages ==
    ASSUME PagesInv, NEW u \in flying, UpsertFails(u)
    PROVE  PagesInv'
<1>t. TypeOK /\ OneRow /\ u[1] \in Calls
  BY UpsertType DEF PagesInv
<1>1. rows' = rows \/ WritesRow(u[1], u[2])
  BY <1>t, WriteForm DEF UpsertFails
<1>2. /\ flying' = flying \ {u} /\ missed' = missed \ {u} /\ start' = start
      /\ unique' = unique
      /\ call' = [call EXCEPT ![u[1]] = IF @ = "batch" THEN "raised" ELSE @]
      /\ left' = left \cup IF call[u[1]] = "batch"
                              THEN {v \in flying : v[1] = u[1]} \ {u} ELSE {}
  BY DEF UpsertFails, Landed
<1>3. call' \in [Calls -> {"new", "batch", "returned", "raised"}] /\ call'[u[1]] # "batch"
  BY <1>2, <1>t DEF TypeOK
<1>4. left' \subseteq Calls \X Pages
  BY <1>2, <1>t DEF TypeOK
<1>5. TypeOK'
  BY <1>1, <1>2, <1>3, <1>4, <1>t, UpsertType, WriteText DEF TypeOK
<1>6. ASSUME NEW a \in Calls
      PROVE  call'[a] = call[a]
                \/ /\ a = u[1] /\ call[a] = "batch" /\ call'[a] = "raised"
                   /\ \A v \in flying' : v[1] = a => v \in left'
  BY <1>2, <1>t DEF TypeOK
<1> QED
  BY <1>1, <1>2, <1>3, <1>5, <1>6, Lands

\* A call sends its first or its next batch.
LEMMA BatchPages ==
    ASSUME PagesInv, NEW a \in Calls, NEW first \in Nat,
           \/ MayCall(a) /\ first = 1
           \/ BatchOver(a) /\ first = start[a] + UPSERT_BATCH_SIZE,
           flying' = flying \cup Upserts(a, first),
           start' = [start EXCEPT ![a] = first],
           call' = [call EXCEPT ![a] = "batch"],
           UNCHANGED <<unique, rows, missed, left>>
    PROVE  PagesInv'
<1>t. TypeOK /\ UPSERT_BATCH_SIZE \in Nat
  BY ContentPagesAssumption DEF PagesInv
<1>1. TypeOK'
  BY <1>t, UpsertsOf DEF TypeOK
<1>2. /\ call'[a] = "batch" /\ start'[a] = first
      /\ \A b \in Calls : b # a => call'[b] = call[b] /\ start'[b] = start[b]
  BY <1>t DEF TypeOK
<1>3. OneRow'
  BY DEF PagesInv, OneRow
<1>4. FlightsAreKnown'
  <2> SUFFICES ASSUME NEW v \in flying' PROVE call'[v[1]] = "batch" \/ v \in left'
    BY DEF FlightsAreKnown
  <2>1. CASE v \in flying
    BY <1>2, <1>t, <2>1, UpsertType DEF PagesInv, FlightsAreKnown
  <2>2. CASE v \in Upserts(a, first)
    BY <1>2, <2>2, UpsertsOf
  <2> QED
    BY <2>1, <2>2
<1>5. /\ call[a] \in {"new", "batch"}
      /\ \A b \in Calls : b < a => call[b] \in {"returned", "raised"}
  BY DEF MayCall, BatchOver, PagesInv, CallsInTurn
<1>6. CallsInTurn'
  <2> SUFFICES ASSUME NEW b \in Calls
               PROVE  /\ call'[b] = "new" => start'[b] = 1
                      /\ call'[b] # "new" =>
                            \A c \in Calls : c < b => call'[c] \in {"returned", "raised"}
    BY DEF CallsInTurn
  <2>1. CASE b = a
    BY <1>2, <1>5, <2>1, Numbers
  <2>2. CASE b # a
    <3>1. call[b] # "new" => \A c \in Calls : c < b => call[c] \in {"returned", "raised"}
      BY DEF PagesInv, CallsInTurn
    <3>2. call[b] # "new" => ~ (a < b)
      BY <1>5, <3>1
    <3>3. call[b] = "new" => start[b] = 1
      BY DEF PagesInv, CallsInTurn
    <3> QED
      BY <1>2, <2>2, <3>1, <3>2, <3>3
  <2> QED
    BY <2>1, <2>2
<1>7. ASSUME NEW p \in Pages, Done(a, p)' PROVE Done(a, p) /\ call[a] = "batch"
  <2>1. /\ p < first + UPSERT_BATCH_SIZE
        /\ p < first \/ <<a, p>> \notin flying'
    BY <1>2, <1>7 DEF Done
  <2>2. p < first
    BY <2>1, UpsertsOf, Numbers
  <2>3. BatchOver(a) /\ first = start[a] + UPSERT_BATCH_SIZE
    BY <2>2, Numbers
  <2> QED
    BY <2>2, <2>3 DEF BatchOver, Done
<1>8. ASSUME NEW b \in Calls, NEW p \in Pages, b # a, Done(b, p)' PROVE Done(b, p)
  BY <1>2, <1>8 DEF Done
<1>9. DoneIsStored'
  BY <1>7, <1>8 DEF PagesInv, DoneIsStored
<1>10. DoneIsWritten'
  <2> SUFFICES ASSUME NEW b \in Calls, NEW p \in Pages, Latest(b)', Done(b, p)'
               PROVE  Written(b, p)'
    BY DEF DoneIsWritten
  <2>1. Done(b, p)
    BY <1>7, <1>8
  <2>2. Latest(b)
    <3>1. CASE b = a
      BY <1>2, <3>1, Numbers DEF Latest
    <3>2. CASE b # a
      <4>1. ~ (a > b)
        BY <1>2 DEF Latest
      <4> QED
        BY <1>2, <4>1 DEF Latest
    <3> QED
      BY <3>1, <3>2
  <2>3. Written(b, p)
    BY <2>1, <2>2 DEF PagesInv, DoneIsWritten
  <2> QED
    BY <2>3 DEF Written
<1> QED
  BY <1>1, <1>3, <1>4, <1>6, <1>9, <1>10 DEF PagesInv

\* A call ends: it returns when it is done with every page, or raises and
\* none of its upserts is on its way.
LEMMA EndPages ==
    ASSUME PagesInv, NEW a \in Calls, NEW ending \in {"returned", "raised"},
           MayCall(a) \/ BatchOver(a),
           ending = "returned" => \A p \in Pages : Done(a, p),
           call' = [call EXCEPT ![a] = ending],
           UNCHANGED <<unique, rows, flying, missed, start, left>>
    PROVE  PagesInv'
<1>t. TypeOK
  BY DEF PagesInv
<1>1. TypeOK'
  BY <1>t DEF TypeOK
<1>2. /\ call'[a] = ending
      /\ \A b \in Calls : b # a => call'[b] = call[b]
  BY <1>t DEF TypeOK
<1>3. OneRow'
  BY DEF PagesInv, OneRow
<1>4. FlightsAreKnown'
  <2> SUFFICES ASSUME NEW v \in flying PROVE call'[v[1]] = "batch" \/ v \in left
    BY DEF FlightsAreKnown
  <2>1. v[1] \in Calls /\ v[2] \in Pages /\ v = <<v[1], v[2]>>
    BY <1>t, UpsertType
  <2>2. call[v[1]] = "batch" \/ v \in left
    BY DEF PagesInv, FlightsAreKnown
  <2>3. v[1] = a => call[a] # "batch"
    BY <2>1 DEF MayCall, BatchOver
  <2> QED
    BY <1>2, <2>1, <2>2, <2>3
<1>5. \A b \in Calls : b < a => call[b] \in {"returned", "raised"}
  BY DEF MayCall, BatchOver, PagesInv, CallsInTurn
<1>6. CallsInTurn'
  <2> SUFFICES ASSUME NEW b \in Calls
               PROVE  /\ call'[b] = "new" => start[b] = 1
                      /\ call'[b] # "new" =>
                            \A c \in Calls : c < b => call'[c] \in {"returned", "raised"}
    BY DEF CallsInTurn
  <2>1. CASE b = a
    BY <1>2, <1>5, <2>1, Numbers
  <2>2. CASE b # a
    BY <1>2, <2>2 DEF PagesInv, CallsInTurn
  <2> QED
    BY <2>1, <2>2
<1>7. ASSUME NEW b \in Calls, NEW p \in Pages, Done(b, p)' PROVE Done(b, p)
  BY <1>2, <1>7 DEF Done
<1>8. DoneIsStored'
  BY <1>7 DEF PagesInv, DoneIsStored
<1>9. DoneIsWritten'
  <2> SUFFICES ASSUME NEW b \in Calls, NEW p \in Pages, Latest(b)', Done(b, p)'
               PROVE  Written(b, p)'
    BY DEF DoneIsWritten
  <2>1. Latest(b)
    <3>1. ~ (a > b)
      BY <1>2 DEF Latest
    <3> QED
      BY <1>2, <3>1 DEF Latest
  <2>2. Written(b, p)
    BY <1>7, <2>1 DEF PagesInv, DoneIsWritten
  <2> QED
    BY <2>2 DEF Written
<1> QED
  BY <1>1, <1>3, <1>4, <1>6, <1>8, <1>9 DEF PagesInv

\* put_pages is called.
LEMMA PutKeeps ==
    ASSUME PagesInv, NEW a \in Calls, PutPages(a)
    PROVE  PagesInv'
<1>t. TypeOK /\ call[a] = "new" /\ start[a] = 1
  BY DEF PagesInv, PutPages, MayCall, CallsInTurn
<1>1. MayCall(a) /\ flying' = flying \cup Upserts(a, 1)
  BY DEF PutPages
<1>2. CASE Pages = {}
  <2>1. Upserts(a, 1) = {}
    BY <1>2 DEF Upserts, Batch
  <2>2. call' = [call EXCEPT ![a] = "returned"] /\ UNCHANGED <<unique, rows, flying, missed, start, left>>
    BY <1>1, <1>2, <2>1 DEF PutPages
  <2> QED
    BY <1>1, <1>2, <2>2, EndPages
<1>3. CASE Pages # {}
  <2>1. call' = [call EXCEPT ![a] = "batch"] /\ UNCHANGED <<unique, rows, missed, start, left>>
    BY <1>3 DEF PutPages
  <2>2. start' = [start EXCEPT ![a] = 1]
    BY <1>t, <2>1 DEF TypeOK
  <2> QED
    BY <1>1, <2>1, <2>2, BatchPages
<1> QED
  BY <1>2, <1>3

\* A batch was answered: the next one, or the end.
LEMMA NextBatchKeeps ==
    ASSUME PagesInv, NEW a \in Calls, NextBatch(a)
    PROVE  PagesInv'
<1>t. TypeOK /\ start[a] \in Nat /\ UPSERT_BATCH_SIZE \in Nat /\ NumPages \in Nat
  BY ContentPagesAssumption DEF PagesInv, TypeOK
<1> DEFINE first == start[a] + UPSERT_BATCH_SIZE
<1>1. BatchOver(a) /\ first \in Nat /\ UNCHANGED <<unique, rows, missed, left>>
  BY <1>t DEF NextBatch
<1>2. CASE first <= NumPages
  <2>1. /\ start' = [start EXCEPT ![a] = first] /\ call' = call
        /\ flying' = flying \cup Upserts(a, first)
    BY <1>2 DEF NextBatch, NextStart
  <2>2. call' = [call EXCEPT ![a] = "batch"]
    BY <1>1, <1>t, <2>1 DEF BatchOver, TypeOK
  <2> QED
    BY <1>1, <2>1, <2>2, BatchPages
<1>3. CASE ~ (first <= NumPages)
  <2>1. call' = [call EXCEPT ![a] = "returned"] /\ UNCHANGED <<start, flying>>
    BY <1>3 DEF NextBatch, NextStart
  <2>2. \A p \in Pages : Done(a, p)
    BY <1>1, <1>3, <1>t, Numbers DEF Done, BatchOver
  <2> QED
    BY <1>1, <2>1, <2>2, EndPages
<1> QED
  BY <1>2, <1>3

\* The index is built: no page has two rows.
LEMMA IndexKeeps ==
    ASSUME PagesInv, CreateIndex
    PROVE  PagesInv'
<1>1. /\ unique' = TRUE /\ \A p \in Pages : \A a, b \in rows[p] : a = b
      /\ UNCHANGED <<rows, flying, missed, call, start, left>>
  BY DEF CreateIndex
<1>2. TypeOK' /\ FlightsAreKnown' /\ CallsInTurn' /\ DoneIsStored'
  BY <1>1 DEF PagesInv, TypeOK, FlightsAreKnown, CallsInTurn, DoneIsStored, Done
<1>3. OneRow'
  BY <1>1 DEF PagesInv, TypeOK, OneRow
<1>4. DoneIsWritten'
  BY <1>1 DEF PagesInv, DoneIsWritten, Latest, Done, Written
<1> QED
  BY <1>2, <1>3, <1>4 DEF PagesInv

\* Every step keeps PagesInv.
LEMMA NextPages == PagesInv /\ [StorageNext]_allVars => PagesInv'
<1> SUFFICES ASSUME PagesInv, [StorageNext]_allVars PROVE PagesInv'
  OBVIOUS
<1>0. CASE UNCHANGED vars
  BY <1>0, PagesSame
<1>1. ASSUME NEW a \in Calls, TakeStore(a) PROVE PagesInv'
  BY <1>0, <1>1 DEF TakeStore
<1>2. ASSUME NEW a \in Calls, Put(a) PROVE PagesInv'
  BY <1>2, PutKeeps DEF Put
<1>3. ASSUME NEW a \in Calls, Continue(a) PROVE PagesInv'
  BY <1>3, NextBatchKeeps DEF Continue
<1>4. ASSUME NEW a \in Calls, ClosedRaises(a) PROVE PagesInv'
  <2>1. /\ call' = [call EXCEPT ![a] = "raised"]
        /\ UNCHANGED <<unique, rows, flying, missed, start, left>>
        /\ MayCall(a) \/ BatchOver(a)
    BY <1>4 DEF ClosedRaises
  <2> QED
    BY <2>1, EndPages
<1>5. ASSUME NEW u \in flying, Answer(u) PROVE PagesInv'
  BY <1>5, AnswerPages DEF Answer
<1>6. ASSUME NEW u \in flying, Fail(u) PROVE PagesInv'
  BY <1>6, FailPages DEF Fail
<1>7. ASSUME NEW s \in L!Stores, Get(s) PROVE PagesInv'
  BY <1>0, <1>7 DEF Get
<1>8. ASSUME NEW t \in Closers, AtOnce(t) \/ Begins(t) \/ Ends(t) \/ Fails(t) PROVE PagesInv'
  BY <1>0, <1>8 DEF AtOnce, Begins, Ends, Fails
<1>9. CASE UNCHANGED allVars
  BY <1>0, <1>9 DEF allVars
<1>i. CASE Index
  BY <1>i, IndexKeeps DEF Index
<1> QED
  BY <1>i, <1>1, <1>2, <1>3, <1>4, <1>5, <1>6, <1>7, <1>8, <1>9 DEF StorageNext

\* Type correctness of the pages, the upserts and the calls.
THEOREM TypeCorrect == StorageSpec => []TypeOK
<1>1. StorageInit => PagesInv
  BY InitPages DEF StorageInit
<1>2. PagesInv => TypeOK
  BY DEF PagesInv
<1> QED
  BY <1>1, <1>2, NextPages, PTL DEF StorageSpec

\* When put_pages has returned, every page is stored, and in one row if the
\* index is there, for any number of pages, batch size, failed calls before it
\* and strays they left.
THEOREM ReturnedStaysComplete == StorageSpec => []ReturnedIsComplete
<1>1. StorageInit => PagesInv
  BY InitPages DEF StorageInit
<1>2. PagesInv => ReturnedIsComplete
  <2> SUFFICES ASSUME PagesInv, NEW a \in Calls, call[a] = "returned", NEW p \in Pages
               PROVE  rows[p] # {} /\ (unique => Cardinality(rows[p]) = 1)
    BY DEF ReturnedIsComplete
  <2>1. rows[p] # {}
    BY DEF PagesInv, DoneIsStored, Done
  <2>2. unique => \E b \in Calls : rows[p] = {b}
    BY <2>1 DEF PagesInv, OneRow
  <2> QED
    BY <2>1, <2>2, FS_Singleton
<1> QED
  BY <1>1, <1>2, NextPages, PTL DEF StorageSpec

\* A retried put_pages overwrites: its text is stored for every page, unless
\* an upsert that a failed call left running has landed since.
THEOREM RetriesOverwrite == StorageSpec => []RetryOverwrites
<1>1. StorageInit => PagesInv
  BY InitPages DEF StorageInit
<1>2. PagesInv => RetryOverwrites
  <2>1. ASSUME PagesInv, NEW a \in Calls, call[a] = "returned", Latest(a), NEW p \in Pages
        PROVE  Written(a, p)
    BY <2>1 DEF PagesInv, DoneIsWritten, Done
  <2>2. ASSUME PagesInv, NEW a \in Calls, call[a] = "returned",
               \A b \in Calls : b > a => call[b] = "new"
        PROVE  \A p \in Pages : \E b \in Calls :
                  /\ b = a \/ <<b, p>> \in left
                  /\ b \in rows[p]
                  /\ unique => rows[p] = {b}
    BY <2>1, <2>2 DEF Latest, Written
  <2> QED
    BY <2>2 DEF RetryOverwrites
<1> QED
  BY <1>1, <1>2, NextPages, PTL DEF StorageSpec

----------------------------------------------------------------------------
(* put_pages implements PagesContract *)

\* A call that runs waits for upserts of its present batch, or of an earlier
\* one, and what outlives a call outlives one that raised.
FlightsInBatch ==
    \A u \in flying : call[u[1]] = "batch" => u[2] < start[u[1]] + UPSERT_BATCH_SIZE

StraysRaised == \A u \in left : call[u[1]] = "raised"

StrayInv == FlightsInBatch /\ StraysRaised

\* Who an upsert belongs to.
LEMMA SenderOf ==
    ASSUME PagesInv, StrayInv, NEW u \in flying
    PROVE  /\ u[1] \in Calls /\ u[2] \in Pages /\ u = <<u[1], u[2]>>
           /\ call[u[1]] \in {"batch", "raised"}
           /\ call[u[1]] = "batch" => u[2] < start[u[1]] + UPSERT_BATCH_SIZE
  BY UpsertType DEF PagesInv, FlightsAreKnown, StrayInv, FlightsInBatch, StraysRaised

\* A call sends a batch.
LEMMA BatchStrays ==
    ASSUME PagesInv, StrayInv, NEW a \in Calls, NEW first \in Nat,
           \/ MayCall(a)
           \/ BatchOver(a),
           flying' = flying \cup Upserts(a, first),
           start' = [start EXCEPT ![a] = first],
           call' = [call EXCEPT ![a] = "batch"],
           left' = left
    PROVE  StrayInv'
<1>t. TypeOK
  BY DEF PagesInv
<1>1. /\ call'[a] = "batch" /\ start'[a] = first /\ call[a] \in {"new", "batch"}
      /\ \A b \in Calls : b # a => call'[b] = call[b] /\ start'[b] = start[b]
  BY <1>t DEF TypeOK, MayCall, BatchOver
<1>2. FlightsInBatch'
  <2> SUFFICES ASSUME NEW u \in flying', call'[u[1]] = "batch"
               PROVE  u[2] < start'[u[1]] + UPSERT_BATCH_SIZE
    BY DEF FlightsInBatch
  <2>1. CASE u \in Upserts(a, first)
    <3>1. PICK p \in Batch(first) : u = <<a, p>>
      BY <2>1 DEF Upserts
    <3> QED
      BY <1>1, <3>1 DEF Batch
  <2>2. CASE u \in flying
    <3>1. u[1] # a
      BY <2>2, <1>1, SenderOf DEF MayCall, BatchOver
    <3> QED
      BY <1>1, <2>2, <3>1, SenderOf
  <2> QED
    BY <2>1, <2>2
<1>3. StraysRaised'
  <2> SUFFICES ASSUME NEW u \in left PROVE call'[u[1]] = "raised"
    BY DEF StraysRaised
  <2>1. u[1] \in Calls /\ call[u[1]] = "raised"
    BY <1>t DEF TypeOK, StrayInv, StraysRaised
  <2> QED
    BY <1>1, <2>1
<1> QED
  BY <1>2, <1>3 DEF StrayInv

\* A call ends, or the server is done with an upsert.
LEMMA EndStrays ==
    ASSUME PagesInv, StrayInv, flying' \subseteq flying, start' = start,
           \A a \in Calls : \/ call'[a] = call[a]
                            \/ call[a] \in {"new", "batch"} /\ call'[a] # "batch",
           \A u \in left' : u \in left \/ (u[1] \in Calls /\ call'[u[1]] = "raised")
    PROVE  StrayInv'
<1>1. FlightsInBatch'
  <2> SUFFICES ASSUME NEW u \in flying', call'[u[1]] = "batch"
               PROVE  u[2] < start[u[1]] + UPSERT_BATCH_SIZE
    BY DEF FlightsInBatch
  <2>1. u \in flying
    OBVIOUS
  <2> QED
    BY <2>1, SenderOf
<1>2. StraysRaised'
  <2> SUFFICES ASSUME NEW u \in left' PROVE call'[u[1]] = "raised"
    BY DEF StraysRaised
  <2>1. CASE u \in left
    <3>1. u[1] \in Calls /\ call[u[1]] = "raised"
      BY <2>1 DEF PagesInv, TypeOK, StrayInv, StraysRaised
    <3> QED
      BY <3>1
  <2> QED
    BY <2>1
<1> QED
  BY <1>1, <1>2 DEF StrayInv

\* Every step keeps StrayInv.
LEMMA NextStrays == PagesInv /\ StrayInv /\ [StorageNext]_allVars => StrayInv'
<1> SUFFICES ASSUME PagesInv, StrayInv, [StorageNext]_allVars PROVE StrayInv'
  OBVIOUS
<1>t. TypeOK
  BY DEF PagesInv
<1>0. CASE UNCHANGED vars
  BY <1>0 DEF vars, StrayInv, FlightsInBatch, StraysRaised
<1>1. ASSUME NEW a \in Calls, TakeStore(a) PROVE StrayInv'
  BY <1>0, <1>1 DEF TakeStore
<1>2. ASSUME NEW a \in Calls, Put(a) PROVE StrayInv'
  <2>1. MayCall(a) /\ PutPages(a) /\ call[a] = "new" /\ start[a] = 1
    BY <1>2 DEF Put, PutPages, MayCall, PagesInv, CallsInTurn
  <2>2. CASE Pages = {}
    <3>1. Upserts(a, 1) = {}
      BY <2>2 DEF Upserts, Batch
    <3>2. /\ call' = [call EXCEPT ![a] = "returned"]
          /\ flying' = flying /\ start' = start /\ left' = left
      BY <2>1, <2>2, <3>1 DEF PutPages
    <3> QED
      BY <1>t, <2>1, <3>2, EndStrays DEF TypeOK
  <2>3. CASE Pages # {}
    <3>1. /\ call' = [call EXCEPT ![a] = "batch"] /\ left' = left
          /\ flying' = flying \cup Upserts(a, 1) /\ start' = start
      BY <2>1, <2>3 DEF PutPages
    <3>2. start' = [start EXCEPT ![a] = 1]
      BY <1>t, <2>1, <3>1 DEF TypeOK
    <3> QED
      BY <2>1, <3>1, <3>2, BatchStrays
  <2> QED
    BY <2>2, <2>3
<1>3. ASSUME NEW a \in Calls, Continue(a) PROVE StrayInv'
  <2>1. PICK first : first = start[a] + UPSERT_BATCH_SIZE
    OBVIOUS
  <2>2. BatchOver(a) /\ NextBatch(a) /\ call[a] = "batch" /\ first \in Nat
    BY <1>3, <1>t, <2>1, ContentPagesAssumption DEF Continue, NextBatch, BatchOver, TypeOK
  <2>3. CASE first <= NumPages
    <3>1. /\ start' = [start EXCEPT ![a] = first] /\ call' = call /\ left' = left
          /\ flying' = flying \cup Upserts(a, first)
      BY <2>1, <2>2, <2>3 DEF NextBatch, NextStart
    <3>2. call' = [call EXCEPT ![a] = "batch"]
      BY <1>t, <2>2, <3>1 DEF TypeOK
    <3> QED
      BY <2>2, <3>1, <3>2, BatchStrays
  <2>4. CASE ~ (first <= NumPages)
    <3>1. /\ call' = [call EXCEPT ![a] = "returned"] /\ left' = left
          /\ start' = start /\ flying' = flying
      BY <2>1, <2>2, <2>4 DEF NextBatch, NextStart
    <3> QED
      BY <1>t, <2>2, <3>1, EndStrays DEF TypeOK
  <2> QED
    BY <2>3, <2>4
<1>4. ASSUME NEW a \in Calls, ClosedRaises(a) PROVE StrayInv'
  <2>1. /\ call' = [call EXCEPT ![a] = "raised"] /\ left' = left
        /\ start' = start /\ flying' = flying /\ call[a] \in {"new", "batch"}
    BY <1>4 DEF ClosedRaises, MayCall, BatchOver
  <2> QED
    BY <1>t, <2>1, EndStrays DEF TypeOK
<1>5. ASSUME NEW u \in flying, Answer(u) PROVE StrayInv'
  <2>1. flying' \subseteq flying /\ start' = start /\ call' = call /\ left' = left
    BY <1>5 DEF Answer, Replace, Miss, Insert, Landed
  <2> QED
    BY <2>1, EndStrays
<1>6. ASSUME NEW u \in flying, Fail(u) PROVE StrayInv'
  <2>1. /\ flying' \subseteq flying /\ start' = start
        /\ call' = [call EXCEPT ![u[1]] = IF @ = "batch" THEN "raised" ELSE @]
        /\ left' = left \cup IF call[u[1]] = "batch"
                                THEN {v \in flying : v[1] = u[1]} \ {u} ELSE {}
    BY <1>6 DEF Fail, UpsertFails, Landed
  <2>2. u[1] \in Calls
    BY SenderOf
  <2>3. \A a \in Calls : \/ call'[a] = call[a]
                         \/ call[a] \in {"new", "batch"} /\ call'[a] # "batch"
    BY <1>t, <2>1, <2>2 DEF TypeOK
  <2>4. \A v \in left' : v \in left \/ (v[1] \in Calls /\ call'[v[1]] = "raised")
    BY <1>t, <2>1, <2>2 DEF TypeOK
  <2> QED
    BY <2>1, <2>3, <2>4, EndStrays
<1>7. ASSUME NEW s \in L!Stores, Get(s) PROVE StrayInv'
  BY <1>0, <1>7 DEF Get
<1>8. ASSUME NEW t \in Closers, AtOnce(t) \/ Begins(t) \/ Ends(t) \/ Fails(t) PROVE StrayInv'
  BY <1>0, <1>8 DEF AtOnce, Begins, Ends, Fails
<1>9. CASE UNCHANGED allVars
  BY <1>0, <1>9 DEF allVars
<1>i. CASE Index
  BY <1>i DEF Index, CreateIndex, StrayInv, FlightsInBatch, StraysRaised
<1> QED
  BY <1>i, <1>1, <1>2, <1>3, <1>4, <1>5, <1>6, <1>7, <1>8, <1>9 DEF StorageNext

\* How WrittenBy follows Done: it stays the same, ...
LEMMA SameWritten ==
    ASSUME \A a \in Calls, p \in Pages : Done(a, p)' <=> Done(a, p)
    PROVE  WrittenBy' = WrittenBy
  BY DEF WrittenBy

\* ... or a call has written one more page, ...
LEMMA MoreWritten ==
    ASSUME NEW a \in Calls, NEW p \in Pages, Done(a, p)',
           \A b \in Calls, q \in Pages : b # a \/ q # p => (Done(b, q)' <=> Done(b, q))
    PROVE  WrittenBy' = [WrittenBy EXCEPT ![a] = @ \cup {p}]
<1>1. ASSUME NEW b \in Calls
      PROVE  {q \in Pages : Done(b, q)'} =
                IF b = a THEN {q \in Pages : Done(b, q)} \cup {p}
                ELSE {q \in Pages : Done(b, q)}
  OBVIOUS
<1> QED
  BY <1>1 DEF WrittenBy

\* ... or it raises.
LEMMA NoneWritten ==
    ASSUME NEW a \in Calls, \A q \in Pages : ~ Done(a, q)',
           \A b \in Calls, q \in Pages : b # a => (Done(b, q)' <=> Done(b, q))
    PROVE  WrittenBy' = [WrittenBy EXCEPT ![a] = {}]
<1>1. ASSUME NEW b \in Calls
      PROVE  {q \in Pages : Done(b, q)'} =
                IF b = a THEN {} ELSE {q \in Pages : Done(b, q)}
  OBVIOUS
<1> QED
  BY <1>1 DEF WrittenBy

\* What the contract does not see.
LEMMA ContractStutters ==
    ASSUME UNCHANGED <<unique, rows, call, start, flying>>
    PROVE  UNCHANGED Contract!vars
<1>1. WrittenBy' = WrittenBy
  BY SameWritten DEF Done
<1> QED
  BY <1>1 DEF Contract!vars

\* An upsert that writes, whether its call is told so or not.
LEMMA WriteRefined ==
    ASSUME PagesInv, StrayInv, NEW u \in flying,
           WritesRow(u[1], u[2]),
           flying' = flying \ {u}, start' = start, unique' = unique,
           \/ call' = call
           \/ call' = [call EXCEPT ![u[1]] = IF @ = "batch" THEN "raised" ELSE @]
    PROVE  Contract!Next
<1>t. TypeOK
  BY DEF PagesInv
<1>1. PICK a \in Calls, p \in Pages : u = <<a, p>> /\ a = u[1] /\ p = u[2]
  BY SenderOf
<1>2. /\ call[a] \in {"batch", "raised"}
      /\ call[a] = "batch" => p < start[a] + UPSERT_BATCH_SIZE
  BY <1>1, SenderOf
<1>3. Contract!Overwrites(a, p)
  BY <1>1 DEF Contract!Overwrites, WritesRow
<1>4. CASE call' = call /\ call[a] = "batch"
  <2>1. Done(a, p)'
    BY <1>1, <1>2, <1>4 DEF Done
  <2>2. ASSUME NEW b \in Calls, NEW q \in Pages, b # a \/ q # p
        PROVE  Done(b, q)' <=> Done(b, q)
    <3>1. <<b, q>> \in flying' <=> <<b, q>> \in flying
      BY <1>1, <2>2
    <3> QED
      BY <1>4, <3>1 DEF Done
  <2>3. WrittenBy' = [WrittenBy EXCEPT ![a] = @ \cup {p}]
    BY <2>1, <2>2, MoreWritten
  <2>4. Contract!Writes(a, p)
    BY <1>3, <1>4, <2>3 DEF Contract!Writes
  <2> QED
    BY <2>4 DEF Contract!Next
<1>5. CASE call' # call \/ call[a] = "raised"
  <2>1. call' = [call EXCEPT ![a] = "raised"]
    BY <1>1, <1>2, <1>5, <1>t DEF TypeOK
  <2>2. \A q \in Pages : ~ Done(a, q)'
    BY <1>t, <2>1 DEF Done, TypeOK
  <2>3. ASSUME NEW b \in Calls, NEW q \in Pages, b # a PROVE Done(b, q)' <=> Done(b, q)
    <3>1. <<b, q>> \in flying' <=> <<b, q>> \in flying
      BY <1>1, <2>3
    <3>2. call'[b] = call[b]
      BY <1>t, <2>1, <2>3 DEF TypeOK
    <3> QED
      BY <3>1, <3>2 DEF Done
  <2>4. WrittenBy' = [WrittenBy EXCEPT ![a] = {}]
    BY <2>2, <2>3, NoneWritten
  <2>5. Contract!WritesInVain(a, p)
    BY <1>2, <1>3, <2>1, <2>4 DEF Contract!WritesInVain
  <2> QED
    BY <2>5 DEF Contract!Next
<1> QED
  BY <1>2, <1>4, <1>5

\* A call raises without a write.
LEMMA RaiseRefined ==
    ASSUME PagesInv, NEW a \in Calls, call[a] = "batch" \/ MayCall(a),
           call' = [call EXCEPT ![a] = "raised"], UNCHANGED <<unique, rows, start>>,
           \A b \in Calls, q \in Pages : b # a => (<<b, q>> \in flying' <=> <<b, q>> \in flying)
    PROVE  Contract!Next
<1>t. TypeOK
  BY DEF PagesInv
<1>1. \A q \in Pages : ~ Done(a, q)'
  BY <1>t DEF Done, TypeOK
<1>2. ASSUME NEW b \in Calls, NEW q \in Pages, b # a PROVE Done(b, q)' <=> Done(b, q)
  BY <1>2, <1>t DEF Done, TypeOK
<1>3. WrittenBy' = [WrittenBy EXCEPT ![a] = {}]
  BY <1>1, <1>2, NoneWritten
<1>4. Contract!Raises(a)
  BY <1>3 DEF Contract!Raises, Contract!InTurn, MayCall
<1> QED
  BY <1>4 DEF Contract!Next

\* A call returns, with all its upserts answered.
LEMMA ReturnRefined ==
    ASSUME PagesInv, NEW a \in Calls, call[a] = "batch" \/ MayCall(a),
           \A p \in Pages : Done(a, p),
           call' = [call EXCEPT ![a] = "returned"], UNCHANGED <<unique, rows, start, flying>>
    PROVE  Contract!Next
<1>t. TypeOK
  BY DEF PagesInv
<1>1. ASSUME NEW b \in Calls, NEW p \in Pages PROVE Done(b, p)' <=> Done(b, p)
  <2>1. CASE b = a
    BY <1>t, <2>1 DEF Done, TypeOK
  <2>2. CASE b # a
    BY <1>t, <2>2 DEF Done, TypeOK
  <2> QED
    BY <2>1, <2>2
<1>2. WrittenBy' = WrittenBy
  BY <1>1, SameWritten
<1>3. WrittenBy[a] = Pages
  BY DEF WrittenBy
<1>4. Contract!Returns(a)
  BY <1>2, <1>3 DEF Contract!Returns, Contract!InTurn, MayCall
<1> QED
  BY <1>4 DEF Contract!Next

\* A call sends its first batch.
LEMMA BeginRefined ==
    ASSUME PagesInv, StrayInv, NEW a \in Calls, MayCall(a), UNCHANGED <<unique, start, rows>>,
           call' = [call EXCEPT ![a] = "batch"], flying' = flying \cup Upserts(a, 1)
    PROVE  Contract!Next
<1>t. TypeOK /\ start[a] = 1 /\ call[a] = "new"
  BY DEF PagesInv, CallsInTurn, MayCall
<1>1. ASSUME NEW b \in Calls, NEW p \in Pages PROVE Done(b, p)' <=> Done(b, p)
  <2>1. CASE b = a
    <3>1. ~ Done(a, p)
      BY <1>t DEF Done
    <3>2. ~ (p < 1)
      BY Numbers
    <3>3. p < 1 + UPSERT_BATCH_SIZE => <<a, p>> \in flying'
      BY <3>2, Numbers, UpsertsOf
    <3>4. call'[a] = "batch" /\ start'[a] = 1
      BY <1>t DEF TypeOK
    <3>5. ~ Done(a, p)'
      BY <3>2, <3>3, <3>4 DEF Done
    <3> QED
      BY <2>1, <3>1, <3>5
  <2>2. CASE b # a
    <3>1. <<b, p>> \in flying' <=> <<b, p>> \in flying
      BY <2>2, UpsertsOf
    <3> QED
      BY <1>t, <2>2, <3>1 DEF Done, TypeOK
  <2> QED
    BY <2>1, <2>2
<1>2. WrittenBy' = WrittenBy
  BY <1>1, SameWritten
<1>3. Contract!Begins(a)
  BY <1>t, <1>2 DEF Contract!Begins, Contract!InTurn, MayCall
<1> QED
  BY <1>3 DEF Contract!Next

\* A call sends a later batch: nothing the contract sees.
LEMMA BatchRefined ==
    ASSUME PagesInv, NEW a \in Calls, NEW first \in Nat, BatchOver(a),
           first = start[a] + UPSERT_BATCH_SIZE, call' = call,
           UNCHANGED <<unique, rows>>,
           start' = [start EXCEPT ![a] = first],
           flying' = flying \cup Upserts(a, first)
    PROVE  UNCHANGED Contract!vars
<1>t. TypeOK /\ call[a] = "batch" /\ UPSERT_BATCH_SIZE \in Nat /\ start[a] \in Nat
  BY ContentPagesAssumption DEF PagesInv, BatchOver, TypeOK
<1>1. ASSUME NEW b \in Calls, NEW p \in Pages PROVE Done(b, p)' <=> Done(b, p)
  <2>1. CASE b = a
    <3>1. Done(a, p) <=> p < first
      BY <1>t, Numbers DEF Done, BatchOver
    <3>2. start'[a] = first
      BY <1>t DEF TypeOK
    <3>3. ~ (p < first) /\ p < first + UPSERT_BATCH_SIZE => <<a, p>> \in flying'
      BY Numbers, UpsertsOf
    <3>4. p < first => p < first + UPSERT_BATCH_SIZE
      BY <1>t, Numbers
    <3>5. Done(a, p)' <=> p < first
      BY <1>t, <3>2, <3>3, <3>4 DEF Done
    <3> QED
      BY <2>1, <3>1, <3>5
  <2>2. CASE b # a
    <3>1. <<b, p>> \in flying' <=> <<b, p>> \in flying
      BY <2>2, UpsertsOf
    <3> QED
      BY <1>t, <2>2, <3>1 DEF Done, TypeOK
  <2> QED
    BY <2>1, <2>2
<1>2. WrittenBy' = WrittenBy
  BY <1>1, SameWritten
<1> QED
  BY <1>2 DEF Contract!vars

\* Every step of put_pages is one of the contract, or none.
LEMMA StepRefined ==
    PagesInv /\ StrayInv /\ [StorageNext]_allVars => [Contract!Next]_(Contract!vars)
<1> SUFFICES ASSUME PagesInv, StrayInv, [StorageNext]_allVars
             PROVE  Contract!Next \/ UNCHANGED Contract!vars
  OBVIOUS
<1>t. TypeOK /\ OneRow
  BY DEF PagesInv
<1>0. CASE UNCHANGED vars
  BY <1>0, ContractStutters DEF vars
<1>1. ASSUME NEW a \in Calls, TakeStore(a) PROVE UNCHANGED Contract!vars
  BY <1>1, ContractStutters DEF TakeStore, vars
<1>2. ASSUME NEW a \in Calls, Put(a) PROVE Contract!Next
  <2>1. MayCall(a) /\ PutPages(a)
    BY <1>2 DEF Put, PutPages
  <2>2. CASE Pages = {}
    <3>1. Upserts(a, 1) = {}
      BY <2>2 DEF Upserts, Batch
    <3>2. call' = [call EXCEPT ![a] = "returned"] /\ UNCHANGED <<unique, rows, start, flying>>
      BY <2>1, <2>2, <3>1 DEF PutPages
    <3>3. \A p \in Pages : Done(a, p)
      BY <2>2
    <3> QED
      BY <2>1, <3>2, <3>3, ReturnRefined
  <2>3. CASE Pages # {}
    <3>1. /\ call' = [call EXCEPT ![a] = "batch"] /\ UNCHANGED <<unique, rows>>
          /\ flying' = flying \cup Upserts(a, 1) /\ start' = start
      BY <2>1, <2>3 DEF PutPages
    <3> QED
      BY <2>1, <3>1, BeginRefined
  <2> QED
    BY <2>2, <2>3
<1>3. ASSUME NEW a \in Calls, Continue(a) PROVE Contract!Next \/ UNCHANGED Contract!vars
  <2>1. PICK first : first = start[a] + UPSERT_BATCH_SIZE
    OBVIOUS
  <2>2. BatchOver(a) /\ NextBatch(a) /\ call[a] = "batch" /\ first \in Nat
    BY <1>3, <1>t, <2>1, ContentPagesAssumption DEF Continue, NextBatch, BatchOver, TypeOK
  <2>3. CASE first <= NumPages
    <3>1. /\ start' = [start EXCEPT ![a] = first] /\ call' = call /\ UNCHANGED <<unique, rows>>
          /\ flying' = flying \cup Upserts(a, first)
      BY <2>1, <2>2, <2>3 DEF NextBatch, NextStart
    <3> QED
      BY <2>1, <2>2, <3>1, BatchRefined
  <2>4. CASE ~ (first <= NumPages)
    <3>1. call' = [call EXCEPT ![a] = "returned"] /\ UNCHANGED <<unique, rows, start, flying>>
      BY <2>1, <2>2, <2>4 DEF NextBatch, NextStart
    <3>2. \A p \in Pages : Done(a, p)
      <4>1. \A p \in Pages : p < first
        BY <2>2, <2>4, Numbers, ContentPagesAssumption
      <4> QED
        BY <2>1, <2>2, <4>1 DEF Done, BatchOver
    <3> QED
      BY <2>2, <3>1, <3>2, ReturnRefined
  <2> QED
    BY <2>3, <2>4
<1>4. ASSUME NEW a \in Calls, ClosedRaises(a) PROVE Contract!Next
  <2>1. /\ call' = [call EXCEPT ![a] = "raised"]
        /\ UNCHANGED <<unique, rows, flying, start>>
        /\ MayCall(a) \/ call[a] = "batch"
    BY <1>4 DEF ClosedRaises, BatchOver
  <2> QED
    BY <2>1, RaiseRefined
<1>5. ASSUME NEW u \in flying, Answer(u) PROVE Contract!Next \/ UNCHANGED Contract!vars
  <2>1. CASE Replace(u) \/ (Insert(u) /\ ~ Refused(u))
    <3>1. WritesRow(u[1], u[2])
      BY <1>t, <2>1, WriteForm DEF Replace, Insert
    <3>2. flying' = flying \ {u} /\ UNCHANGED <<unique, start, call>>
      BY <2>1 DEF Replace, Insert, Landed
    <3> QED
      BY <3>1, <3>2, WriteRefined
  <2>2. CASE Miss(u) \/ (Insert(u) /\ Refused(u))
    <3>1. UNCHANGED <<unique, rows, call, start, flying>>
      BY <2>2 DEF Miss, Insert
    <3> QED
      BY <3>1, ContractStutters
  <2> QED
    BY <1>5, <2>1, <2>2 DEF Answer
<1>6. ASSUME NEW u \in flying, Fail(u) PROVE Contract!Next \/ UNCHANGED Contract!vars
  <2>1. /\ flying' = flying \ {u} /\ UNCHANGED <<unique, start>>
        /\ call' = [call EXCEPT ![u[1]] = IF @ = "batch" THEN "raised" ELSE @]
    BY <1>6 DEF Fail, UpsertFails, Landed
  <2>2. rows' = rows \/ WritesRow(u[1], u[2])
    BY <1>6, <1>t, WriteForm DEF Fail, UpsertFails
  <2>3. CASE WritesRow(u[1], u[2])
    BY <2>1, <2>3, WriteRefined
  <2>4. CASE rows' = rows
    <3>1. u[1] \in Calls /\ u[2] \in Pages /\ u = <<u[1], u[2]>>
          /\ call[u[1]] \in {"batch", "raised"}
      BY SenderOf
    <3>2. \A b \in Calls, q \in Pages :
             b # u[1] => (<<b, q>> \in flying' <=> <<b, q>> \in flying)
      BY <2>1, <3>1
    <3>3. CASE call[u[1]] = "batch"
      <4>1. call' = [call EXCEPT ![u[1]] = "raised"]
        BY <2>1, <3>3
      <4> QED
        BY <2>1, <2>4, <3>1, <3>2, <3>3, <4>1, RaiseRefined
    <3>4. CASE call[u[1]] = "raised"
      <4>1. call' = call
        BY <1>t, <2>1, <3>1, <3>4 DEF TypeOK
      <4>2. \A b \in Calls, q \in Pages : Done(b, q)' <=> Done(b, q)
        BY <2>1, <3>2, <3>4, <4>1 DEF Done
      <4>3. WrittenBy' = WrittenBy
        BY <4>2, SameWritten
      <4> QED
        BY <2>1, <2>4, <4>1, <4>3 DEF Contract!vars
    <3> QED
      BY <3>1, <3>3, <3>4
  <2> QED
    BY <2>2, <2>3, <2>4
<1>7. ASSUME NEW s \in L!Stores, Get(s) PROVE UNCHANGED Contract!vars
  BY <1>7, ContractStutters DEF Get, vars
<1>8. ASSUME NEW t \in Closers, AtOnce(t) \/ Begins(t) \/ Ends(t) \/ Fails(t)
      PROVE  UNCHANGED Contract!vars
  BY <1>8, ContractStutters DEF AtOnce, Begins, Ends, Fails, vars
<1>9. CASE UNCHANGED allVars
  BY <1>0, <1>9 DEF allVars
<1>i. CASE Index
  <2>1. /\ unique' = TRUE /\ \A p \in Pages : \A a, b \in rows[p] : a = b
        /\ UNCHANGED <<rows, call, start, flying>>
    BY <1>i DEF Index, CreateIndex
  <2>2. WrittenBy' = WrittenBy
    BY <2>1, SameWritten DEF Done
  <2> QED
    BY <2>1, <2>2 DEF Contract!GetsKey, Contract!Next
<1> QED
  BY <1>i, <1>1, <1>2, <1>3, <1>4, <1>5, <1>6, <1>7, <1>8, <1>9 DEF StorageNext

\* put_pages implements PagesContract, for any number of pages, batch size
\* and calls, and however the stores are closed under them.
THEOREM PagesImplemented == StorageSpec => ImplementsPages
<1>1. StorageInit => PagesInv /\ StrayInv
  BY InitPages DEF StorageInit, Init, StrayInv, FlightsInBatch, StraysRaised
<1>2. StorageInit => Contract!Init
  <2> SUFFICES ASSUME StorageInit PROVE Contract!Init
    OBVIOUS
  <2>1. \A a \in Calls, p \in Pages : ~ Done(a, p)
    BY DEF StorageInit, Init, Done
  <2>2. WrittenBy = [a \in Calls |-> {}]
    BY <2>1 DEF WrittenBy
  <2> QED
    BY <2>2 DEF StorageInit, Init, Contract!Init
<1> QED
  BY <1>1, <1>2, NextPages, NextStrays, StepRefined, PTL
     DEF StorageSpec, ImplementsPages, Contract!Spec

----------------------------------------------------------------------------
(* The clients of the factory *)

\* LifeInv depends on the variables of StoreLifecycle.
LEMMA LifeSame ==
    ASSUME LifeInv, UNCHANGED storeVars
    PROVE  LifeInv'
BY DEF storeVars, LifeInv, LifeType

\* No client was made.
LEMMA InitLife == L!Init => LifeInv
<1> SUFFICES ASSUME L!Init PROVE LifeInv
  OBVIOUS
<1>1. LifeType
  BY DEF L!Init, LifeType
<1> QED
  BY <1>1 DEF L!Init, LifeInv, L!Pooled, L!Stores

\* The get_ functions install a new client.
LEMMA GetLife ==
    ASSUME LifeInv, NEW s \in L!Stores, L!GetStore(s)
    PROVE  LifeInv'
<1>t. LifeType /\ made[s] \in Nat /\ L!Pooled \subseteq L!Stores
  BY DEF LifeInv, LifeType, L!Pooled, L!Stores
<1>1. /\ made' = [made EXCEPT ![s] = made[s] + 1] /\ installed[s] = 0
      /\ installed' = [installed EXCEPT ![s] = made[s] + 1]
      /\ closed' = closed /\ pc' = pc /\ target' = target /\ lost' = lost
  BY DEF L!GetStore
<1>2. LifeType'
  BY <1>1, <1>t DEF LifeType
<1>3. /\ made'[s] = made[s] + 1 /\ installed'[s] = made[s] + 1
      /\ \A q \in L!Stores : q # s => made'[q] = made[q] /\ installed'[q] = installed[q]
  BY <1>1, <1>t DEF LifeType
<1>4. \A q \in L!Stores : installed'[q] \in {0, made'[q]}
  BY <1>3 DEF LifeInv
<1>5. ASSUME NEW q \in L!Stores, NEW n \in Nat, <<q, n>> \in closed' \cup lost'
      PROVE  n <= made'[q]
  <2>1. n <= made[q] /\ made[q] \in Nat
    BY <1>1, <1>5 DEF LifeInv, LifeType
  <2> QED
    BY <1>3, <2>1
<1>6. ASSUME NEW t \in Closers, pc'[t] = "aclose"
      PROVE  target'[t] = installed'["cache"] /\ target'[t] # 0
  <2>1. target[t] = installed["cache"] /\ target[t] # 0 /\ "cache" \in L!Stores
    BY <1>1, <1>6 DEF LifeInv, L!Stores
  <2> QED
    BY <1>1, <1>3, <2>1
<1>7. ASSUME NEW q \in L!Pooled, NEW n \in 1 .. made'[q]
      PROVE  <<q, n>> \in closed' \cup lost' <=> n # installed'[q]
  <2>1. q \in L!Stores /\ made[q] \in Nat /\ n \in Nat
    BY <1>2, <1>t DEF LifeType
  <2>2. CASE q # s
    BY <1>1, <1>3, <2>1, <2>2 DEF LifeInv
  <2>3. CASE q = s /\ n = made[s] + 1
    <3>1. ~ (n <= made[q])
      BY <2>1, <2>3
    <3>2. <<q, n>> \notin closed \cup lost
      BY <2>1, <3>1 DEF LifeInv
    <3> QED
      BY <1>1, <1>3, <2>3, <3>2
  <2>4. CASE q = s /\ n # made[s] + 1
    <3>1. n \in 1 .. made[s]
      BY <1>3, <2>1, <2>4
    <3>2. <<q, n>> \in closed \cup lost <=> n # installed[q]
      BY <2>4, <3>1 DEF LifeInv
    <3> QED
      BY <1>1, <1>3, <2>4, <3>1, <3>2
  <2> QED
    BY <2>2, <2>3, <2>4
<1> QED
  BY <1>2, <1>4, <1>5, <1>6, <1>7 DEF LifeInv

\* close_stores starts to close the cache client, which stays installed.
LEMMA BeginsLife ==
    ASSUME LifeInv, NEW t \in Closers, L!CloseBegins(t)
    PROVE  LifeInv'
<1>1. /\ installed["cache"] # 0 /\ pc' = [pc EXCEPT ![t] = "aclose"]
      /\ target' = [target EXCEPT ![t] = installed["cache"]]
      /\ installed' = installed /\ made' = made /\ closed' = closed /\ lost' = lost
  BY DEF L!CloseBegins
<1>2. installed["cache"] \in Nat
  BY DEF LifeInv, LifeType, L!Stores
<1>3. LifeType'
  BY <1>1, <1>2 DEF LifeInv, LifeType
<1>4. ASSUME NEW u \in Closers, pc'[u] = "aclose"
      PROVE  target'[u] = installed'["cache"] /\ target'[u] # 0
  BY <1>1, <1>4 DEF LifeInv, LifeType
<1> QED
  BY <1>1, <1>3, <1>4 DEF LifeInv

\* The end of close_stores, however it comes: every client that was installed
\* is closed or lost, and none is installed.
LEMMA ForgetLife ==
    ASSUME LifeInv, OneCloser, NEW t \in Closers, LifeType',
           pc'[t] = "idle", made' = made, L!Forget,
           closed' \cup lost' = closed \cup lost
              \cup {x \in L!Pooled \X Nat : x[2] = installed[x[1]] /\ x[2] # 0}
    PROVE  LifeInv'
<1>t. LifeType /\ L!Pooled \subseteq L!Stores
  BY DEF LifeInv, LifeType, L!Pooled, L!Stores
<1> DEFINE gone == {x \in L!Pooled \X Nat : x[2] = installed[x[1]] /\ x[2] # 0}
<1>1. \A s \in L!Stores : installed'[s] = 0
  BY DEF L!Forget
<1>2. \A s, n : <<s, n>> \in gone => s \in L!Pooled /\ n = installed[s] /\ n # 0
  OBVIOUS
<1>3. \A s \in L!Pooled : installed[s] \in Nat /\ installed[s] # 0 => <<s, installed[s]>> \in gone
  OBVIOUS
<1> HIDE DEF gone
<1>4. closed' \cup lost' = closed \cup lost \cup gone
  BY DEF gone
<1>5. ASSUME NEW s \in L!Stores, NEW n \in Nat, <<s, n>> \in closed' \cup lost'
      PROVE  n <= made'[s]
  <2>1. made[s] \in Nat /\ installed[s] \in {0, made[s]}
    BY <1>t DEF LifeInv, LifeType
  <2>2. CASE <<s, n>> \in gone
    BY <1>2, <2>1, <2>2
  <2>3. CASE <<s, n>> \in closed \cup lost
    BY <2>3 DEF LifeInv
  <2> QED
    BY <1>4, <1>5, <2>2, <2>3
<1>6. \A u \in Closers : pc'[u] # "aclose"
  BY DEF OneCloser
<1>7. ASSUME NEW s \in L!Pooled, NEW n \in 1 .. made'[s]
      PROVE  <<s, n>> \in closed' \cup lost' <=> n # installed'[s]
  <2>1. s \in L!Stores /\ installed'[s] = 0 /\ n # 0 /\ n \in 1 .. made[s]
    BY <1>1, <1>t DEF LifeType
  <2>2. CASE n # installed[s]
    BY <1>4, <2>1, <2>2 DEF LifeInv
  <2>3. CASE n = installed[s]
    BY <1>3, <1>4, <1>t, <2>1, <2>3 DEF LifeType
  <2> QED
    BY <2>1, <2>2, <2>3
<1> QED
  BY <1>1, <1>5, <1>6, <1>7 DEF LifeInv

\* What close_stores has closed when it is over.
LEMMA CloseLife ==
    ASSUME LifeInv, OneCloser, NEW t \in Closers,
           L!CloseAtOnce(t) \/ L!CloseEnds(t) \/ L!CloseFails(t)
    PROVE  LifeInv'
<1>t. /\ LifeType /\ installed["cache"] \in Nat /\ installed["content"] \in Nat
      /\ L!Pooled = {"content", "cache"} /\ "cache" # "content"
  BY DEF LifeInv, LifeType, L!Pooled, L!Stores
<1> DEFINE gone == {x \in L!Pooled \X Nat : x[2] = installed[x[1]] /\ x[2] # 0}
           cache == {<<"cache", n>> : n \in {installed["cache"]} \ {0}}
<1>1. gone = cache \cup L!ContentClosed
  <2>1. ASSUME NEW x \in gone PROVE x \in cache \cup L!ContentClosed
    BY <1>t DEF L!ContentClosed
  <2>2. ASSUME NEW x \in cache \cup L!ContentClosed PROVE x \in gone
    BY <1>t DEF L!ContentClosed
  <2> QED
    BY <2>1, <2>2
<1>2. L!Forget /\ made' = made
  BY DEF L!CloseAtOnce, L!CloseEnds, L!CloseFails
<1>3. installed' \in [L!Stores -> Nat]
  BY <1>2 DEF L!Forget
<1>4. CASE L!CloseAtOnce(t)
  <2>1. cache = {}
    BY <1>4 DEF L!CloseAtOnce
  <2>2. /\ closed' = closed \cup L!ContentClosed /\ lost' = lost
        /\ pc' = pc /\ pc[t] = "idle" /\ target' = target
    BY <1>4 DEF L!CloseAtOnce
  <2>3. LifeType'
    BY <1>2, <1>3, <1>t, <2>2 DEF LifeType
  <2>4. closed' \cup lost' = closed \cup lost \cup gone
    BY <1>1, <2>1, <2>2
  <2> QED
    BY <1>2, <2>2, <2>3, <2>4, ForgetLife
<1>5. CASE L!CloseEnds(t) \/ L!CloseFails(t)
  <2>1. pc[t] = "aclose" /\ pc' = [pc EXCEPT ![t] = "idle"] /\ target' = [target EXCEPT ![t] = 0]
    BY <1>5 DEF L!CloseEnds, L!CloseFails
  <2>2. target[t] = installed["cache"] /\ target[t] # 0
    BY <2>1 DEF LifeInv
  <2>3. cache = {<<"cache", target[t]>>}
    BY <2>2
  <2>4. closed' \cup lost' = closed \cup lost \cup gone
    <3>1. CASE L!CloseEnds(t)
      BY <1>1, <2>3, <3>1 DEF L!CloseEnds
    <3>2. CASE L!CloseFails(t)
      BY <1>1, <2>3, <3>2 DEF L!CloseFails
    <3> QED
      BY <1>5, <3>1, <3>2
  <2>5. LifeType' /\ pc'[t] = "idle"
    BY <1>2, <1>3, <1>t, <2>1 DEF LifeType
  <2> QED
    BY <1>2, <2>4, <2>5, ForgetLife
<1> QED
  BY <1>4, <1>5

\* Every step keeps LifeInv.
LEMMA NextLife ==
    ASSUME OneCloser
    PROVE  LifeInv /\ [StorageNext]_allVars => LifeInv'
<1> SUFFICES ASSUME LifeInv, [StorageNext]_allVars PROVE LifeInv'
  OBVIOUS
<1>0. CASE UNCHANGED storeVars
  BY <1>0, LifeSame
<1>1. ASSUME NEW a \in Calls, TakeStore(a) PROVE LifeInv'
  BY <1>0, <1>1, GetLife DEF TakeStore, L!Stores
<1>2. ASSUME NEW a \in Calls, Put(a) \/ Continue(a) \/ ClosedRaises(a) PROVE LifeInv'
  BY <1>0, <1>2 DEF Put, Continue, ClosedRaises
<1>3. ASSUME NEW u \in flying, Answer(u) \/ Fail(u) PROVE LifeInv'
  BY <1>0, <1>3 DEF Answer, Fail
<1>4. ASSUME NEW s \in L!Stores, Get(s) PROVE LifeInv'
  BY <1>4, GetLife DEF Get
<1>5. ASSUME NEW t \in Closers, AtOnce(t) \/ Begins(t) \/ Ends(t) \/ Fails(t) PROVE LifeInv'
  BY <1>5, BeginsLife, CloseLife DEF AtOnce, Begins, Ends, Fails
<1>6. CASE Index \/ UNCHANGED allVars
  BY <1>0, <1>6 DEF Index, allVars
<1> QED
  BY <1>1, <1>2, <1>3, <1>4, <1>5, <1>6 DEF StorageNext

\* The open clients of a store with a connection pool are the installed one,
\* apart from those lost to a failed aclose(), as long as one coroutine at a
\* time runs close_stores.
THEOREM NoClientIsLeaked ==
    ASSUME OneCloser
    PROVE  StorageSpec => []NoClientLeaks
<1>1. StorageInit => LifeInv
  BY InitLife DEF StorageInit
<1>2. LifeInv => NoClientLeaks
  <2> SUFFICES ASSUME LifeInv, NEW s \in L!Pooled
               PROVE  Open(s) \ lost = {<<s, n>> : n \in {installed[s]} \ {0}}
    BY DEF NoClientLeaks
  <2>1. made[s] \in Nat /\ installed[s] \in {0, made[s]}
    BY DEF LifeInv, LifeType, L!Pooled, L!Stores
  <2>2. \A n \in 1 .. made[s] : <<s, n>> \in closed \cup lost <=> n # installed[s]
    BY DEF LifeInv
  <2>3. ASSUME NEW x \in Open(s) \ lost PROVE x \in {<<s, n>> : n \in {installed[s]} \ {0}}
    BY <2>1, <2>2, <2>3 DEF Open
  <2>4. ASSUME NEW x \in {<<s, n>> : n \in {installed[s]} \ {0}} PROVE x \in Open(s) \ lost
    <3>1. x = <<s, installed[s]>> /\ installed[s] # 0
      BY <2>4
    <3>2. installed[s] \in 1 .. made[s]
      BY <2>1, <3>1
    <3> QED
      BY <2>2, <3>1, <3>2 DEF Open
  <2> QED
    BY <2>3, <2>4
<1> QED
  BY <1>1, <1>2, NextLife, PTL DEF StorageSpec

----------------------------------------------------------------------------
(* The settings and the answers of the API process *)

\* A process that was created has settings that passed validate_startup, and
\* the request it is probing for is one to /readyz.
ProcessInv ==
    /\ phase \in {"down", "created", "serving", "probing", "answered"}
    /\ phase # "down" => settings \in Environments /\ validate_startup(settings) = {}
    /\ phase = "probing" => request.path = "/readyz"

\* Every step of the process keeps ProcessInv.
LEMMA ProcessStep == ProcessInv /\ [ServiceNext]_serviceVars => ProcessInv'
  <1> SUFFICES ASSUME ProcessInv, [ServiceNext]_serviceVars
               PROVE  ProcessInv'
    OBVIOUS
  <1> USE DEF ProcessInv
  <1>1. ASSUME NEW dim \in Dimensions, Upgrade(dim)  PROVE ProcessInv'
    BY <1>1 DEF Upgrade, Migrate
  <1>2. CASE Downgrade
    BY <1>2 DEF Downgrade, Migrate
  <1>3. ASSUME NEW environment \in Environments, create_app(environment)
        PROVE  ProcessInv'
    BY <1>3 DEF create_app
  <1>4. CASE verify_schema_config
    BY <1>4 DEF verify_schema_config
  <1>5. CASE Serve
    BY <1>5 DEF Serve, process
  <1>6. CASE Stop
    BY <1>6 DEF Stop
  <1>7. CASE WriteEmbedding
    BY <1>7 DEF WriteEmbedding
  <1>8. ASSUME NEW key \in BOOLEAN, NEW outcome \in Outcomes, Request(key, outcome)
        PROVE  ProcessInv'
    BY <1>8 DEF Request, process
  <1>9. CASE Answered
    BY <1>9 DEF Answered, process
  <1>10. ASSUME NEW state \in [Dependencies -> {"up", "down", "hung"}], Readyz(state)
         PROVE  ProcessInv'
    BY <1>10 DEF Readyz, process
  <1>11. ASSUME NEW d \in Dependencies,
                \/ \E state \in {"up", "down", "hung"} : HealthChanges(d, state)
                \/ Proceed(d)
                \/ Breaks(d)
                \/ Timeout(d)
                \/ Drained(d)
         PROVE  ProcessInv'
    BY <1>11 DEF HealthChanges, Proceed, Breaks, Timeout, Drained, ProbeGoes, process
  <1>12. CASE ReadyzReturns
    BY <1>12 DEF ReadyzReturns, process
  <1>13. CASE UNCHANGED serviceVars
    BY <1>13 DEF serviceVars, process
  <1> QED
    BY <1>1, <1>2, <1>3, <1>4, <1>5, <1>6, <1>7, <1>8, <1>9, <1>10, <1>11, <1>12, <1>13
       DEF ServiceNext

THEOREM ProcessIsChecked == ServiceSpec => []ProcessInv
  <1>1. ServiceInit => ProcessInv
    BY DEF ServiceInit, ProcessInv
  <1> QED
    BY <1>1, ProcessStep, PTL DEF ServiceSpec

----------------------------------------------------------------------------
(* What a client is told *)

\* AnswersAreHonest of one answer.
Honest(s, key, outcome, a) ==
    /\ ~ key /\ s.env \in {"staging", "production"} => a.http # 200
    /\ "internal" \notin a.texts
    /\ "driver" \in a.texts => a.http = 500 /\ outcome.type = "ipa"
    /\ "request" \in a.texts => a.http = 422
    /\ key /\ outcome.status \in 400 .. 499 => a.http = outcome.status

\* The four handlers: what an exception nobody expected says is in no text of
\* the answer, what a driver says is in that of a store's error only, and a
\* client's error keeps its code.
LEMMA HandledHonestly ==
    ASSUME NEW exc \in Exceptions
    PROVE  /\ "internal" \notin Respond(Handled(exc)).texts
           /\ "driver" \in Respond(Handled(exc)).texts
                 => Handled(exc).status = 500 /\ exc.type = "ipa"
           /\ "request" \in Respond(Handled(exc)).texts => Handled(exc).status = 422
           /\ exc.status \in 400 .. 499 => Handled(exc).status = exc.status
  <1> USE DEF New, to_problem, Respond
  <1>s. /\ Classes["IpaError"].http_status = 500
        /\ Classes["ValidationError"].http_status = 422
        /\ 0 \notin 400 .. 499
    BY DEF Classes, Class
  <1>1. CASE exc.type = "ipa"
    <2>1. /\ exc.status = 0
          /\ exc.text \in {"", "given"} \/ (exc.text = "driver" /\ exc.class = "IpaError")
      BY <1>1 DEF Exceptions
    <2>2. Handled(exc) = handle_ipa_error(exc)
      BY <1>1 DEF Handled
    <2>3. /\ handle_ipa_error(exc).detail = IF exc.text = "" THEN "title" ELSE exc.text
          /\ handle_ipa_error(exc).extra = {}
          /\ handle_ipa_error(exc).status = Classes[exc.class].http_status
      BY DEF handle_ipa_error
    <2>4. Respond(Handled(exc)).texts = {IF exc.text = "" THEN "title" ELSE exc.text}
      BY <2>2, <2>3
    <2>5. exc.status \notin 400 .. 499
      BY <1>s, <2>1
    <2>6. CASE exc.text \in {"", "given"}
      BY <2>4, <2>5, <2>6
    <2>7. CASE exc.text = "driver" /\ exc.class = "IpaError"
      BY <1>1, <1>s, <2>2, <2>3, <2>4, <2>5, <2>7
    <2> QED
      BY <2>1, <2>6, <2>7
  <1>2. CASE exc.type = "http"
    <2>1. exc.text = "given"
      BY <1>2 DEF Exceptions
    <2>2. Handled(exc) = handle_http_exception(exc)
      BY <1>2 DEF Handled
    <2>3. http_title(exc.status) # {}
      BY DEF http_title
    <2>4. Handled(exc) = [status |-> IF exc.status = 0 THEN 500 ELSE exc.status,
                          code |-> "http_code", detail |-> "given", extra |-> {}]
      BY <1>s, <2>1, <2>2, <2>3 DEF handle_http_exception
    <2>5. exc.status \in 400 .. 499 => exc.status # 0
      OBVIOUS
    <2>6. Respond(Handled(exc)).texts = {"given"}
      BY <2>4
    <2> QED
      BY <2>4, <2>5, <2>6
  <1>3. CASE exc.type = "validation"
    <2>1. exc.status = 0 /\ exc.text = "request"
      BY <1>3 DEF Exceptions
    <2>2. Handled(exc) = handle_validation_error(exc)
      BY <1>3 DEF Handled
    <2>3. /\ Handled(exc).status = 422
          /\ Respond(Handled(exc)).texts = {"fixed", "request"}
      BY <1>s, <2>1, <2>2 DEF handle_validation_error
    <2> QED
      BY <1>s, <2>1, <2>3
  <1>4. CASE exc.type = "unexpected"
    <2>1. exc.status = 0
      BY <1>4 DEF Exceptions
    <2>2. Handled(exc) = problem_from_exception(exc)
      BY <1>4 DEF Handled
    <2>3. Respond(Handled(exc)).texts = {"fixed"}
      BY <2>2 DEF problem_from_exception
    <2> QED
      BY <1>s, <2>1, <2>3
  <1> QED
    BY <1>1, <1>2, <1>3, <1>4 DEF Exceptions

\* What a handler returns or raises.
LEMMA OutcomeForms ==
    ASSUME NEW outcome \in Outcomes
    PROVE  IF outcome.type = "return"
              THEN outcome.status \notin 400 .. 499
              ELSE outcome \in Exceptions
  <1> DEFINE returned == [type |-> "return", class |-> "", code |-> "", status |-> 0,
                          text |-> ""]
  <1>1. outcome = returned \/ outcome \in Exceptions
    BY DEF Outcomes
  <1>2. returned.type = "return" /\ returned.status = 0
    OBVIOUS
  <1>3. outcome \in Exceptions => outcome.type \in {"ipa", "http", "validation", "unexpected"}
    BY DEF Exceptions
  <1>4. 0 \notin 400 .. 499
    OBVIOUS
  <1> HIDE DEF returned
  <1> QED
    BY <1>1, <1>2, <1>3, <1>4

\* The answer of Request is honest.
LEMMA RequestHonest ==
    ASSUME NEW key \in BOOLEAN, NEW outcome \in Outcomes, Request(key, outcome)
    PROVE  /\ request' = [path |-> "/v1", key |-> key, outcome |-> outcome]
           /\ settings' = settings
           /\ Honest(settings, key, outcome, answer')
  <1>1. /\ request' = [path |-> "/v1", key |-> key, outcome |-> outcome]
        /\ settings' = settings
    BY DEF Request, process
  <1>2. CASE auth_refuses(settings, key)
    <2>1. answer' = [http |-> 500, texts |-> {"given"}]
      BY <1>2 DEF Request, Respond, to_problem, New
    <2> QED
      BY <1>1, <1>2, <2>1 DEF Honest, auth_refuses
  <1>3. CASE ~ auth_refuses(settings, key)
    <2>1. ~ (~ key /\ settings.env \in {"staging", "production"})
      BY <1>3 DEF auth_refuses, is_production
    <2>2. CASE outcome.type = "return"
      <3>1. answer' = [http |-> 200, texts |-> {}]
        BY <1>3, <2>2 DEF Request
      <3>2. outcome.status \notin 400 .. 499
        BY <2>2, OutcomeForms
      <3> QED
        BY <1>1, <2>1, <3>1, <3>2 DEF Honest
    <2>3. CASE outcome.type # "return"
      <3>1. outcome \in Exceptions
        BY <2>3, OutcomeForms
      <3>2. answer' = Respond(Handled(outcome)) /\ answer'.http = Handled(outcome).status
        BY <1>3, <2>3 DEF Request, Respond
      <3> QED
        BY <1>1, <2>1, <3>1, <3>2, HandledHonestly DEF Honest
    <2> QED
      BY <2>2, <2>3
  <1> QED
    BY <1>2, <1>3

\* The answer that a process holds is the one of the request it holds.
AnswerInv ==
    /\ ProcessInv
    /\ phase = "answered" /\ request.path = "/v1"
         => Honest(settings, request.key, request.outcome, answer)

\* Every step keeps AnswerInv.
LEMMA AnswerStep == AnswerInv /\ [ServiceNext]_serviceVars => AnswerInv'
  <1> SUFFICES ASSUME AnswerInv, [ServiceNext]_serviceVars,
                      phase' = "answered", request'.path = "/v1"
               PROVE  Honest(settings, request.key, request.outcome, answer)'
    BY ProcessStep DEF AnswerInv
  <1>1. ASSUME phase' = phase, settings' = settings, request' = request, answer' = answer
        PROVE  Honest(settings, request.key, request.outcome, answer)'
    BY <1>1 DEF AnswerInv, Honest
  <1>2. ASSUME NEW dim \in Dimensions, Upgrade(dim)
        PROVE  Honest(settings, request.key, request.outcome, answer)'
    BY <1>1, <1>2 DEF Upgrade, Migrate
  <1>3. CASE Downgrade
    BY <1>1, <1>3 DEF Downgrade, Migrate
  <1>4. ASSUME NEW environment \in Environments, create_app(environment)
        PROVE  FALSE
    BY <1>4 DEF create_app
  <1>5. CASE verify_schema_config \/ Serve \/ Stop \/ Answered
    BY <1>5 DEF verify_schema_config, Serve, Stop, Answered
  <1>6. CASE WriteEmbedding
    BY <1>6 DEF WriteEmbedding
  <1>7. ASSUME NEW key \in BOOLEAN, NEW outcome \in Outcomes, Request(key, outcome)
        PROVE  Honest(settings, request.key, request.outcome, answer)'
    BY <1>7, RequestHonest DEF Honest
  <1>8. ASSUME NEW state \in [Dependencies -> {"up", "down", "hung"}], Readyz(state)
        PROVE  FALSE
    BY <1>8 DEF Readyz
  <1>9. ASSUME NEW d \in Dependencies,
               \/ \E state \in {"up", "down", "hung"} : HealthChanges(d, state)
               \/ Proceed(d)
               \/ Breaks(d)
               \/ Timeout(d)
               \/ Drained(d)
        PROVE  FALSE
    BY <1>9 DEF HealthChanges, Proceed, Breaks, Timeout, Drained, ProbeGoes
  <1>10. CASE ReadyzReturns
    BY <1>10 DEF ReadyzReturns, AnswerInv, ProcessInv
  <1>11. CASE UNCHANGED serviceVars
    BY <1>1, <1>11 DEF serviceVars, process
  <1> QED
    BY <1>2, <1>3, <1>4, <1>5, <1>6, <1>7, <1>8, <1>9, <1>10, <1>11 DEF ServiceNext

\* No anonymous request is served by a deployed process, what an unexpected
\* exception says does not leave it and what a driver says leaves it only in a
\* store's error, and a client's error stays one.
THEOREM AnswersStayHonest == ServiceSpec => []AnswersAreHonest
  <1>1. ServiceInit => AnswerInv
    BY DEF ServiceInit, AnswerInv, ProcessInv
  <1>2. AnswerInv => AnswersAreHonest
    BY DEF AnswerInv, AnswersAreHonest, Honest
  <1> QED
    BY <1>1, <1>2, AnswerStep, PTL DEF ServiceSpec

----------------------------------------------------------------------------
(* /readyz *)

\* A probe that is past its question had the answer of a dependency that was
\* up, and answered holds every dependency that is up now.
ReadyInv ==
    /\ health \in [Dependencies -> {"up", "down", "hung"}]
    /\ probe \in [Dependencies -> {"idle", "connect", "ask", "close", "drain",
                                   "ok", "unavailable"}]
    /\ answered \subseteq Dependencies
    /\ phase = "probing" =>
         /\ Up(health) \subseteq answered
         /\ \A d \in Dependencies : probe[d] \in {"close", "ok"} => d \in answered
    /\ phase = "answered" => ReadyIsTrue

\* One step of one probe keeps ReadyInv.
LEMMA ProbeStep ==
    ASSUME ReadyInv, phase = "probing", NEW d \in Dependencies,
           NEW point \in {"ask", "close", "drain", "ok", "unavailable"},
           ProbeGoes(d, point),
           point \in {"close", "ok"} => d \in answered
    PROVE  ReadyInv'
  BY DEF ReadyInv, ProbeGoes, Up, ReadyIsTrue

\* Every step keeps ReadyInv.
LEMMA ReadyStep == ReadyInv /\ [ServiceNext]_serviceVars => ReadyInv'
  <1> SUFFICES ASSUME ReadyInv, [ServiceNext]_serviceVars
               PROVE  ReadyInv'
    OBVIOUS
  <1>1. ASSUME UNCHANGED <<phase, request, answer, probing>>
        PROVE  ReadyInv'
    BY <1>1 DEF ReadyInv, probing, Up, ReadyIsTrue
  <1>2. ASSUME UNCHANGED probing, phase' \notin {"probing", "answered"}
        PROVE  ReadyInv'
    BY <1>2 DEF ReadyInv, probing
  <1>3. ASSUME NEW dim \in Dimensions, Upgrade(dim)
        PROVE  ReadyInv'
    BY <1>1, <1>3 DEF Upgrade, Migrate
  <1>4. CASE Downgrade
    BY <1>1, <1>4 DEF Downgrade, Migrate
  <1>5. ASSUME NEW environment \in Environments, create_app(environment)
        PROVE  ReadyInv'
    BY <1>1, <1>2, <1>5 DEF create_app
  <1>6. CASE verify_schema_config
    BY <1>2, <1>6 DEF verify_schema_config
  <1>7. CASE Serve
    BY <1>2, <1>7 DEF Serve
  <1>8. CASE WriteEmbedding
    BY <1>1, <1>8 DEF WriteEmbedding
  <1>9. CASE Stop \/ Answered
    BY <1>9 DEF Stop, Answered, ReadyInv, AllUp, NoProbe
  <1>10. ASSUME NEW key \in BOOLEAN, NEW outcome \in Outcomes, Request(key, outcome)
         PROVE  ReadyInv'
    BY <1>10 DEF Request, ReadyInv, ReadyIsTrue, probing
  <1>11. ASSUME NEW state \in [Dependencies -> {"up", "down", "hung"}], Readyz(state)
         PROVE  ReadyInv'
    <2>1. probe' \in [Dependencies -> {"connect", "ask"}]
      BY <1>11 DEF Readyz
    <2> QED
      BY <1>11, <2>1 DEF Readyz, ReadyInv, Up
  <1>12. ASSUME NEW d \in Dependencies, NEW state \in {"up", "down", "hung"},
                HealthChanges(d, state)
         PROVE  ReadyInv'
    <2>1. health' \in [Dependencies -> {"up", "down", "hung"}]
      BY <1>12 DEF HealthChanges, ReadyInv
    <2>2. Up(health') \subseteq Dependencies
      BY DEF Up
    <2> QED
      BY <1>12, <2>1, <2>2 DEF HealthChanges, ReadyInv
  <1>13. ASSUME NEW d \in Dependencies, Proceed(d)
         PROVE  ReadyInv'
    <2>1. d \in answered
      BY <1>13 DEF Proceed, ReadyInv, Up
    <2> QED
      BY <1>13, <2>1, ProbeStep DEF Proceed
  <1>14. ASSUME NEW d \in Dependencies, Breaks(d)
         PROVE  ReadyInv'
    BY <1>14, ProbeStep DEF Breaks, ReadyInv
  <1>15. ASSUME NEW d \in Dependencies, Timeout(d) \/ Drained(d)
         PROVE  ReadyInv'
    BY <1>15, ProbeStep DEF Timeout, Drained
  <1>16. CASE ReadyzReturns
    <2>1. CASE \A d \in Dependencies : probe[d] = "ok"
      <3>1. answered = Dependencies
        BY <1>16, <2>1 DEF ReadyzReturns, ReadyInv
      <3>2. ReadyIsTrue'
        BY <1>16, <3>1 DEF ReadyzReturns, ReadyIsTrue, probing
      <3> QED
        BY <1>16, <3>2 DEF ReadyzReturns, ReadyInv, probing
    <2>2. CASE ~ \A d \in Dependencies : probe[d] = "ok"
      <3>1. answer'.http = 503
        BY <1>16, <2>2 DEF ReadyzReturns
      <3>2. ReadyIsTrue'
        BY <3>1 DEF ReadyIsTrue
      <3> QED
        BY <1>16, <3>2 DEF ReadyzReturns, ReadyInv, probing
    <2> QED
      BY <2>1, <2>2
  <1>17. CASE UNCHANGED serviceVars
    BY <1>1, <1>17 DEF serviceVars
  <1> QED
    BY <1>3, <1>4, <1>5, <1>6, <1>7, <1>8, <1>9, <1>10, <1>11, <1>12, <1>13, <1>14,
       <1>15, <1>16, <1>17 DEF ServiceNext

\* A 200 of /readyz means that each dependency was up while it was probed.
THEOREM ReadyStaysTrue == ServiceSpec => []ReadyIsTrue
  <1>1. ServiceInit => ReadyInv
    BY DEF ServiceInit, ReadyInv, AllUp, NoProbe
  <1>2. ReadyInv => ReadyIsTrue
    BY DEF ReadyInv, ReadyIsTrue
  <1> QED
    BY <1>1, <1>2, ReadyStep, PTL DEF ServiceSpec

----------------------------------------------------------------------------
(* Alembic's run of a script *)

\* Induction over the naturals, stated of a set: the library's theorem of it
\* has a predicate as its parameter, which the provers cannot instantiate.
LEMMA NatSetInduction ==
    ASSUME NEW N, 0 \in N, \A n \in Nat : n \in N => n + 1 \in N
    PROVE  \A n \in Nat : n \in N
<1> DEFINE Less == {p \in Nat \X Nat : p[1] < p[2]}
           Missing == {n \in Nat : n \notin N}
<1>1. IsWellFoundedOn(Less, Nat)
  BY NatLessThanWellFounded DEF OpToRel
<1> SUFFICES ASSUME Missing # {} PROVE FALSE
  OBVIOUS
<1>2. PICK n \in Missing : \A m \in Missing : <<m, n>> \notin Less
  <2> HIDE DEF Less
  <2> QED
    BY <1>1, WFMin
<1>3. n # 0 /\ n - 1 \in Nat /\ n - 1 < n /\ n \in Nat /\ (n - 1) + 1 = n
  OBVIOUS
<1>4. n - 1 \in N
  BY <1>2, <1>3
<1> QED
  BY <1>3, <1>4

\* One statement of a run.
AfterStatement(before, st, dim) ==
    IF before.raised THEN before
    ELSE IF Accepted(before, st) THEN Executed(before, st, dim)
    ELSE [before EXCEPT !.raised = TRUE]

\* The database at the start of a run.
Started(d) ==
    [objects |-> d.objects, column |-> d.column, recorded |-> d.recorded,
     memo |-> {}, raised |-> FALSE]

\* g are the databases of a run, from its start to its last statement.
IsTrace(g, d, script, dim) ==
    /\ g = [i \in 0 .. Len(script) |-> g[i]]
    /\ g[0] = Started(d)
    /\ \A i \in 1 .. Len(script) : g[i] = AfterStatement(g[i - 1], script[i], dim)

\* A run ends where its trace ends.
LEMMA RunOfTrace ==
    ASSUME NEW d, NEW script, Len(script) \in Nat, NEW dim,
           NEW g, IsTrace(g, d, script, dim)
    PROVE  Run(d, script, dim) = g[Len(script)]
<1> DEFINE n == Len(script)
           Step(f) == [i \in 0 .. Len(script) |->
                         IF i = 0
                         THEN [objects |-> d.objects, column |-> d.column,
                               recorded |-> d.recorded, memo |-> {}, raised |-> FALSE]
                         ELSE LET before == f[i - 1]
                              IN  IF before.raised THEN before
                                  ELSE IF Accepted(before, script[i])
                                       THEN Executed(before, script[i], dim)
                                  ELSE [before EXCEPT !.raised = TRUE]]
           after == CHOOSE f : f = Step(f)
<1>1. ASSUME NEW f, NEW i \in 0 .. n
      PROVE  Step(f)[i] = IF i = 0 THEN Started(d)
                          ELSE AfterStatement(f[i - 1], script[i], dim)
  BY DEF Started, AfterStatement
<1>2. g = Step(g)
  <2>1. ASSUME NEW i \in 0 .. n PROVE g[i] = Step(g)[i]
    <3>1. Step(g)[i] = IF i = 0 THEN Started(d)
                       ELSE AfterStatement(g[i - 1], script[i], dim)
      BY <1>1
    <3>2. i = 0 \/ i \in 1 .. n
      OBVIOUS
    <3> HIDE DEF Step
    <3> QED
      BY <3>1, <3>2 DEF IsTrace
  <2>2. g = [i \in 0 .. n |-> g[i]]
    BY DEF IsTrace
  <2>3. Step(g) = [i \in 0 .. n |-> Step(g)[i]]
    OBVIOUS
  <2> HIDE DEF Step, n
  <2> QED
    BY <2>1, <2>2, <2>3
<1>3. after = Step(after)
  <2> HIDE DEF Step
  <2> QED
    BY <1>2
<1>4. Run(d, script, dim) = after[n]
  BY DEF Run
<1>5. /\ after[0] = Started(d)
      /\ \A i \in 1 .. n : after[i] = AfterStatement(after[i - 1], script[i], dim)
  <2>1. ASSUME NEW i \in 0 .. n
        PROVE  after[i] = IF i = 0 THEN Started(d)
                          ELSE AfterStatement(after[i - 1], script[i], dim)
    <3>1. after[i] = Step(after)[i]
      BY <1>3
    <3> HIDE DEF after, Step
    <3> QED
      BY <1>1, <3>1
  <2>2. 0 \in 0 .. n /\ \A i \in 1 .. n : i \in 0 .. n /\ i # 0
    OBVIOUS
  <2> HIDE DEF after
  <2> QED
    BY <2>1, <2>2
<1> HIDE DEF after, Step
<1> DEFINE N == {i \in Nat : i <= n => after[i] = g[i]}
<1>6. 0 \in N
  BY <1>5 DEF IsTrace
<1>7. ASSUME NEW i \in Nat, i \in N PROVE i + 1 \in N
  <2> SUFFICES ASSUME i + 1 <= n PROVE after[i + 1] = g[i + 1]
    OBVIOUS
  <2>1. i + 1 \in 1 .. n /\ (i + 1) - 1 = i /\ i <= n
    OBVIOUS
  <2> QED
    BY <1>5, <1>7, <2>1 DEF IsTrace
<1>8. \A i \in Nat : i \in N
  <2> HIDE DEF N
  <2> QED
    BY <1>6, <1>7, NatSetInduction
<1>9. after[n] = g[n]
  BY <1>8
<1> QED
  BY <1>4, <1>9

----------------------------------------------------------------------------
(* The two scripts *)

\* Where upgrade creates the objects that later statements need.
Position(name) ==
    CASE name = "vector" -> 1
      [] name = "citext" -> 2
      [] name = "users" -> 3
      [] name = "tags" -> 5
      [] name = "documents" -> 8
      [] name = "document_steps" -> 14
      [] name = "document_events" -> 16
      [] name = "extraction_versions" -> 19
      [] name = "chunks" -> 22
      [] name = "webhooks" -> 26
      [] OTHER -> 0

\* upgrade creates 29 objects in an order in which each one finds what it
\* needs, the enum types apart, and then writes the row of schema_config.
LEMMA UpgradeIsOrdered ==
    /\ Len(upgrade) = 30 /\ DOMAIN upgrade = 1 .. 30
    /\ \A i \in 1 .. 29 : upgrade[i].name \notin Enums
    /\ \A i, j \in 1 .. 29 : upgrade[i].name = upgrade[j].name => i = j
    /\ \A i \in 1 .. 29 : \A n \in upgrade[i].needs \ Enums :
          Position(n) \in 1 .. i - 1 /\ upgrade[Position(n)].name = n
    /\ upgrade[30].op = "insert" /\ upgrade[30].name = upgrade[29].name
    /\ upgrade[30].needs = {} /\ upgrade[29].needs = {}
<1> USE DEF upgrade, Extensions, Accounts, TagTables, DocumentTable, PipelineTables,
            ExtractionTables, ChunkTable, WebhookTables, SystemTables, Statement,
            create_table, create_index, Enums
<1>1. Len(upgrade) = 30 /\ DOMAIN upgrade = 1 .. 30
  BY SMTT(30)
<1>2. \A i \in 1 .. 29 : upgrade[i].name \notin Enums
  BY SMTT(30)
<1>3. \A i, j \in 1 .. 29 : upgrade[i].name = upgrade[j].name => i = j
  BY SMTT(30)
<1>4. \A i \in 1 .. 29 : \A n \in upgrade[i].needs \ Enums :
         Position(n) \in 1 .. i - 1 /\ upgrade[Position(n)].name = n
  BY SMTT(30) DEF Position
<1>5. /\ upgrade[30].op = "insert" /\ upgrade[30].name = upgrade[29].name
      /\ upgrade[30].needs = {} /\ upgrade[29].needs = {}
  BY SMTT(30)
<1> HIDE DEF upgrade, Enums
<1> QED
  BY <1>1, <1>2, <1>3, <1>4, <1>5

\* What upgrade creates: two extensions, then tables and indexes.
LEMMA UpgradeCreates ==
    /\ \A i \in 1 .. 29 : upgrade[i].op \in {"create_table", "create_index", "create_extension"}
    /\ \A i \in 1 .. 29 : upgrade[i].op = "create_extension" <=> i \in {1, 2}
    /\ \A i \in 1 .. 29 : upgrade[i].op = "create_extension" => upgrade[i].needs = {}
    /\ \A i \in 1 .. 29 : upgrade[i].op = "create_index" => upgrade[i].needs \cap Enums = {}
    /\ \A i \in 1 .. 29 : upgrade[i].name = "chunks" <=> i = 22
    /\ \A i \in 1 .. 29 : upgrade[i].name = "schema_config" <=> i = 29
    /\ upgrade[22].op = "create_table" /\ upgrade[29].op = "create_table"
  BY SMTT(30) DEF upgrade, Extensions, Accounts, TagTables, DocumentTable, PipelineTables,
         ExtractionTables, ChunkTable, WebhookTables, SystemTables, Statement,
         create_table, create_index, Enums

\* Some table needs each enum type.
LEMMA UpgradeUsesEnums == \A e \in Enums : \E i \in 1 .. 29 : e \in upgrade[i].needs
<1>1. /\ "user_role" \in upgrade[3].needs /\ "field_type" \in upgrade[6].needs
      /\ {"document_source", "document_status", "pipeline_step"} \subseteq upgrade[8].needs
      /\ "step_status" \in upgrade[14].needs /\ "extraction_source" \in upgrade[19].needs
      /\ "validation_decision" \in upgrade[21].needs
      /\ "webhook_delivery_status" \in upgrade[27].needs
  BY SMTT(30) DEF upgrade, Extensions, Accounts, TagTables, DocumentTable, PipelineTables,
         ExtractionTables, ChunkTable, WebhookTables, SystemTables, Statement,
         create_table, create_index
<1> QED
  BY <1>1 DEF Enums

\* d is s followed by t.
Joined(d, s, t) ==
    /\ Len(d) = Len(s) + Len(t)
    /\ \A i \in 1 .. Len(s) : d[i] = s[i]
    /\ \A i \in 1 .. Len(t) : d[Len(s) + i] = t[i]

\* A concatenation is.
LEMMA Concatenated ==
    ASSUME NEW S, NEW s, NEW t, NEW d, s \in Seq(S), t \in Seq(S), d = s \o t
    PROVE  d \in Seq(S) /\ Joined(d, s, t)
  BY DEF Joined

\* downgrade drops the same objects in the opposite order, the enum types
\* after the tables and before the extensions.
LEMMA DowngradeIsReverse ==
    /\ Len(downgrade) = 30
    /\ \A i \in 1 .. 27 : downgrade[i].op \in {"drop_table", "drop_index"}
    /\ \A i \in 1 .. 27 : downgrade[i].op = "drop_table" <=> upgrade[30 - i].op = "create_table"
    /\ \A i \in 1 .. 27 : downgrade[i].name = upgrade[30 - i].name
    /\ downgrade[28].op = "drop_types"
    /\ downgrade[29].op = "drop_extension" /\ downgrade[29].name = upgrade[2].name
    /\ downgrade[30].op = "drop_extension" /\ downgrade[30].name = upgrade[1].name
<1>1. /\ \A i \in 1 .. 27 : DropTables[i].name = upgrade[30 - i].name
      /\ upgrade[1].name = "vector" /\ upgrade[2].name = "citext"
  BY SMTT(30) DEF DropTables, drop_table, drop_index, upgrade, Extensions, Accounts, TagTables,
         DocumentTable, PipelineTables, ExtractionTables, ChunkTable, WebhookTables,
         SystemTables, Statement, create_table, create_index
<1>2. \A i \in 1 .. 27 : DropTables[i].op = IF upgrade[30 - i].op = "create_table"
                                            THEN "drop_table" ELSE "drop_index"
  BY SMTT(30) DEF DropTables, drop_table, drop_index, upgrade, Extensions, Accounts, TagTables,
         DocumentTable, PipelineTables, ExtractionTables, ChunkTable, WebhookTables,
         SystemTables, Statement, create_table, create_index
<1>3. PICK A : A = DropTables
  OBVIOUS
<1>4. PICK t : t = Statement("drop_types", "", {})
  OBVIOUS
<1>5. PICK c : c = Statement("drop_extension", "citext", {})
  OBVIOUS
<1>6. PICK v : v = Statement("drop_extension", "vector", {})
  OBVIOUS
<1>7. /\ t.op = "drop_types"
      /\ c.op = "drop_extension" /\ c.name = "citext"
      /\ v.op = "drop_extension" /\ v.name = "vector"
  BY <1>4, <1>5, <1>6 DEF Statement
<1>8. PICK B : B = <<t>>
  OBVIOUS
<1>9. PICK C : C = <<c, v>>
  OBVIOUS
<1>10. downgrade = (A \o B) \o C
  BY <1>3, <1>4, <1>5, <1>6, <1>8, <1>9 DEF downgrade, DropTypes, DropExtensions
<1>11. PICK S : S = {A[i] : i \in 1 .. 27} \cup {t, c, v}
  OBVIOUS
<1>12. Len(A) = 27 /\ A \in Seq(S)
  <2>1. Len(DropTables) = 27 /\ DOMAIN DropTables = 1 .. 27
    BY DEF DropTables
  <2>2. A = [i \in 1 .. 27 |-> A[i]]
    BY <1>3 DEF DropTables
  <2>3. \A i \in 1 .. 27 : A[i] \in S
    BY <1>11
  <2> QED
    BY <1>3, <2>1, <2>2, <2>3
<1>13. Len(B) = 1 /\ B \in Seq(S) /\ B[1] = t
  BY <1>8, <1>11
<1>14. Len(C) = 2 /\ C \in Seq(S) /\ C[1] = c /\ C[2] = v
  BY <1>9, <1>11
<1>15. PICK D : D = A \o B
  OBVIOUS
<1>16. /\ D \in Seq(S) /\ Len(D) = 28
       /\ \A i \in 1 .. 27 : D[i] = A[i]
       /\ \A i \in 1 .. 1 : D[27 + i] = B[i]
  <2>1. D \in Seq(S) /\ Joined(D, A, B)
    BY <1>12, <1>13, <1>15, Concatenated
  <2> QED
    BY <1>12, <1>13, <2>1 DEF Joined
<1>17. downgrade = D \o C
  BY <1>10, <1>15
<1>18. /\ Len(downgrade) = 30
       /\ \A i \in 1 .. 28 : downgrade[i] = D[i]
       /\ \A i \in 1 .. 2 : downgrade[28 + i] = C[i]
  <2>1. Joined(downgrade, D, C)
    BY <1>14, <1>16, <1>17, Concatenated
  <2> QED
    BY <1>14, <1>16, <2>1 DEF Joined
<1>19. \A i \in 1 .. 27 : downgrade[i] = DropTables[i]
  <2> SUFFICES ASSUME NEW i \in 1 .. 27 PROVE downgrade[i] = DropTables[i]
    OBVIOUS
  <2>1. i \in 1 .. 28
    OBVIOUS
  <2> QED
    BY <1>3, <1>16, <1>18, <2>1
<1>20. /\ downgrade[28] = t /\ downgrade[29] = c /\ downgrade[30] = v
  <2>1. D[27 + 1] = t
    BY <1>13, <1>16
  <2>2. downgrade[28 + 1] = c /\ downgrade[28 + 2] = v
    BY <1>14, <1>18
  <2> QED
    BY <1>18, <2>1, <2>2
<1>21. /\ downgrade[28].op = "drop_types"
       /\ downgrade[29].op = "drop_extension" /\ downgrade[29].name = upgrade[2].name
       /\ downgrade[30].op = "drop_extension" /\ downgrade[30].name = upgrade[1].name
  BY <1>1, <1>7, <1>20
<1>22. \A i \in 1 .. 27 : downgrade[i].name = upgrade[30 - i].name
  BY <1>1, <1>19
<1>23. \A i \in 1 .. 27 :
          /\ downgrade[i].op \in {"drop_table", "drop_index"}
          /\ downgrade[i].op = "drop_table" <=> upgrade[30 - i].op = "create_table"
  BY <1>2, <1>19
<1> QED
  BY <1>18, <1>21, <1>22, <1>23

\* The objects that the first i statements of upgrade create ...
Names(i) == {upgrade[j].name : j \in 1 .. i}

\* ... and the enum types that come with them.
Types(i) == {e \in Enums : \E j \in 1 .. i : e \in upgrade[j].needs}

\* Needs is a function of the objects of upgrade.
LEMMA NeedsOfObjects ==
    /\ DOMAIN Needs = Names(29)
    /\ \A i \in 1 .. 29 : Needs[upgrade[i].name] = upgrade[i].needs
    /\ Whole = Names(29) \cup Enums
    /\ \A i \in 1 .. 29 : upgrade[i].name \in TableNames <=> upgrade[i].op = "create_table"
    /\ TableNames \subseteq Names(29)
    /\ IndexNames \subseteq Names(29)
<1>1. \A i \in 1 .. 30 : i \in 1 .. 29 \/ i = 30
  OBVIOUS
<1>2. /\ DOMAIN upgrade = 1 .. 30 /\ upgrade[30].name = upgrade[29].name
      /\ upgrade[30].op = "insert" /\ upgrade[30].needs = {} /\ upgrade[29].needs = {}
      /\ \A i, j \in 1 .. 29 : upgrade[i].name = upgrade[j].name => i = j
      /\ upgrade[29].op = "create_table"
  BY UpgradeIsOrdered, UpgradeCreates
<1>3. {upgrade[i].name : i \in DOMAIN upgrade} = Names(29)
  BY <1>1, <1>2 DEF Names
<1>4. DOMAIN Needs = Names(29)
  BY <1>3 DEF Needs
<1>5. ASSUME NEW i \in 1 .. 29 PROVE Needs[upgrade[i].name] = upgrade[i].needs
  <2>1. upgrade[i].name \in Names(29)
    BY DEF Names
  <2>2. PICK k : k = CHOOSE j \in DOMAIN upgrade : upgrade[j].name = upgrade[i].name
    OBVIOUS
  <2>3. k \in 1 .. 30 /\ upgrade[k].name = upgrade[i].name
    BY <1>2, <2>2
  <2>4. Needs[upgrade[i].name] = upgrade[k].needs
    BY <1>3, <2>1, <2>2 DEF Needs
  <2>5. k = i \/ (k = 30 /\ i = 29)
    BY <1>1, <1>2, <2>3
  <2> QED
    BY <1>2, <2>4, <2>5
<1>6. /\ TableNames = {upgrade[i].name : i \in {j \in 1 .. 30 : upgrade[j].op = "create_table"}}
      /\ IndexNames = {upgrade[i].name : i \in {j \in 1 .. 30 : upgrade[j].op = "create_index"}}
  BY <1>2 DEF TableNames, IndexNames, Created
<1>7. TableNames \subseteq Names(29) /\ IndexNames \subseteq Names(29)
  BY <1>1, <1>2, <1>6 DEF Names
<1>8. ASSUME NEW i \in 1 .. 29
      PROVE  upgrade[i].name \in TableNames <=> upgrade[i].op = "create_table"
  BY <1>1, <1>2, <1>6
<1> QED
  BY <1>4, <1>5, <1>7, <1>8 DEF Whole

\* How the objects grow from one statement of upgrade to the next.
LEMMA NamesGrow ==
    /\ Names(0) = {} /\ Types(0) = {}
    /\ \A i \in 1 .. 30 : /\ Names(i) = Names(i - 1) \cup {upgrade[i].name}
                          /\ Types(i) = Types(i - 1) \cup (upgrade[i].needs \cap Enums)
<1>1. Names(0) = {} /\ Types(0) = {}
  BY DEF Names, Types
<1>2. ASSUME NEW i \in 1 .. 30
      PROVE  /\ Names(i) = Names(i - 1) \cup {upgrade[i].name}
             /\ Types(i) = Types(i - 1) \cup (upgrade[i].needs \cap Enums)
  <2>1. i \in 1 .. i /\ \A j : j \in 1 .. i <=> j \in 1 .. i - 1 \/ j = i
    OBVIOUS
  <2>2. Names(i) = Names(i - 1) \cup {upgrade[i].name}
    BY <2>1 DEF Names
  <2>3. ASSUME NEW e
        PROVE  e \in Types(i) <=> e \in Types(i - 1) \/ e \in upgrade[i].needs \cap Enums
    BY <2>1 DEF Types
  <2> QED
    BY <2>2, <2>3
<1> QED
  BY <1>1, <1>2

\* Each statement that creates something finds its name free and what it
\* needs, the enum types apart, in place.
LEMMA NamesAreNew ==
    /\ \A i \in 0 .. 30 : Names(i) \cap Enums = {}
    /\ \A i \in 1 .. 29 : /\ upgrade[i].name \notin Names(i - 1)
                          /\ upgrade[i].name \notin Enums
                          /\ upgrade[i].needs \ Enums \subseteq Names(i - 1)
<1>1. \A i \in 1 .. 30 : i \in 1 .. 29 \/ i = 30
  OBVIOUS
<1>2. ASSUME NEW i \in 0 .. 30 PROVE Names(i) \cap Enums = {}
  <2>1. \A j \in 1 .. i : j \in 1 .. 30
    OBVIOUS
  <2>2. 29 \in 1 .. 29
    OBVIOUS
  <2>3. \A j \in 1 .. i : upgrade[j].name \notin Enums
    BY <1>1, <2>1, <2>2, UpgradeIsOrdered
  <2> QED
    BY <2>3 DEF Names
<1>3. ASSUME NEW i \in 1 .. 29
      PROVE  /\ upgrade[i].name \notin Names(i - 1)
             /\ upgrade[i].name \notin Enums
             /\ upgrade[i].needs \ Enums \subseteq Names(i - 1)
  <2>1. \A j \in 1 .. i - 1 : j \in 1 .. 29 /\ j # i
    OBVIOUS
  <2>2. upgrade[i].name \notin Names(i - 1)
    BY <2>1, UpgradeIsOrdered DEF Names
  <2>3. ASSUME NEW n \in upgrade[i].needs \ Enums PROVE n \in Names(i - 1)
    <3>1. Position(n) \in 1 .. i - 1 /\ upgrade[Position(n)].name = n
      BY UpgradeIsOrdered
    <3> QED
      BY <3>1 DEF Names
  <2> QED
    BY <2>2, <2>3, UpgradeIsOrdered
<1> QED
  BY <1>2, <1>3

----------------------------------------------------------------------------
(* Up and down *)

\* The database after i statements of upgrade.
AtUpgrade(i, dim) ==
    [objects |-> Names(i) \cup Types(i),
     column |-> IF i >= 22 THEN dim ELSE 0,
     recorded |-> IF i = 30 THEN dim ELSE 0,
     memo |-> Types(i), raised |-> FALSE]

\* Every statement of upgrade is accepted, and the database goes on to its
\* next state.
LEMMA UpgradeGoesOn ==
    ASSUME NEW dim, NEW i \in 1 .. 30
    PROVE  AtUpgrade(i, dim) = AfterStatement(AtUpgrade(i - 1, dim), upgrade[i], dim)
<1>1. PICK b : b = AtUpgrade(i - 1, dim)
  OBVIOUS
<1>2. PICK st : st = upgrade[i]
  OBVIOUS
<1>3. PICK N, T : N = Names(i - 1) /\ T = Types(i - 1)
  OBVIOUS
<1>4. PICK col, rec : /\ col = IF i - 1 >= 22 THEN dim ELSE 0
                      /\ rec = IF i - 1 = 30 THEN dim ELSE 0
  OBVIOUS
<1>5. b = [objects |-> N \cup T, column |-> col, recorded |-> rec, memo |-> T,
           raised |-> FALSE]
  BY <1>1, <1>3, <1>4 DEF AtUpgrade
<1>6. PICK N1, T1 : N1 = N \cup {st.name} /\ T1 = T \cup (st.needs \cap Enums)
  OBVIOUS
<1>7. Names(i) = N1 /\ Types(i) = T1
  BY <1>2, <1>3, <1>6, NamesGrow
<1>8. AtUpgrade(i, dim) =
         [objects |-> N1 \cup T1, column |-> IF i >= 22 THEN dim ELSE 0,
          recorded |-> IF i = 30 THEN dim ELSE 0, memo |-> T1, raised |-> FALSE]
  BY <1>7 DEF AtUpgrade
<1>9. i - 1 \in 0 .. 30 /\ N \cap Enums = {} /\ T \subseteq Enums
  <2>1. i - 1 \in 0 .. 30
    OBVIOUS
  <2> QED
    BY <1>3, <2>1, NamesAreNew DEF Types
<1>10. CASE i \in 1 .. 29
  <2>1. st.name \notin N /\ st.name \notin Enums /\ st.needs \ Enums \subseteq N
    BY <1>2, <1>3, <1>10, NamesAreNew
  <2>2. st.op \in {"create_table", "create_index", "create_extension"}
    BY <1>2, <1>10, UpgradeCreates
  <2>3. (st.name = "chunks" <=> i = 22) /\ (i = 22 => st.op = "create_table")
    BY <1>2, <1>10, UpgradeCreates
  <2>4. CASE st.op = "create_table"
    <3>1. Brought(b, st) = (st.needs \cap Enums) \ T
      BY <1>5 DEF Brought
    <3>2. Accepted(b, st)
      <4>1. /\ st.name \notin b.objects
            /\ Brought(b, st) \cap b.objects = {}
            /\ st.needs \subseteq b.objects \cup Brought(b, st)
        BY <1>5, <1>9, <2>1, <3>1
      <4> QED
        BY <2>4, <4>1 DEF Accepted
    <3>3. Executed(b, st, dim) =
             [objects |-> N1 \cup T1, column |-> IF st.name = "chunks" THEN dim ELSE col,
              recorded |-> rec, memo |-> T1, raised |-> FALSE]
      <4>1. /\ N1 \cup T1 = (N \cup T) \cup {st.name} \cup Brought(b, st)
            /\ T1 = T \cup (st.needs \cap Enums)
        BY <1>6, <3>1
      <4>2. Executed(b, st, dim) =
               [b EXCEPT !.objects = @ \cup {st.name} \cup Brought(b, st),
                         !.memo = @ \cup (st.needs \cap Enums),
                         !.column = IF st.name = "chunks" THEN dim ELSE @]
        BY <2>4 DEF Executed
      <4> QED
        BY <1>5, <4>1, <4>2
    <3>4. /\ (IF i >= 22 THEN dim ELSE 0) = (IF st.name = "chunks" THEN dim ELSE col)
          /\ (IF i = 30 THEN dim ELSE 0) = rec
      BY <1>4, <1>10, <2>3
    <3>5. ~ b.raised
      BY <1>5
    <3> QED
      BY <1>1, <1>2, <1>8, <3>2, <3>3, <3>4, <3>5 DEF AfterStatement
  <2>5. CASE st.op \in {"create_index", "create_extension"}
    <3>1. st.needs \cap Enums = {} /\ (st.op = "create_extension" => st.needs = {})
      BY <1>2, <1>10, <2>5, UpgradeCreates
    <3>2. Accepted(b, st)
      <4>1. st.name \notin b.objects /\ st.needs \subseteq b.objects
        BY <1>5, <1>9, <2>1, <3>1
      <4> QED
        BY <2>5, <4>1 DEF Accepted
    <3>3. Executed(b, st, dim) =
             [objects |-> N1 \cup T1, column |-> col, recorded |-> rec, memo |-> T1,
              raised |-> FALSE]
      <4>1. N1 \cup T1 = (N \cup T) \cup {st.name} /\ T1 = T
        BY <1>6, <3>1
      <4>2. Executed(b, st, dim) = [b EXCEPT !.objects = @ \cup {st.name}]
        BY <2>5 DEF Executed
      <4> QED
        BY <1>5, <4>1, <4>2
    <3>4. (IF i >= 22 THEN dim ELSE 0) = col /\ (IF i = 30 THEN dim ELSE 0) = rec
      BY <1>4, <1>10, <2>3, <2>5
    <3>5. ~ b.raised
      BY <1>5
    <3> QED
      BY <1>1, <1>2, <1>8, <3>2, <3>3, <3>4, <3>5 DEF AfterStatement
  <2> QED
    BY <2>2, <2>4, <2>5
<1>11. CASE i = 30
  <2>1. st.op = "insert" /\ st.name = upgrade[29].name /\ st.needs = {}
    BY <1>2, <1>11, UpgradeIsOrdered
  <2>2. 29 \in 1 .. 29 /\ i - 1 = 29
    BY <1>11
  <2>3. st.name \in N
    BY <1>3, <2>1, <2>2 DEF Names
  <2>4. N1 = N /\ T1 = T
    BY <1>6, <2>1, <2>3
  <2>5. Accepted(b, st) /\ ~ b.raised
    BY <1>5, <2>1, <2>3 DEF Accepted
  <2>6. Executed(b, st, dim) = [b EXCEPT !.recorded = dim]
    BY <2>1 DEF Executed
  <2>7. Executed(b, st, dim) =
           [objects |-> N \cup T, column |-> col, recorded |-> dim, memo |-> T,
            raised |-> FALSE]
    BY <1>5, <2>6
  <2>8. (IF i >= 22 THEN dim ELSE 0) = col /\ (IF i = 30 THEN dim ELSE 0) = dim
    BY <1>4, <1>11
  <2> QED
    BY <1>1, <1>2, <1>8, <2>4, <2>5, <2>7, <2>8 DEF AfterStatement
<1> QED
  BY <1>10, <1>11

\* upgrade on a database without the migration ends with the whole schema
\* and the dimension of the column recorded.
LEMMA UpgradeBuilds ==
    ASSUME NEW dim
    PROVE  /\ ~ Run(Empty, upgrade, dim).raised
           /\ Run(Empty, upgrade, dim).objects = Whole
           /\ Run(Empty, upgrade, dim).column = dim
           /\ Run(Empty, upgrade, dim).recorded = dim
<1>1. PICK g : g = [i \in 0 .. 30 |-> AtUpgrade(i, dim)]
  OBVIOUS
<1>2. \A i \in 0 .. 30 : g[i] = AtUpgrade(i, dim)
  BY <1>1
<1>3. g = [i \in 0 .. 30 |-> g[i]]
  BY <1>1
<1>4. Len(upgrade) = 30
  BY UpgradeIsOrdered
<1>5. g[0] = Started(Empty)
  <2>1. AtUpgrade(0, dim) = [objects |-> {}, column |-> 0, recorded |-> 0, memo |-> {},
                             raised |-> FALSE]
    <3>1. PICK z : z = 0
      OBVIOUS
    <3>2. Names(z) \cup Types(z) = {} /\ Types(z) = {} /\ ~ (z >= 22) /\ z # 30
      BY <3>1, NamesGrow
    <3> QED
      BY <3>1, <3>2 DEF AtUpgrade
  <2>2. Started(Empty) = [objects |-> {}, column |-> 0, recorded |-> 0, memo |-> {},
                          raised |-> FALSE]
    BY DEF Started, Empty
  <2>3. 0 \in 0 .. 30
    OBVIOUS
  <2> QED
    BY <1>2, <2>1, <2>2, <2>3
<1>6. ASSUME NEW i \in 1 .. 30 PROVE g[i] = AfterStatement(g[i - 1], upgrade[i], dim)
  <2>1. i \in 0 .. 30 /\ i - 1 \in 0 .. 30
    OBVIOUS
  <2> QED
    BY <1>2, <2>1, UpgradeGoesOn
<1>7. IsTrace(g, Empty, upgrade, dim)
  BY <1>3, <1>4, <1>5, <1>6 DEF IsTrace
<1>8. Run(Empty, upgrade, dim) = AtUpgrade(30, dim)
  <2>1. Run(Empty, upgrade, dim) = g[30]
    <3>1. PICK d : d = Empty
      OBVIOUS
    <3>2. IsTrace(g, d, upgrade, dim) /\ Len(upgrade) \in Nat
      BY <1>4, <1>7, <3>1
    <3>3. Run(d, upgrade, dim) = g[Len(upgrade)]
      BY <3>2, RunOfTrace
    <3> QED
      BY <1>4, <3>1, <3>3
  <2>2. 30 \in 0 .. 30
    OBVIOUS
  <2> QED
    BY <1>2, <2>1, <2>2
<1>9. Names(30) \cup Types(30) = Whole
  <2>1. Types(30) = Enums
    <3>1. \A i \in 1 .. 29 : i \in 1 .. 30
      OBVIOUS
    <3> QED
      BY <3>1, UpgradeUsesEnums DEF Types
  <2>2. Names(30) = Names(29) \cup {upgrade[30].name}
    <3>1. 30 \in 1 .. 30 /\ 30 - 1 = 29
      OBVIOUS
    <3> QED
      BY <3>1, NamesGrow
  <2>3. upgrade[30].name \in Names(29)
    <3>1. 29 \in 1 .. 29
      OBVIOUS
    <3> QED
      BY <3>1, UpgradeIsOrdered DEF Names
  <2> QED
    BY <2>1, <2>2, <2>3, NeedsOfObjects
<1> QED
  BY <1>8, <1>9 DEF AtUpgrade

\* No object of the first k statements needs the one that statement k creates.
LEMMA LastIsFree ==
    ASSUME NEW k \in 1 .. 29, NEW n \in Names(k)
    PROVE  n \in DOMAIN Needs /\ upgrade[k].name \notin Needs[n]
<1>1. PICK j \in 1 .. k : n = upgrade[j].name
  BY DEF Names
<1>2. j \in 1 .. 29
  OBVIOUS
<1>3. Needs[n] = upgrade[j].needs
  BY <1>1, <1>2, NeedsOfObjects
<1>4. n \in DOMAIN Needs
  BY <1>1, <1>2, NeedsOfObjects DEF Names
<1>5. upgrade[k].name \notin Names(j - 1)
  <2>1. \A i \in 1 .. j - 1 : i \in 1 .. 29 /\ i # k
    OBVIOUS
  <2> QED
    BY <2>1, UpgradeIsOrdered DEF Names
<1>6. upgrade[k].name \notin upgrade[j].needs
  <2>1. upgrade[k].name \notin Enums /\ upgrade[j].needs \ Enums \subseteq Names(j - 1)
    BY <1>2, NamesAreNew
  <2> QED
    BY <1>5, <2>1
<1> QED
  BY <1>3, <1>4, <1>6

\* The database after i statements of downgrade, from one whose column has
\* dimension col and which records rec.
AtDowngrade(i, col, rec) ==
    [objects |-> IF i <= 27 THEN Names(29 - i) \cup Enums ELSE Names(30 - i),
     column |-> IF i >= 8 THEN 0 ELSE col,
     recorded |-> IF i >= 1 THEN 0 ELSE rec,
     memo |-> {}, raised |-> FALSE]

\* The tables and indexes go, the last one first ...
LEMMA TablesGo ==
    ASSUME NEW col, NEW rec, NEW i \in 1 .. 27
    PROVE  AtDowngrade(i, col, rec)
              = AfterStatement(AtDowngrade(i - 1, col, rec), downgrade[i], 0)
<1>1. PICK k : k = 30 - i
  OBVIOUS
<1>2. k \in 3 .. 29 /\ k \in 1 .. 29 /\ k \in 1 .. 30 /\ k \in 0 .. 30
  BY <1>1
<1>3. PICK x : x = upgrade[k].name
  OBVIOUS
<1>4. PICK st : st = downgrade[i]
  OBVIOUS
<1>5. PICK N : N = Names(k - 1)
  OBVIOUS
<1>6. PICK O : O = (N \cup {x}) \cup Enums
  OBVIOUS
<1>7. PICK c, r : c = (IF i - 1 >= 8 THEN 0 ELSE col) /\ r = (IF i - 1 >= 1 THEN 0 ELSE rec)
  OBVIOUS
<1>8. PICK b : b = AtDowngrade(i - 1, col, rec)
  OBVIOUS
<1>9. Names(k) = N \cup {x}
  BY <1>2, <1>3, <1>5, NamesGrow
<1>10. b = [objects |-> O, column |-> c, recorded |-> r, memo |-> {}, raised |-> FALSE]
  <2>1. i - 1 <= 27 /\ 29 - (i - 1) = k
    BY <1>1
  <2> QED
    BY <1>6, <1>7, <1>8, <1>9, <2>1 DEF AtDowngrade
<1>11. AtDowngrade(i, col, rec) =
          [objects |-> N \cup Enums, column |-> IF i >= 8 THEN 0 ELSE col, recorded |-> 0,
           memo |-> {}, raised |-> FALSE]
  <2>1. i <= 27 /\ i >= 1 /\ 29 - i = k - 1
    BY <1>1
  <2> QED
    BY <1>5, <2>1 DEF AtDowngrade
<1>12. x \notin N /\ x \notin Enums
  BY <1>2, <1>3, <1>5, NamesAreNew
<1>13. \A n \in O : n \in Names(29) => n \in DOMAIN Needs /\ x \notin Needs[n]
  <2> SUFFICES ASSUME NEW n \in O, n \in Names(29)
               PROVE  n \in DOMAIN Needs /\ x \notin Needs[n]
    OBVIOUS
  <2>1. n \notin Enums
    <3>1. 29 \in 0 .. 30
      OBVIOUS
    <3> QED
      BY <3>1, NamesAreNew
  <2>2. n \in Names(k)
    BY <1>6, <1>9, <2>1
  <2> QED
    BY <1>2, <1>3, <2>2, LastIsFree
<1>14. /\ st.name = x /\ st.op \in {"drop_table", "drop_index"}
       /\ st.op = "drop_table" <=> upgrade[k].op = "create_table"
  BY <1>1, <1>3, <1>4, DowngradeIsReverse
<1>15. /\ (x = "chunks" <=> i = 8) /\ (x = "schema_config" <=> i = 1)
       /\ i = 8 \/ i = 1 => st.op = "drop_table"
  <2>1. (k = 22 <=> i = 8) /\ (k = 29 <=> i = 1)
    BY <1>1
  <2>2. /\ (x = "chunks" <=> k = 22) /\ (x = "schema_config" <=> k = 29)
        /\ k = 22 \/ k = 29 => upgrade[k].op = "create_table"
    BY <1>2, <1>3, UpgradeCreates
  <2> QED
    BY <1>14, <2>1, <2>2
<1>16. O \ {x} = N \cup Enums
  BY <1>6, <1>12
<1>17. x \in O
  BY <1>6
<1>18. CASE st.op = "drop_table"
  <2>1. Dependents(b.objects, {st.name}) = {}
    <3>1. \A n \in TableNames \cap O : x \notin Needs[n]
      BY <1>13, NeedsOfObjects
    <3>2. Dependents(b.objects, {st.name}) = {n \in TableNames \cap O : Needs[n] \cap {x} # {}}
      BY <1>10, <1>14 DEF Dependents
    <3> QED
      BY <3>1, <3>2
  <2>2. Accepted(b, st)
    BY <1>10, <1>14, <1>17, <1>18, <2>1 DEF Accepted
  <2>3. O \ ({x} \cup {n \in IndexNames : Needs[n] = {x}}) = N \cup Enums
    <3>1. \A n \in O : n \in IndexNames => Needs[n] # {x}
      BY <1>13, NeedsOfObjects
    <3> QED
      BY <1>16, <3>1
  <2>4. Executed(b, st, 0) =
           [b EXCEPT !.objects = @ \ ({x} \cup {n \in IndexNames : Needs[n] = {x}}),
                     !.column = IF x = "chunks" THEN 0 ELSE @,
                     !.recorded = IF x = "schema_config" THEN 0 ELSE @]
    BY <1>14, <1>18 DEF Executed
  <2>5. Executed(b, st, 0) =
           [objects |-> N \cup Enums, column |-> IF x = "chunks" THEN 0 ELSE c,
            recorded |-> IF x = "schema_config" THEN 0 ELSE r, memo |-> {}, raised |-> FALSE]
    BY <1>10, <2>3, <2>4
  <2>6. /\ (IF i >= 8 THEN 0 ELSE col) = (IF x = "chunks" THEN 0 ELSE c)
        /\ 0 = (IF x = "schema_config" THEN 0 ELSE r)
    <3>1. CASE i = 8
      BY <1>7, <1>15, <3>1
    <3>2. CASE i \in 9 .. 27
      <4>1. i # 8 /\ i # 1 /\ i >= 8 /\ i - 1 >= 8 /\ i - 1 >= 1
        BY <3>2
      <4>2. x # "chunks" /\ x # "schema_config" /\ c = 0 /\ r = 0
        BY <1>7, <1>15, <4>1
      <4> QED
        BY <4>1, <4>2
    <3>3. CASE i = 1
      BY <1>7, <1>15, <3>3
    <3>4. CASE i \in 2 .. 7
      <4>1. i # 8 /\ i # 1 /\ ~ (i >= 8) /\ ~ (i - 1 >= 8) /\ i - 1 >= 1
        BY <3>4
      <4>2. x # "chunks" /\ x # "schema_config" /\ c = col /\ r = 0
        BY <1>7, <1>15, <4>1
      <4> QED
        BY <4>1, <4>2
    <3> QED
      BY <3>1, <3>2, <3>3, <3>4
  <2>7. ~ b.raised
    BY <1>10
  <2> QED
    BY <1>4, <1>8, <1>11, <2>2, <2>5, <2>6, <2>7 DEF AfterStatement
<1>19. CASE st.op = "drop_index"
  <2>1. Accepted(b, st) /\ ~ b.raised
    BY <1>10, <1>14, <1>17, <1>19 DEF Accepted
  <2>2. Executed(b, st, 0) = [b EXCEPT !.objects = @ \ {x}]
    BY <1>14, <1>19 DEF Executed
  <2>3. Executed(b, st, 0) =
           [objects |-> N \cup Enums, column |-> c, recorded |-> r, memo |-> {},
            raised |-> FALSE]
    BY <1>10, <1>16, <2>2
  <2>4. (IF i >= 8 THEN 0 ELSE col) = c /\ 0 = r
    BY <1>7, <1>15, <1>19
  <2> QED
    BY <1>4, <1>8, <1>11, <2>1, <2>3, <2>4 DEF AfterStatement
<1> QED
  BY <1>14, <1>18, <1>19

\* ... then the enum types and the extensions.
LEMMA TypesGo ==
    ASSUME NEW col, NEW rec, NEW i \in 28 .. 30
    PROVE  AtDowngrade(i, col, rec)
              = AfterStatement(AtDowngrade(i - 1, col, rec), downgrade[i], 0)
<1>1. PICK st : st = downgrade[i]
  OBVIOUS
<1>2. PICK b : b = AtDowngrade(i - 1, col, rec)
  OBVIOUS
<1>3. PICK N2, N1 : N2 = Names(2) /\ N1 = Names(1)
  OBVIOUS
<1>4. Names(0) = {} /\ N1 = {upgrade[1].name} /\ N2 = N1 \cup {upgrade[2].name}
  <2>1. 1 \in 1 .. 30 /\ 2 \in 1 .. 30 /\ 1 - 1 = 0 /\ 2 - 1 = 1
    OBVIOUS
  <2> QED
    BY <1>3, <2>1, NamesGrow
<1>5. upgrade[2].name \notin N1 /\ N2 \cap Enums = {}
  <2>1. 2 \in 1 .. 29 /\ 2 \in 0 .. 30 /\ 2 - 1 = 1
    OBVIOUS
  <2> QED
    BY <1>3, <2>1, NamesAreNew
<1>6. N2 \cap TableNames = {} /\ TableNames \cap Enums = {}
  <2>1. 1 \in 1 .. 29 /\ 2 \in 1 .. 29 /\ 29 \in 0 .. 30
    OBVIOUS
  <2>2. upgrade[1].op = "create_extension" /\ upgrade[2].op = "create_extension"
    BY <2>1, UpgradeCreates
  <2>3. upgrade[1].name \notin TableNames /\ upgrade[2].name \notin TableNames
    BY <2>1, <2>2, NeedsOfObjects
  <2> QED
    BY <1>4, <2>1, <2>3, NeedsOfObjects, NamesAreNew
<1>7. ASSUME NEW O, O \subseteq N2 \cup Enums, NEW names PROVE Dependents(O, names) = {}
  BY <1>6, <1>7 DEF Dependents
<1>8. PICK O, O1 : /\ O = (IF i = 28 THEN N2 \cup Enums ELSE IF i = 29 THEN N2 ELSE N1)
                   /\ O1 = (IF i = 28 THEN N2 ELSE IF i = 29 THEN N1 ELSE {})
  OBVIOUS
<1>9. b = [objects |-> O, column |-> 0, recorded |-> 0, memo |-> {}, raised |-> FALSE]
  <2>1. PICK h : h = i - 1
    OBVIOUS
  <2>2. (IF h <= 27 THEN Names(29 - h) \cup Enums ELSE Names(30 - h)) = O
    <3>1. i = 28 => h <= 27 /\ 29 - h = 2
      BY <2>1
    <3>2. i = 29 => ~ (h <= 27) /\ 30 - h = 2
      BY <2>1
    <3>3. i = 30 => ~ (h <= 27) /\ 30 - h = 1
      BY <2>1
    <3>4. i = 28 \/ i = 29 \/ i = 30
      OBVIOUS
    <3> QED
      BY <1>3, <1>8, <3>1, <3>2, <3>3, <3>4
  <2>3. h >= 8 /\ h >= 1
    BY <2>1
  <2> QED
    BY <1>2, <2>1, <2>2, <2>3 DEF AtDowngrade
<1>10. AtDowngrade(i, col, rec) =
          [objects |-> O1, column |-> 0, recorded |-> 0, memo |-> {}, raised |-> FALSE]
  <2>1. ~ (i <= 27) /\ i >= 8 /\ i >= 1
    OBVIOUS
  <2>2. Names(30 - i) = O1
    <3>1. i = 28 => 30 - i = 2
      OBVIOUS
    <3>2. i = 29 => 30 - i = 1
      OBVIOUS
    <3>3. i = 30 => 30 - i = 0
      OBVIOUS
    <3>4. i = 28 \/ i = 29 \/ i = 30
      OBVIOUS
    <3> QED
      BY <1>3, <1>4, <1>8, <3>1, <3>2, <3>3, <3>4
  <2> QED
    BY <2>1, <2>2 DEF AtDowngrade
<1>11. Accepted(b, st) /\ Executed(b, st, 0) = [b EXCEPT !.objects = O1]
  <2>1. CASE i = 28
    <3>1. st.op = "drop_types"
      BY <1>1, <2>1, DowngradeIsReverse
    <3>2. Dependents(b.objects, Enums) = {}
      BY <1>4, <1>7, <1>8, <1>9, <2>1
    <3>3. Executed(b, st, 0) = [b EXCEPT !.objects = @ \ Enums]
      BY <3>1 DEF Executed
    <3>4. b.objects \ Enums = O1
      BY <1>5, <1>8, <1>9, <2>1
    <3> QED
      BY <1>9, <3>1, <3>2, <3>3, <3>4 DEF Accepted
  <2>2. CASE i \in {29, 30}
    <3>1. /\ st.op = "drop_extension"
          /\ st.name = (IF i = 29 THEN upgrade[2].name ELSE upgrade[1].name)
      BY <1>1, <2>2, DowngradeIsReverse
    <3>2. Dependents(b.objects, {st.name}) = {}
      <4>1. b.objects \subseteq N2 \cup Enums
        BY <1>4, <1>8, <1>9, <2>2
      <4> QED
        BY <1>7, <4>1
    <3>3. Executed(b, st, 0) = [b EXCEPT !.objects = @ \ {st.name}]
      BY <3>1 DEF Executed
    <3>4. b.objects \ {st.name} = O1
      BY <1>4, <1>5, <1>8, <1>9, <2>2, <3>1
    <3> QED
      BY <1>9, <3>1, <3>2, <3>3, <3>4 DEF Accepted
  <2> QED
    BY <2>1, <2>2
<1>12. Executed(b, st, 0) = AtDowngrade(i, col, rec) /\ ~ b.raised
  BY <1>9, <1>10, <1>11
<1> QED
  BY <1>1, <1>2, <1>11, <1>12 DEF AfterStatement

\* downgrade on a database with the whole schema leaves an empty one.
LEMMA DowngradeEmpties ==
    ASSUME NEW d, d.objects = Whole
    PROVE  /\ ~ Run(d, downgrade, 0).raised
           /\ Run(d, downgrade, 0).objects = {}
           /\ Run(d, downgrade, 0).column = 0
           /\ Run(d, downgrade, 0).recorded = 0
<1>1. PICK col, rec : col = d.column /\ rec = d.recorded
  OBVIOUS
<1>2. PICK g : g = [i \in 0 .. 30 |-> AtDowngrade(i, col, rec)]
  OBVIOUS
<1>3. \A i \in 0 .. 30 : g[i] = AtDowngrade(i, col, rec)
  BY <1>2
<1>4. g = [i \in 0 .. 30 |-> g[i]]
  BY <1>2
<1>5. Len(downgrade) = 30
  BY DowngradeIsReverse
<1>6. g[0] = Started(d)
  <2>1. AtDowngrade(0, col, rec) =
           [objects |-> Names(29) \cup Enums, column |-> col, recorded |-> rec,
            memo |-> {}, raised |-> FALSE]
    BY DEF AtDowngrade
  <2>2. Started(d) = [objects |-> Whole, column |-> col, recorded |-> rec, memo |-> {},
                      raised |-> FALSE]
    BY <1>1 DEF Started
  <2>3. 0 \in 0 .. 30
    OBVIOUS
  <2> QED
    BY <1>3, <2>1, <2>2, <2>3, NeedsOfObjects
<1>7. ASSUME NEW i \in 1 .. 30 PROVE g[i] = AfterStatement(g[i - 1], downgrade[i], 0)
  <2>1. i \in 0 .. 30 /\ i - 1 \in 0 .. 30 /\ (i \in 1 .. 27 \/ i \in 28 .. 30)
    OBVIOUS
  <2> QED
    BY <1>3, <2>1, TablesGo, TypesGo
<1>8. IsTrace(g, d, downgrade, 0)
  BY <1>4, <1>5, <1>6, <1>7 DEF IsTrace
<1>9. Run(d, downgrade, 0) = AtDowngrade(30, col, rec)
  <2>1. Len(downgrade) \in Nat
    BY <1>5
  <2>2. Run(d, downgrade, 0) = g[Len(downgrade)]
    BY <1>8, <2>1, RunOfTrace
  <2>3. 30 \in 0 .. 30
    OBVIOUS
  <2> QED
    BY <1>3, <1>5, <2>2, <2>3
<1>10. AtDowngrade(30, col, rec) =
          [objects |-> Names(0), column |-> 0, recorded |-> 0, memo |-> {}, raised |-> FALSE]
  BY DEF AtDowngrade
<1> QED
  BY <1>9, <1>10, NamesGrow

\* upgrade and downgrade invert each other, whatever dimensions the operator
\* chooses and however often they are run.
THEOREM MigrationsInverse == ServiceSpec => []MigrationsInvert
<1>1. ServiceInit => MigrationsInvert
  BY DEF ServiceInit, MigrationsInvert
<1>2. MigrationsInvert /\ [ServiceNext]_serviceVars => MigrationsInvert'
  <2> SUFFICES ASSUME MigrationsInvert, [ServiceNext]_serviceVars PROVE MigrationsInvert'
    OBVIOUS
  <2>1. CASE \E dim \in Dimensions : Upgrade(dim)
    <3>1. PICK dim \in Dimensions : Upgrade(dim)
      BY <2>1
    <3>2. PICK run : run = Run(Empty, upgrade, dim)
      OBVIOUS
    <3>3. db = Empty
      BY <3>1 DEF Upgrade, MigrationsInvert
    <3>4. db' = Migrated(db, run) /\ raised' = run.raised /\ (~ run.raised => revision' = "0001")
      BY <3>1, <3>2, <3>3 DEF Upgrade, Migrate
    <3>5. ~ run.raised /\ run.objects = Whole /\ run.column = dim /\ run.recorded = dim
      BY <3>2, UpgradeBuilds
    <3>6. db' = [objects |-> run.objects, column |-> run.column, recorded |-> run.recorded]
      BY <3>4, <3>5 DEF Migrated
    <3>7. db'.objects = Whole /\ db'.recorded = db'.column
      BY <3>5, <3>6
    <3>8. ~ raised' /\ revision' = "0001"
      BY <3>4, <3>5
    <3> QED
      BY <3>7, <3>8 DEF MigrationsInvert
  <2>2. CASE Downgrade
    <3>1. PICK run : run = Run(db, downgrade, 0)
      OBVIOUS
    <3>2. db.objects = Whole
      BY <2>2 DEF Downgrade, MigrationsInvert
    <3>3. db' = Migrated(db, run) /\ raised' = run.raised /\ (~ run.raised => revision' = "")
      BY <2>2, <3>1 DEF Downgrade, Migrate
    <3>4. ~ run.raised /\ run.objects = {} /\ run.column = 0 /\ run.recorded = 0
      BY <3>1, <3>2, DowngradeEmpties
    <3>5. db' = [objects |-> {}, column |-> 0, recorded |-> 0]
      BY <3>3, <3>4 DEF Migrated
    <3> QED
      BY <3>3, <3>4, <3>5 DEF MigrationsInvert, Empty
  <2>3. CASE UNCHANGED database
    BY <2>3 DEF database, MigrationsInvert
  <2>4. \/ \E dim \in Dimensions : Upgrade(dim)
        \/ Downgrade
        \/ UNCHANGED database
    BY DEF ServiceNext, serviceVars, database, create_app, verify_schema_config,
           Serve, Stop, WriteEmbedding,
           Request, Answered, Readyz, ReadyzReturns,
           HealthChanges, Proceed, Breaks, Timeout, Drained, ProbeGoes, process
  <2> QED
    BY <2>1, <2>2, <2>3, <2>4
<1> QED
  BY <1>1, <1>2, PTL DEF ServiceSpec

----------------------------------------------------------------------------
(* Embeddings after verify_schema_config *)

\* Only a process that is up has verified the schema or written; and what it
\* verified is still what the database records.
VerifiedInv ==
    /\ revision \in {"", "0001"}
    /\ phase \in {"down", "created"} => ~ verified /\ ~ refused
    /\ verified => ~ refused /\ dimension_matches(settings)

\* The column has the recorded dimension, whichever revision the database is
\* at.
LEMMA ColumnIsRecorded ==
    ASSUME VerifiedInv, MigrationsInvert
    PROVE  db.column = db.recorded
  <1>1. CASE revision = ""
    <2>1. db = Empty
      BY <1>1 DEF MigrationsInvert
    <2>2. Empty.column = 0 /\ Empty.recorded = 0
      BY DEF Empty
    <2> QED
      BY <2>1, <2>2
  <1>2. CASE revision = "0001"
    BY <1>2 DEF MigrationsInvert
  <1> QED
    BY <1>1, <1>2 DEF VerifiedInv

\* Every step keeps VerifiedInv, as long as the migrations invert each other.
LEMMA VerifiedStep ==
    VerifiedInv /\ MigrationsInvert /\ [ServiceNext]_serviceVars => VerifiedInv'
  <1> SUFFICES ASSUME VerifiedInv, MigrationsInvert, [ServiceNext]_serviceVars
               PROVE  VerifiedInv'
    OBVIOUS
  <1> USE DEF VerifiedInv, dimension_matches
  <1>1. ASSUME NEW script, NEW dim, NEW to \in {"", "0001"}, Migrate(script, dim, to)
        PROVE  VerifiedInv'
    BY <1>1 DEF Migrate
  <1>2. ASSUME NEW dim \in Dimensions, Upgrade(dim)
        PROVE  VerifiedInv'
    BY <1>1, <1>2 DEF Upgrade
  <1>3. CASE Downgrade
    BY <1>1, <1>3 DEF Downgrade
  <1>4. ASSUME NEW environment \in Environments, create_app(environment)
        PROVE  VerifiedInv'
    BY <1>4 DEF create_app, database
  <1>5. CASE verify_schema_config
    BY <1>5 DEF verify_schema_config, database
  <1>6. CASE Serve
    BY <1>6 DEF Serve, database, process
  <1>7. CASE Stop
    BY <1>7 DEF Stop, database
  <1>8. CASE WriteEmbedding
    BY <1>8, ColumnIsRecorded DEF WriteEmbedding, database
  <1>9. ASSUME NEW key \in BOOLEAN, NEW outcome \in Outcomes, Request(key, outcome)
        PROVE  VerifiedInv'
    BY <1>9 DEF Request, database, process
  <1>10. CASE Answered
    BY <1>10 DEF Answered, database, process
  <1>11. ASSUME NEW state \in [Dependencies -> {"up", "down", "hung"}], Readyz(state)
         PROVE  VerifiedInv'
    BY <1>11 DEF Readyz, database, process
  <1>12. ASSUME NEW d \in Dependencies,
                \/ \E state \in {"up", "down", "hung"} : HealthChanges(d, state)
                \/ Proceed(d)
                \/ Breaks(d)
                \/ Timeout(d)
                \/ Drained(d)
         PROVE  VerifiedInv'
    <2>1. UNCHANGED <<database, phase, process>>
      BY <1>12 DEF HealthChanges, Proceed, Breaks, Timeout, Drained, ProbeGoes
    <2> QED
      BY <2>1 DEF database, process
  <1>13. CASE ReadyzReturns
    BY <1>13 DEF ReadyzReturns, database, process
  <1>14. CASE UNCHANGED serviceVars
    BY <1>14 DEF serviceVars, database, process
  <1> QED
    BY <1>2, <1>3, <1>4, <1>5, <1>6, <1>7, <1>8, <1>9, <1>10, <1>11, <1>12, <1>13, <1>14
       DEF ServiceNext

\* After verify_schema_config no embedding is refused for its dimension: the
\* recorded dimension is the column's because the migrations invert each other.
THEOREM VerifiedWritesStayFit == ServiceSpec => []VerifiedWritesFit
  <1>1. ServiceInit => VerifiedInv
    BY DEF ServiceInit, VerifiedInv
  <1>2. VerifiedInv => VerifiedWritesFit
    BY DEF VerifiedInv, VerifiedWritesFit
  <1> QED
    BY <1>1, <1>2, VerifiedStep, MigrationsInverse, PTL DEF ServiceSpec
=============================================================================
