----------------------------- MODULE TagsProofs -----------------------------
(***************************************************************************)
(* Proofs about Tags, for any number of sessions, positions, field keys,   *)
(* field lists and versions.                                               *)
(*                                                                         *)
(* Three layers.  LockInv: whoever wrote the tags row holds it, has the    *)
(* next version number, and is the only one that has.  HistoryInv: while   *)
(* no unguarded transaction has committed, each version had one list, and  *)
(* the tag has the list of its version.  GuardInv: a transaction that      *)
(* bumped first has the committed fields in hand until its commit, and     *)
(* freezes nothing but them and its own.  It gives the three properties.   *)
(***************************************************************************)
EXTENDS Tags, TLAPS

\* The transaction has written the tags row.
Bumped(s) == reg[s].bumped # 0

\* The row lock of tags: one transaction at a time has a version number, and
\* it is the next one.
HoldsLock(s) ==
    /\ Bumped(s) <=> writer = s
    /\ Bumped(s) => reg[s].bumped = version + 1 /\ reg[s].number > 0
    /\ ~ Bumped(s) => reg[s].number = 0

\* What the points of a transaction tell about it.
PointIsSound(s) ==
    /\ pc[s] = "idle" => reg[s] = Fresh
    /\ pc[s] \in {"created", "bumped", "changed", "conflict"} => Bumped(s)
    /\ pc[s] \in {"idle", "loaded"} => ~ Bumped(s) /\ reg[s].frozen = {}
    /\ pc[s] \in {"idle", "loaded", "created", "bumped"} => ~ reg[s].early
    /\ pc[s] \in {"delete", "insert"} => Bumped(s) \/ reg[s].early
    /\ pc[s] = "replaced" => ~ Bumped(s) /\ reg[s].early
    /\ pc[s] = "created" => version = 0
    /\ pc[s] \in {"idle", "loaded", "bumped", "delete", "created"} => reg[s].deleted = {}
    /\ pc[s] \in {"idle", "loaded", "bumped", "delete", "insert"} => reg[s].inserted = {}

\* Before there is a tag, it has no fields, and all a session can do is to
\* create it.
TagComesFirst ==
    version = 0 =>
        /\ fields = {}
        /\ \A s \in Sessions : pc[s] \in {"idle", "created", "conflict"}

LockInv ==
    /\ TypeOK
    /\ \A s \in Sessions : HoldsLock(s) /\ PointIsSound(s)
    /\ TagComesFirst

\* The rows are of one write.
OneWrite(rows) == \A q, r \in rows : q.write = r.write

\* Each version up to the tag's had one list, and the tag has its version's.
HistoryIsOne ==
    /\ \A f \in was : f[1] \in 1 .. version
    /\ \A f, g \in was : f[1] = g[1] => f = g
    /\ version > 0 => <<version, ListOf(fields)>> \in was

\* Until an unguarded transaction commits, the committed state is sound.
HistoryInv == ~ unguarded => HistoryIsOne /\ OneWrite(fields) /\ snapshots \subseteq was

\* What a transaction may freeze: the outgoing version with the committed
\* fields, the new one with those it has listed.
Freezable(s) ==
    {f \in {<<version, ListOf(fields)>>} : version > 0}
        \cup {f \in {<<reg[s].bumped, reg[s].listed>>} : pc[s] \in {"created", "changed"}}

\* A transaction that has not replaced before it bumped, and knows the number
\* it wrote, has the committed fields in hand.
Guarded(s) ==
    ~ reg[s].early /\ reg[s].number = reg[s].bumped =>
        /\ pc[s] = "delete" => reg[s].hit = fields
        /\ pc[s] \in {"insert", "changed"} => reg[s].deleted = fields
        /\ pc[s] \in {"created", "changed"} =>
              /\ OneWrite(reg[s].inserted)
              /\ reg[s].listed = ListOf(reg[s].inserted)
        /\ pc[s] # "conflict" => reg[s].frozen \subseteq Freezable(s)

GuardInv == LockInv /\ HistoryInv /\ (~ unguarded => \A s \in Sessions : Guarded(s))

----------------------------------------------------------------------------
(* Field lists *)

\* The rows written for a list: what a field becomes, and back.
LEMMA RowsOfList ==
    ASSUME NEW l \in Lists, NEW n \in 1 .. MaxWrites
    PROVE  /\ RowsOf(l, n) \in SUBSET TagField
           /\ OneWrite(RowsOf(l, n))
           /\ ListOf(RowsOf(l, n)) = l
<1>1. \A f \in l : /\ f[1] \in Positions /\ f[2] \in Keys
                   /\ f = <<f[1], f[2]>>
  BY DEF Lists, Listing
<1>2. RowsOf(l, n) \in SUBSET TagField
  BY <1>1 DEF RowsOf, TagField
<1>3. OneWrite(RowsOf(l, n))
  BY DEF RowsOf, OneWrite
<1>4. ListOf(RowsOf(l, n)) = l
  <2>1. ASSUME NEW f \in l PROVE f \in ListOf(RowsOf(l, n))
    <3> DEFINE r == [position |-> f[1], key |-> f[2], write |-> n]
    <3>1. r \in RowsOf(l, n)
      BY DEF RowsOf
    <3>2. f = <<r.position, r.key>>
      BY <1>1
    <3> HIDE DEF r
    <3> QED
      BY <3>1, <3>2 DEF ListOf
  <2>2. ASSUME NEW f \in ListOf(RowsOf(l, n)) PROVE f \in l
    <3>1. PICK r \in RowsOf(l, n) : f = <<r.position, r.key>>
      BY DEF ListOf
    <3>2. PICK g \in l : r = [position |-> g[1], key |-> g[2], write |-> n]
      BY DEF RowsOf
    <3> QED
      BY <1>1, <3>1, <3>2
  <2> QED
    BY <2>1, <2>2
<1> QED
  BY <1>2, <1>3, <1>4

\* The list of rows is a set of pairs.
LEMMA ListOfType ==
    ASSUME NEW rows \in SUBSET TagField
    PROVE  ListOf(rows) \in Listing
BY DEF ListOf, TagField, Listing

----------------------------------------------------------------------------
(* What an action does to the local state of its session *)

\* The type of the local state, as TypeOK has it.
Regs == [known : Nat, bumped : Nat, number : Nat, hit : SUBSET TagField,
         deleted : SUBSET TagField, inserted : SUBSET TagField,
         listed : Listing, frozen : SUBSET (Nat \X Listing), early : BOOLEAN]

Points == {"idle", "loaded", "created", "bumped", "delete", "insert",
           "replaced", "changed", "conflict"}

\* Session s goes to a point, the others stay.
Moves(s, point) ==
    /\ pc' \in [Sessions -> Points] /\ reg' \in [Sessions -> Regs]
    /\ pc'[s] = point
    /\ \A t \in Sessions : t # s => pc'[t] = pc[t] /\ reg'[t] = reg[t]

\* An assignment to the local state of one session.
LEMMA MoveForm ==
    ASSUME TypeOK, NEW s \in Sessions, NEW point \in Points, NEW r \in Regs,
           pc' = [pc EXCEPT ![s] = point], reg' = [reg EXCEPT ![s] = r]
    PROVE  Moves(s, point) /\ reg'[s] = r
BY DEF TypeOK, Moves, Points, Regs

\* A session has its local state, and what it sees are rows.
LEMMA RegType ==
    ASSUME TypeOK, NEW s \in Sessions
    PROVE  /\ reg[s] \in Regs /\ pc[s] \in Points
           /\ View(s) \in SUBSET TagField
           /\ Fresh \in Regs
BY DEF TypeOK, Regs, Points, View, Fresh, Listing

\* create gives the session a first version and its rows.
LEMMA CreateForm ==
    ASSUME TypeOK, NEW s \in Sessions, NEW list \in Lists, create(s, list)
    PROVE  /\ Moves(s, "created")
           /\ reg'[s] = [reg[s] EXCEPT !.bumped = 1, !.number = 1, !.listed = list,
                                       !.inserted = RowsOf(list, writes + 1)]
           /\ writes' \in 1 .. MaxWrites /\ RowsOf(list, writes + 1) \in SUBSET TagField
<1> DEFINE rows == RowsOf(list, writes + 1)
           r == [reg[s] EXCEPT !.bumped = 1, !.number = 1, !.listed = list,
                               !.inserted = rows]
<1>1. writes + 1 \in 1 .. MaxWrites /\ writes' = writes + 1
  BY TagsAssumption DEF create, TypeOK
<1>2. rows \in SUBSET TagField /\ list \in Listing
  BY <1>1, RowsOfList DEF Lists
<1> HIDE DEF rows
<1>3. r \in Regs
  BY <1>2, RegType DEF Regs
<1>4. reg' = [reg EXCEPT ![s] = r]
  BY DEF create, TypeOK, rows
<1> HIDE DEF r
<1>5. pc' = [pc EXCEPT ![s] = "created"] /\ "created" \in Points
  BY DEF create, Goto, Points
<1>6. Moves(s, "created") /\ reg'[s] = r
  BY <1>3, <1>4, <1>5, MoveForm
<1> QED
  BY <1>1, <1>2, <1>6 DEF rows, r

\* Reading the tag.
LEMMA LoadForm ==
    ASSUME TypeOK, NEW s \in Sessions, Load(s)
    PROVE  Moves(s, "loaded") /\ reg'[s] = [reg[s] EXCEPT !.known = version]
<1> DEFINE r == [reg[s] EXCEPT !.known = version]
<1>1. r \in Regs
  BY RegType DEF Regs, TypeOK
<1>2. reg' = [reg EXCEPT ![s] = r]
  BY DEF Load, TypeOK
<1> HIDE DEF r
<1>3. pc' = [pc EXCEPT ![s] = "loaded"] /\ "loaded" \in Points
  BY DEF Load, Goto, Points
<1>4. Moves(s, "loaded") /\ reg'[s] = r
  BY <1>1, <1>2, <1>3, MoveForm
<1> QED
  BY <1>4 DEF r

\* bump_version writes the next version and returns a number, which need not
\* be that version.
LEMMA BumpForm ==
    ASSUME TypeOK, NEW s \in Sessions, bump_version(s)
    PROVE  /\ Moves(s, IF pc[s] = "replaced" THEN "changed" ELSE "bumped")
           /\ \E n \in Nat :
                 /\ n > 0
                 /\ reg'[s] = [reg[s] EXCEPT !.bumped = version + 1, !.number = n]
<1> DEFINE point == IF pc[s] = "replaced" THEN "changed" ELSE "bumped"
<1>1. PICK n \in Returned(s) :
         reg' = [reg EXCEPT ![s].bumped = version + 1, ![s].number = n]
  BY DEF bump_version
<1> DEFINE r == [reg[s] EXCEPT !.bumped = version + 1, !.number = n]
<1>2. version + 1 \in Nat /\ reg[s].known \in Nat
  BY RegType DEF TypeOK, Regs
<1>3. n \in Nat /\ n > 0
  BY <1>2 DEF Returned, TypeOK
<1>4. r \in Regs
  BY <1>2, <1>3, RegType DEF Regs
<1>5. reg' = [reg EXCEPT ![s] = r]
  BY <1>1 DEF TypeOK
<1> HIDE DEF r
<1>6. pc' = [pc EXCEPT ![s] = point] /\ point \in Points
  BY DEF bump_version, Goto, Points
<1> HIDE DEF point
<1>7. Moves(s, point) /\ reg'[s] = r
  BY <1>4, <1>5, <1>6, MoveForm
<1> QED
  BY <1>3, <1>7 DEF point, r

\* The snapshot of the DELETE.
LEMMA FindForm ==
    ASSUME TypeOK, NEW s \in Sessions, FindFields(s)
    PROVE  /\ Moves(s, "delete")
           /\ reg'[s] = [reg[s] EXCEPT !.hit = View(s), !.early = (reg[s].bumped = 0)]
<1> DEFINE r == [reg[s] EXCEPT !.hit = View(s), !.early = (reg[s].bumped = 0)]
<1>1. r \in Regs
  BY RegType DEF Regs
<1>2. reg' = [reg EXCEPT ![s] = r]
  BY DEF FindFields, TypeOK
<1> HIDE DEF r
<1>3. pc' = [pc EXCEPT ![s] = "delete"] /\ "delete" \in Points
  BY DEF FindFields, Goto, Points
<1>4. Moves(s, "delete") /\ reg'[s] = r
  BY <1>1, <1>2, <1>3, MoveForm
<1> QED
  BY <1>4 DEF r

\* The DELETE.
LEMMA DeleteForm ==
    ASSUME TypeOK, NEW s \in Sessions, DeleteFields(s)
    PROVE  /\ Moves(s, "insert")
           /\ reg'[s] = [reg[s] EXCEPT !.deleted = reg[s].hit \cap fields, !.hit = {}]
<1> DEFINE r == [reg[s] EXCEPT !.deleted = reg[s].hit \cap fields, !.hit = {}]
<1>1. reg[s].hit \cap fields \in SUBSET TagField
  BY DEF TypeOK
<1>2. r \in Regs
  BY <1>1, RegType DEF Regs
<1>3. reg' = [reg EXCEPT ![s] = r]
  BY DEF DeleteFields, TypeOK
<1> HIDE DEF r
<1>4. pc' = [pc EXCEPT ![s] = "insert"] /\ "insert" \in Points
  BY DEF DeleteFields, Goto, Points
<1>5. Moves(s, "insert") /\ reg'[s] = r
  BY <1>2, <1>3, <1>4, MoveForm
<1> QED
  BY <1>5 DEF r

\* _write_fields
LEMMA InsertForm ==
    ASSUME TypeOK, NEW s \in Sessions, NEW list \in Lists, InsertFields(s, list)
    PROVE  /\ Moves(s, IF reg[s].bumped = 0 THEN "replaced" ELSE "changed")
           /\ reg'[s] = [reg[s] EXCEPT !.inserted = RowsOf(list, writes + 1),
                                       !.listed = Listed(s, RowsOf(list, writes + 1))]
           /\ writes' \in 1 .. MaxWrites /\ OneWrite(RowsOf(list, writes + 1))
           /\ RowsOf(list, writes + 1) \in SUBSET TagField
           /\ Listed(s, RowsOf(list, writes + 1)) \in Listing
<1> DEFINE rows == RowsOf(list, writes + 1)
           r == [reg[s] EXCEPT !.inserted = rows, !.listed = Listed(s, rows)]
           point == IF reg[s].bumped = 0 THEN "replaced" ELSE "changed"
<1>1. writes + 1 \in 1 .. MaxWrites /\ writes' = writes + 1
  BY TagsAssumption DEF InsertFields, TypeOK
<1>2. rows \in SUBSET TagField /\ OneWrite(rows)
  BY <1>1, RowsOfList
<1> HIDE DEF rows
<1>3. Listed(s, rows) \in Listing
  <2>1. View(s) \cup rows \in SUBSET TagField
    BY <1>2, RegType
  <2> QED
    BY <2>1, ListOfType DEF Listed
<1>4. r \in Regs
  BY <1>2, <1>3, RegType DEF Regs
<1>5. reg' = [reg EXCEPT ![s] = r]
  BY DEF InsertFields, TypeOK, rows
<1> HIDE DEF r
<1>6. pc' = [pc EXCEPT ![s] = point] /\ point \in Points
  BY DEF InsertFields, Goto, Points
<1> HIDE DEF point
<1>7. Moves(s, point) /\ reg'[s] = r
  BY <1>4, <1>5, <1>6, MoveForm
<1> QED
  BY <1>1, <1>2, <1>3, <1>7 DEF point, rows, r

\* snapshot: a conflict, or one more row.
LEMMA SnapshotForm ==
    ASSUME TypeOK, NEW s \in Sessions, NEW n \in Nat, NEW list \in Listing,
           snapshot(s, n, list)
    PROVE  \/ Moves(s, "conflict") /\ reg'[s] = reg[s]
           \/ /\ Moves(s, pc[s])
              /\ reg'[s] = [reg[s] EXCEPT !.frozen = @ \cup {<<n, list>>}]
<1> DEFINE r == [reg[s] EXCEPT !.frozen = @ \cup {<<n, list>>}]
<1>1. CASE \E f \in snapshots \cup reg[s].frozen : f[1] = n
  <2>1. pc' = [pc EXCEPT ![s] = "conflict"] /\ "conflict" \in Points
    BY <1>1 DEF snapshot, Goto, Points
  <2>2. reg' = [reg EXCEPT ![s] = reg[s]]
    BY <1>1 DEF snapshot, TypeOK
  <2> QED
    BY <2>1, <2>2, RegType, MoveForm
<1>2. CASE ~ \E f \in snapshots \cup reg[s].frozen : f[1] = n
  <2>1. r \in Regs
    BY RegType DEF Regs
  <2>2. reg' = [reg EXCEPT ![s] = r]
    BY <1>2 DEF snapshot, TypeOK
  <2> HIDE DEF r
  <2>3. pc' = [pc EXCEPT ![s] = pc[s]]
    BY <1>2 DEF snapshot, TypeOK
  <2>4. Moves(s, pc[s]) /\ reg'[s] = r
    BY <2>1, <2>2, <2>3, RegType, MoveForm
  <2> QED
    BY <2>4 DEF r
<1> QED
  BY <1>1, <1>2

\* The end of a transaction.
LEMMA CloseForm ==
    ASSUME TypeOK, NEW s \in Sessions, Close(s)
    PROVE  Moves(s, "idle") /\ reg'[s] = Fresh
<1>1. pc' = [pc EXCEPT ![s] = "idle"] /\ reg' = [reg EXCEPT ![s] = Fresh] /\ "idle" \in Points
  BY DEF Close, Goto, Points
<1> QED
  BY <1>1, RegType, MoveForm

----------------------------------------------------------------------------
(* The row lock and the points of a transaction *)

\* What LockInv says of one session.
Own(s) == HoldsLock(s) /\ PointIsSound(s)

\* A step of one session keeps LockInv when the session's own part holds
\* afterwards, the lock is not taken from another, and the counter goes on only
\* while no other has written the tags row.
LEMMA LockStep ==
    ASSUME LockInv, NEW s \in Sessions, NEW point, Moves(s, point), Own(s)',
           writer' = writer \/ (TagUnlocked(s) /\ writer' \in {s, None}),
           version' = version \/ (Bumped(s) /\ version' = version + 1),
           version' = 0 => fields' = {} /\ point \in {"idle", "created", "conflict"},
           fields' \in SUBSET TagField, snapshots' \in SUBSET (Nat \X Listing),
           was' \in SUBSET (Nat \X Listing), writes' \in 0 .. MaxWrites,
           unguarded' \in BOOLEAN
    PROVE  LockInv'
<1>t. TypeOK /\ version \in Nat /\ writer \in Sessions \cup {None}
  BY DEF LockInv, TypeOK
<1>1. TypeOK'
  BY <1>t DEF TypeOK, Moves, Regs, Points
<1>2. ASSUME NEW t \in Sessions, t # s PROVE Own(t)'
  <2>1. pc'[t] = pc[t] /\ reg'[t] = reg[t] /\ Own(t)
    BY <1>2 DEF Moves, LockInv, Own
  <2>2. writer' = t <=> writer = t
    BY <1>2, TagsAssumption DEF TagUnlocked
  <2>3. Bumped(t) => version' = version
    <3>1. Bumped(t) => writer = t
      BY <2>1 DEF Own, HoldsLock
    <3>2. Bumped(s) => writer = s
      BY DEF LockInv, HoldsLock
    <3> QED
      BY <1>2, <3>1, <3>2
  <2> QED
    BY <2>1, <2>2, <2>3 DEF Own, HoldsLock, PointIsSound, Bumped
<1>3. \A t \in Sessions : Own(t)'
  BY <1>2
<1>4. TagComesFirst'
  <2> SUFFICES ASSUME version' = 0
               PROVE  fields' = {} /\ \A t \in Sessions : pc'[t] \in {"idle", "created", "conflict"}
    BY DEF TagComesFirst
  <2>1. version = 0
    BY <1>t
  <2>2. \A t \in Sessions : pc[t] \in {"idle", "created", "conflict"}
    BY <2>1 DEF LockInv, TagComesFirst
  <2> QED
    BY <2>2 DEF Moves
<1> QED
  BY <1>1, <1>3, <1>4 DEF LockInv, Own

\* No tag, no transaction, no snapshot.
LEMMA InitLock == Init => LockInv
<1> SUFFICES ASSUME Init PROVE LockInv
  OBVIOUS
<1>1. Fresh \in Regs
  BY DEF Regs, Fresh, Listing
<1>2. TypeOK
  <2>1. pc \in [Sessions -> Points] /\ reg \in [Sessions -> Regs]
    BY <1>1 DEF Init, Points
  <2>2. unguarded \in BOOLEAN
    BY DEF Init
  <2> QED
    BY <2>1, <2>2, TagsAssumption DEF Init, TypeOK, Regs, Points
<1>3. \A s \in Sessions : HoldsLock(s) /\ PointIsSound(s)
  BY TagsAssumption DEF Init, HoldsLock, PointIsSound, Bumped, Fresh
<1>4. TagComesFirst
  BY DEF Init, TagComesFirst
<1> QED
  BY <1>2, <1>3, <1>4 DEF LockInv

\* Every step keeps LockInv.
LEMMA NextLock == LockInv /\ [Next]_vars => LockInv'
<1> SUFFICES ASSUME LockInv, [Next]_vars PROVE LockInv'
  OBVIOUS
<1>t. TypeOK /\ version \in Nat /\ \A s \in Sessions : Own(s) /\ reg[s] \in Regs
  BY RegType DEF LockInv, TypeOK, Own
<1>0. CASE UNCHANGED vars
  BY <1>0 DEF vars, LockInv, TypeOK, HoldsLock, PointIsSound, TagComesFirst, Bumped
<1>1. ASSUME NEW s \in Sessions, NEW list \in Lists, create(s, list)
      PROVE  LockInv'
  <2>1. /\ Moves(s, "created")
        /\ reg'[s] = [reg[s] EXCEPT !.bumped = 1, !.number = 1, !.listed = list,
                                    !.inserted = RowsOf(list, writes + 1)]
        /\ writes' \in 1 .. MaxWrites
    BY <1>1, <1>t, CreateForm
  <2>2. /\ pc[s] = "idle" /\ version = 0 /\ TagUnlocked(s) /\ writer' = s
        /\ UNCHANGED <<version, fields, snapshots, was, unguarded>>
    BY <1>1 DEF create
  <2>3. reg[s].deleted = {} /\ ~ reg[s].early
    BY <1>t, <2>2 DEF Own, PointIsSound
  <2>4. Own(s)'
    BY <1>t, <2>1, <2>2, <2>3 DEF Own, HoldsLock, PointIsSound, Bumped, Moves, Regs
  <2>5. fields = {} /\ writes' \in 0 .. MaxWrites
    BY <2>1, <2>2, TagsAssumption DEF LockInv, TagComesFirst
  <2> QED
    BY <1>t, <2>1, <2>2, <2>4, <2>5, LockStep DEF TypeOK
<1>2. ASSUME NEW s \in Sessions, Load(s)
      PROVE  LockInv'
  <2>1. Moves(s, "loaded") /\ reg'[s] = [reg[s] EXCEPT !.known = version]
    BY <1>2, <1>t, LoadForm
  <2>2. /\ pc[s] = "idle" /\ version > 0
        /\ UNCHANGED <<version, fields, snapshots, writer, writes, was, unguarded>>
    BY <1>2 DEF Load
  <2>3. Own(s)'
    BY <1>t, <2>1, <2>2 DEF Own, HoldsLock, PointIsSound, Bumped, Moves, Regs
  <2> QED
    BY <1>t, <2>1, <2>2, <2>3, LockStep DEF TypeOK
<1>3. ASSUME NEW s \in Sessions, bump_version(s)
      PROVE  LockInv'
  <2> DEFINE point == IF pc[s] = "replaced" THEN "changed" ELSE "bumped"
  <2>1. PICK n \in Nat : /\ n > 0
                         /\ reg'[s] = [reg[s] EXCEPT !.bumped = version + 1, !.number = n]
    BY <1>3, <1>t, BumpForm
  <2>2. Moves(s, point)
    BY <1>3, <1>t, BumpForm
  <2>3. /\ pc[s] \in {"idle", "loaded", "replaced"} /\ version > 0
        /\ TagUnlocked(s) /\ writer' = s
        /\ UNCHANGED <<version, fields, snapshots, writes, was, unguarded>>
    BY <1>3, <1>t DEF bump_version
  <2>4. /\ point \in {"bumped", "changed"}
        /\ point = "bumped" =>
              ~ reg[s].early /\ reg[s].deleted = {} /\ reg[s].inserted = {}
    BY <1>t, <2>3 DEF Own, PointIsSound
  <2> HIDE DEF point
  <2>5. Own(s)'
    BY <1>t, <2>1, <2>2, <2>3, <2>4 DEF Own, HoldsLock, PointIsSound, Bumped, Moves, Regs
  <2> QED
    BY <1>t, <2>2, <2>3, <2>5, LockStep DEF TypeOK
<1>4. ASSUME NEW s \in Sessions, FindFields(s)
      PROVE  LockInv'
  <2>1. /\ Moves(s, "delete")
        /\ reg'[s] = [reg[s] EXCEPT !.hit = View(s), !.early = (reg[s].bumped = 0)]
    BY <1>4, <1>t, FindForm
  <2>2. /\ pc[s] \in {"idle", "loaded", "bumped"} /\ version > 0
        /\ UNCHANGED <<version, fields, snapshots, writer, writes, was, unguarded>>
    BY <1>4 DEF FindFields
  <2>3. Own(s)'
    BY <1>t, <2>1, <2>2 DEF Own, HoldsLock, PointIsSound, Bumped, Moves, Regs
  <2> QED
    BY <1>t, <2>1, <2>2, <2>3, LockStep DEF TypeOK
<1>5. ASSUME NEW s \in Sessions, DeleteFields(s)
      PROVE  LockInv'
  <2>1. /\ Moves(s, "insert")
        /\ reg'[s] = [reg[s] EXCEPT !.deleted = reg[s].hit \cap fields, !.hit = {}]
    BY <1>5, <1>t, DeleteForm
  <2>2. /\ pc[s] = "delete"
        /\ UNCHANGED <<version, fields, snapshots, writer, writes, was, unguarded>>
    BY <1>5 DEF DeleteFields
  <2>3. version # 0
    BY <2>2 DEF LockInv, TagComesFirst
  <2>4. Own(s)'
    BY <1>t, <2>1, <2>2 DEF Own, HoldsLock, PointIsSound, Bumped, Moves, Regs
  <2> QED
    BY <1>t, <2>1, <2>2, <2>3, <2>4, LockStep DEF TypeOK
<1>6. ASSUME NEW s \in Sessions, NEW list \in Lists, InsertFields(s, list)
      PROVE  LockInv'
  <2> DEFINE point == IF reg[s].bumped = 0 THEN "replaced" ELSE "changed"
             rows == RowsOf(list, writes + 1)
  <2>1. /\ Moves(s, point)
        /\ reg'[s] = [reg[s] EXCEPT !.inserted = rows, !.listed = Listed(s, rows)]
        /\ writes' \in 1 .. MaxWrites
    BY <1>6, <1>t, InsertForm
  <2>2. pc[s] = "insert" /\ UNCHANGED <<version, fields, snapshots, writer, was, unguarded>>
    BY <1>6 DEF InsertFields
  <2>3. version # 0 /\ writes' \in 0 .. MaxWrites
    BY <2>1, <2>2, TagsAssumption DEF LockInv, TagComesFirst
  <2> HIDE DEF rows
  <2>4. Own(s)'
    BY <1>t, <2>1, <2>2 DEF Own, HoldsLock, PointIsSound, Bumped, Moves, Regs
  <2> QED
    BY <1>t, <2>1, <2>2, <2>3, <2>4, LockStep DEF TypeOK
<1>7. ASSUME NEW s \in Sessions, NEW n \in Nat, NEW list \in Listing, snapshot(s, n, list),
             pc[s] \in {"created", "bumped", "changed"}
      PROVE  LockInv'
  <2>1. UNCHANGED <<version, fields, snapshots, writer, writes, was, unguarded>>
    BY <1>7 DEF snapshot
  <2>2. version = 0 => fields = {} /\ pc[s] = "created"
    BY <1>7 DEF LockInv, TagComesFirst
  <2>3. CASE Moves(s, "conflict") /\ reg'[s] = reg[s]
    <3>1. Own(s)'
      BY <1>7, <1>t, <2>1, <2>3 DEF Own, HoldsLock, PointIsSound, Bumped, Moves
    <3> QED
      BY <1>t, <2>1, <2>2, <2>3, <3>1, LockStep DEF TypeOK
  <2>4. CASE /\ Moves(s, pc[s])
             /\ reg'[s] = [reg[s] EXCEPT !.frozen = @ \cup {<<n, list>>}]
    <3>1. Own(s)'
      BY <1>7, <1>t, <2>1, <2>4 DEF Own, HoldsLock, PointIsSound, Bumped, Moves, Regs
    <3> QED
      BY <1>t, <2>1, <2>2, <2>4, <3>1, LockStep DEF TypeOK
  <2> QED
    BY <1>7, <1>t, <2>3, <2>4, SnapshotForm
<1>8. ASSUME NEW s \in Sessions, FreezeOutgoing(s)
      PROVE  LockInv'
  <2>1. NumberBefore(s) \in Nat
    BY <1>8, <1>t DEF FreezeOutgoing, NumberBefore, Own, HoldsLock, PointIsSound, Regs
  <2>2. ListOf(View(s)) \in Listing
    BY <1>t, RegType, ListOfType
  <2> QED
    BY <1>7, <1>8, <2>1, <2>2 DEF FreezeOutgoing
<1>9. ASSUME NEW s \in Sessions, FreezeNew(s)
      PROVE  LockInv'
  <2>1. reg[s].number \in Nat /\ reg[s].listed \in Listing
    BY <1>t DEF Regs
  <2> QED
    BY <1>7, <1>9, <2>1 DEF FreezeNew
<1>a. ASSUME NEW s \in Sessions, Close(s) PROVE Moves(s, "idle") /\ reg'[s] = Fresh /\ Own(s)'
  <2>1. Moves(s, "idle") /\ reg'[s] = Fresh
    BY <1>a, <1>t, CloseForm
  <2>2. writer' # s
    BY <1>a, TagsAssumption DEF Close
  <2> QED
    BY <2>1, <2>2 DEF Own, HoldsLock, PointIsSound, Bumped, Moves, Fresh
<1>b. ASSUME NEW s \in Sessions, Commit(s)
      PROVE  LockInv'
  <2>1. Close(s) /\ Moves(s, "idle") /\ Own(s)'
    BY <1>a, <1>b DEF Commit
  <2>2. writer' = writer \/ (TagUnlocked(s) /\ writer' \in {s, None})
    BY <2>1 DEF Close, TagUnlocked
  <2>3. /\ pc[s] \in {"created", "bumped", "replaced", "changed"}
        /\ version' = IF reg[s].bumped = 0 THEN version ELSE reg[s].bumped
        /\ snapshots' = snapshots \cup reg[s].frozen
        /\ fields' = View(s) /\ writes' = writes
    BY <1>b DEF Commit
  <2>4. version' = version \/ (Bumped(s) /\ version' = version + 1)
    BY <1>t, <2>3 DEF Own, HoldsLock, Bumped
  <2>5. version' # 0
    <3>1. CASE Bumped(s)
      BY <1>t, <2>3, <3>1 DEF Bumped
    <3>2. CASE ~ Bumped(s)
      <4>1. pc[s] = "replaced"
        BY <1>t, <2>3, <3>2 DEF Own, PointIsSound
      <4> QED
        BY <2>3, <3>2, <4>1 DEF Bumped, LockInv, TagComesFirst
    <3> QED
      BY <3>1, <3>2
  <2>6. View(s) \in SUBSET TagField /\ ListOf(View(s)) \in Listing
    BY <1>t, RegType, ListOfType
  <2>7. was' \in SUBSET (Nat \X Listing) /\ unguarded' \in BOOLEAN
    <3>1. version' \in Nat
      BY <1>t, <2>4
    <3> QED
      BY <1>b, <1>t, <2>6, <3>1 DEF Commit, TypeOK
  <2>8. snapshots' \in SUBSET (Nat \X Listing)
    BY <1>t, <2>3 DEF TypeOK, Regs
  <2> QED
    BY <1>t, <2>1, <2>2, <2>3, <2>4, <2>5, <2>6, <2>7, <2>8, LockStep DEF TypeOK
<1>c. ASSUME NEW s \in Sessions, Rollback(s)
      PROVE  LockInv'
  <2>1. /\ Close(s) /\ Moves(s, "idle") /\ Own(s)'
        /\ UNCHANGED <<version, fields, snapshots, writes, was, unguarded>>
    BY <1>a, <1>c DEF Rollback
  <2>2. writer' = writer \/ (TagUnlocked(s) /\ writer' \in {s, None})
    BY <2>1 DEF Close, TagUnlocked
  <2> QED
    BY <1>t, <2>1, <2>2, LockStep DEF LockInv, TagComesFirst, TypeOK
<1> QED
  BY <1>0, <1>1, <1>2, <1>3, <1>4, <1>5, <1>6, <1>8, <1>9, <1>b, <1>c DEF Next

----------------------------------------------------------------------------
(* What guarded transactions see, and what they leave *)

\* A step that commits nothing keeps GuardInv when its own session's
\* transaction stays guarded.
LEMMA GuardStep ==
    ASSUME GuardInv, LockInv', NEW s \in Sessions, NEW point, Moves(s, point),
           UNCHANGED <<version, fields, snapshots, was, unguarded>>,
           ~ unguarded => Guarded(s)'
    PROVE  GuardInv'
<1>1. HistoryInv'
  BY DEF GuardInv, HistoryInv, HistoryIsOne, OneWrite, ListOf
<1>2. ASSUME NEW t \in Sessions, ~ unguarded', t # s PROVE Guarded(t)'
  <2>1. pc'[t] = pc[t] /\ reg'[t] = reg[t] /\ Guarded(t)
    BY <1>2 DEF Moves, GuardInv
  <2> QED
    BY <2>1 DEF Guarded, Freezable, OneWrite, ListOf
<1> QED
  BY <1>1, <1>2 DEF GuardInv

\* A commit keeps GuardInv: it is excepted, or its transaction had the
\* committed fields in hand and the others hold nothing.
LEMMA GuardCommit ==
    ASSUME GuardInv, LockInv', NEW s \in Sessions, Commit(s)
    PROVE  GuardInv'
<1>t. LockInv /\ TypeOK /\ version \in Nat /\ \A t \in Sessions : Own(t)
  BY DEF GuardInv, LockInv, TypeOK, Own
<1>0. CASE unguarded'
  BY <1>0 DEF GuardInv, HistoryInv
<1>1. CASE ~ unguarded'
  <2>1. ~ unguarded /\ ~ reg[s].early /\ reg[s].number = reg[s].bumped
    BY <1>1 DEF Commit
  <2>2. pc[s] \in {"created", "bumped", "changed"}
    BY <1>t, <2>1 DEF Commit, Own, PointIsSound
  <2>3. Bumped(s) /\ reg[s].bumped = version + 1
    BY <1>t, <2>2 DEF Own, HoldsLock, PointIsSound
  <2>4. /\ version' = version + 1 /\ fields' = View(s)
        /\ snapshots' = snapshots \cup reg[s].frozen
        /\ was' = was \cup {<<version + 1, ListOf(View(s))>>}
    BY <1>1, <1>t, <2>3 DEF Commit, Bumped
  <2>5. HistoryInv /\ Guarded(s)
    BY <2>1 DEF GuardInv
  <2>6. View(s) = IF pc[s] = "bumped" THEN fields ELSE reg[s].inserted
    <3>1. pc[s] = "created" => fields = {}
      BY <1>t DEF Own, PointIsSound, LockInv, TagComesFirst
    <3>2. pc[s] = "changed" => reg[s].deleted = fields
      BY <2>1, <2>5 DEF Guarded
    <3>3. pc[s] = "bumped" => reg[s].deleted = {} /\ reg[s].inserted = {}
      BY <1>t DEF Own, PointIsSound
    <3> QED
      BY <2>2, <3>1, <3>2, <3>3 DEF View
  <2>7. OneWrite(View(s)) /\ snapshots \subseteq was /\ HistoryIsOne
    BY <2>1, <2>2, <2>5, <2>6 DEF HistoryInv, Guarded
  <2>8. reg[s].frozen \subseteq was'
    <3>1. reg[s].frozen \subseteq Freezable(s)
      BY <2>1, <2>2, <2>5 DEF Guarded
    <3>2. version > 0 => <<version, ListOf(fields)>> \in was
      BY <2>7 DEF HistoryIsOne
    <3>3. pc[s] \in {"created", "changed"} => reg[s].listed = ListOf(View(s))
      BY <2>1, <2>5, <2>6 DEF Guarded
    <3> QED
      BY <2>3, <2>4, <3>1, <3>2, <3>3 DEF Freezable
  <2>9. HistoryInv'
    <3>1. ASSUME NEW f \in was'
               PROVE  f[1] \in 1 .. version' /\ (f[1] = version' => f \notin was)
      BY <1>t, <2>4, <2>7 DEF HistoryIsOne, TypeOK
    <3>2. \A f, g \in was' : f[1] = g[1] => f = g
      BY <2>4, <2>7, <3>1 DEF HistoryIsOne
    <3>3. <<version', ListOf(fields)'>> \in was'
      BY <2>4 DEF ListOf
    <3>4. OneWrite(fields)' /\ snapshots' \subseteq was'
      BY <2>4, <2>7, <2>8 DEF OneWrite
    <3> QED
      BY <3>1, <3>2, <3>3, <3>4 DEF HistoryInv, HistoryIsOne
  <2>10. Moves(s, "idle") /\ reg'[s] = Fresh
    BY <1>t, CloseForm DEF Commit
  <2>11. ASSUME NEW t \in Sessions PROVE Guarded(t)'
    <3>1. CASE t = s
      BY <2>10, <3>1 DEF Moves, Guarded, Fresh
    <3>2. CASE t # s
      <4>1. pc'[t] = pc[t] /\ reg'[t] = reg[t]
        BY <2>10, <3>2 DEF Moves
      <4>2. ~ Bumped(t)
        BY <1>t, <2>3, <3>2 DEF Own, HoldsLock
      <4>3. pc[t] \in {"idle", "loaded"} \/ reg[t].early
        BY <1>t, <4>2, RegType DEF Own, PointIsSound, Points
      <4>4. pc[t] \in {"idle", "loaded"} => reg[t].frozen = {}
        BY <1>t DEF Own, PointIsSound
      <4> QED
        BY <4>1, <4>3, <4>4 DEF Guarded
    <3> QED
      BY <3>1, <3>2
  <2> QED
    BY <2>9, <2>11 DEF GuardInv
<1> QED
  BY <1>0, <1>1

\* No tag, no history.
LEMMA InitGuard == Init => GuardInv
<1> SUFFICES ASSUME Init PROVE GuardInv
  OBVIOUS
<1>1. HistoryInv
  BY DEF Init, HistoryInv, HistoryIsOne, OneWrite
<1>2. \A s \in Sessions : Guarded(s)
  BY DEF Init, Guarded, Fresh
<1> QED
  BY <1>1, <1>2, InitLock DEF GuardInv

\* Every step keeps GuardInv.
LEMMA NextGuard == GuardInv /\ [Next]_vars => GuardInv'
<1> SUFFICES ASSUME GuardInv, [Next]_vars PROVE GuardInv'
  OBVIOUS
<1>t. /\ LockInv /\ TypeOK /\ version \in Nat
      /\ \A s \in Sessions : Own(s) /\ reg[s] \in Regs
  BY RegType DEF GuardInv, LockInv, TypeOK, Own
<1>r. LockInv'
  BY <1>t, NextLock
<1>g. ~ unguarded => \A s \in Sessions : Guarded(s)
  BY DEF GuardInv
<1>0. CASE UNCHANGED vars
  BY <1>0, <1>r DEF vars, GuardInv, HistoryInv, HistoryIsOne, OneWrite, ListOf, Guarded,
                    Freezable
<1>1. ASSUME NEW s \in Sessions, NEW list \in Lists, create(s, list)
      PROVE  GuardInv'
  <2> DEFINE rows == RowsOf(list, writes + 1)
  <2>1. /\ Moves(s, "created")
        /\ reg'[s] = [reg[s] EXCEPT !.bumped = 1, !.number = 1, !.listed = list,
                                    !.inserted = rows]
        /\ writes' \in 1 .. MaxWrites
    BY <1>1, <1>t, CreateForm
  <2>2. /\ pc[s] = "idle" /\ writes' = writes + 1
        /\ UNCHANGED <<version, fields, snapshots, was, unguarded>>
    BY <1>1 DEF create
  <2>3. OneWrite(rows) /\ ListOf(rows) = list
    BY <2>1, <2>2, RowsOfList
  <2>4. reg[s].frozen = {}
    BY <1>t, <2>2 DEF Own, PointIsSound
  <2> HIDE DEF rows
  <2>5. Guarded(s)'
    BY <1>t, <2>1, <2>3, <2>4 DEF Moves, Guarded, Regs, OneWrite, ListOf
  <2> QED
    BY <1>r, <2>1, <2>2, <2>5, GuardStep
<1>2. ASSUME NEW s \in Sessions, Load(s)
      PROVE  GuardInv'
  <2>1. Moves(s, "loaded") /\ reg'[s] = [reg[s] EXCEPT !.known = version]
    BY <1>2, <1>t, LoadForm
  <2>2. pc[s] = "idle" /\ UNCHANGED <<version, fields, snapshots, was, unguarded>>
    BY <1>2 DEF Load
  <2>3. reg[s].frozen = {}
    BY <1>t, <2>2 DEF Own, PointIsSound
  <2>4. Guarded(s)'
    BY <1>t, <2>1, <2>3 DEF Moves, Guarded, Regs
  <2> QED
    BY <1>r, <2>1, <2>2, <2>4, GuardStep
<1>3. ASSUME NEW s \in Sessions, bump_version(s)
      PROVE  GuardInv'
  <2> DEFINE point == IF pc[s] = "replaced" THEN "changed" ELSE "bumped"
  <2>1. PICK n \in Nat : reg'[s] = [reg[s] EXCEPT !.bumped = version + 1, !.number = n]
    BY <1>3, <1>t, BumpForm
  <2>2. Moves(s, point) /\ UNCHANGED <<version, fields, snapshots, was, unguarded>>
    BY <1>3, <1>t, BumpForm DEF bump_version
  <2>3. \/ point = "bumped" /\ reg[s].frozen = {}
        \/ point = "changed" /\ reg[s].early
    BY <1>3, <1>t DEF bump_version, Own, PointIsSound
  <2> HIDE DEF point
  <2>4. Guarded(s)'
    BY <1>t, <2>1, <2>2, <2>3 DEF Moves, Guarded, Regs
  <2> QED
    BY <1>r, <2>2, <2>4, GuardStep
<1>4. ASSUME NEW s \in Sessions, FindFields(s)
      PROVE  GuardInv'
  <2>1. /\ Moves(s, "delete")
        /\ reg'[s] = [reg[s] EXCEPT !.hit = View(s), !.early = (reg[s].bumped = 0)]
    BY <1>4, <1>t, FindForm
  <2>2. /\ pc[s] \in {"idle", "loaded", "bumped"}
        /\ UNCHANGED <<version, fields, snapshots, was, unguarded>>
    BY <1>4 DEF FindFields
  <2>3. View(s) = fields /\ ~ reg[s].early
    BY <1>t, <2>2 DEF Own, PointIsSound, View
  <2>4. ~ unguarded => Guarded(s)'
    BY <1>g, <1>t, <2>1, <2>2, <2>3 DEF Moves, Guarded, Regs, Freezable, ListOf
  <2> QED
    BY <1>r, <2>1, <2>2, <2>4, GuardStep
<1>5. ASSUME NEW s \in Sessions, DeleteFields(s)
      PROVE  GuardInv'
  <2>1. /\ Moves(s, "insert")
        /\ reg'[s] = [reg[s] EXCEPT !.deleted = reg[s].hit \cap fields, !.hit = {}]
    BY <1>5, <1>t, DeleteForm
  <2>2. pc[s] = "delete" /\ UNCHANGED <<version, fields, snapshots, was, unguarded>>
    BY <1>5 DEF DeleteFields
  <2>3. ~ unguarded => Guarded(s)'
    BY <1>g, <1>t, <2>1, <2>2 DEF Moves, Guarded, Regs, Freezable, ListOf
  <2> QED
    BY <1>r, <2>1, <2>2, <2>3, GuardStep
<1>6. ASSUME NEW s \in Sessions, NEW list \in Lists, InsertFields(s, list)
      PROVE  GuardInv'
  <2> DEFINE point == IF reg[s].bumped = 0 THEN "replaced" ELSE "changed"
             rows == RowsOf(list, writes + 1)
  <2>1. /\ Moves(s, point) /\ OneWrite(rows)
        /\ reg'[s] = [reg[s] EXCEPT !.inserted = rows, !.listed = Listed(s, rows)]
    BY <1>6, <1>t, InsertForm
  <2>2. pc[s] = "insert" /\ UNCHANGED <<version, fields, snapshots, was, unguarded>>
    BY <1>6 DEF InsertFields
  <2> HIDE DEF rows, point
  <2>3. reg[s].inserted = {}
    BY <1>t, <2>2 DEF Own, PointIsSound
  <2>4. ~ unguarded => Guarded(s)'
    <3> SUFFICES ASSUME ~ unguarded, ~ reg[s].early, reg[s].number = reg[s].bumped
                 PROVE  Guarded(s)'
      BY <1>t, <2>1 DEF Moves, Guarded, Regs
    <3>1. /\ reg[s].deleted = fields
          /\ reg[s].frozen \subseteq {f \in {<<version, ListOf(fields)>>} : version > 0}
      BY <1>g, <2>2 DEF Guarded, Freezable
    <3>2. View(s) \cup rows = rows
      BY <2>3, <3>1 DEF View
    <3>3. Listed(s, rows) = ListOf(rows)
      BY <3>2 DEF Listed
    <3>4. /\ reg'[s].deleted = fields' /\ reg'[s].inserted = rows
          /\ reg'[s].listed = ListOf(rows) /\ reg'[s].frozen = reg[s].frozen
      BY <1>t, <2>1, <2>2, <3>1, <3>3 DEF Regs
    <3>5. reg'[s].frozen \subseteq Freezable(s)'
      BY <2>2, <3>1, <3>4 DEF Freezable, ListOf
    <3>6. pc'[s] # "delete"
      BY <2>1 DEF Moves, point
    <3> QED
      BY <2>1, <3>4, <3>5, <3>6 DEF Guarded, OneWrite, ListOf
  <2> QED
    BY <1>r, <2>1, <2>2, <2>4, GuardStep
<1>7. ASSUME NEW s \in Sessions, NEW n \in Nat, NEW list \in Listing, snapshot(s, n, list),
             pc[s] \in {"created", "bumped", "changed"},
             ~ unguarded /\ reg[s].number = reg[s].bumped => <<n, list>> \in Freezable(s)
      PROVE  GuardInv'
  <2>1. UNCHANGED <<version, fields, snapshots, was, unguarded>>
    BY <1>7 DEF snapshot
  <2>2. CASE Moves(s, "conflict") /\ reg'[s] = reg[s]
    <3>1. Guarded(s)'
      BY <2>2 DEF Moves, Guarded
    <3> QED
      BY <1>r, <2>1, <2>2, <3>1, GuardStep
  <2>3. CASE /\ Moves(s, pc[s])
             /\ reg'[s] = [reg[s] EXCEPT !.frozen = @ \cup {<<n, list>>}]
    <3>1. /\ pc'[s] = pc[s] /\ reg'[s].frozen = reg[s].frozen \cup {<<n, list>>}
          /\ reg'[s].early = reg[s].early /\ reg'[s].number = reg[s].number
          /\ reg'[s].bumped = reg[s].bumped /\ reg'[s].listed = reg[s].listed
          /\ reg'[s].hit = reg[s].hit /\ reg'[s].deleted = reg[s].deleted
          /\ reg'[s].inserted = reg[s].inserted
      BY <1>t, <2>3 DEF Moves, Regs
    <3>2. Freezable(s)' = Freezable(s)
      BY <2>1, <3>1 DEF Freezable, ListOf
    <3>3. ~ unguarded => Guarded(s)'
      BY <1>7, <1>g, <2>1, <3>1, <3>2 DEF Guarded, OneWrite, ListOf
    <3> QED
      BY <1>r, <2>1, <2>3, <3>3, GuardStep
  <2> QED
    BY <1>7, <1>t, <2>2, <2>3, SnapshotForm
<1>8. ASSUME NEW s \in Sessions, FreezeOutgoing(s)
      PROVE  GuardInv'
  <2>1. /\ pc[s] = "bumped" /\ Bumped(s) /\ reg[s].bumped = version + 1
        /\ reg[s].number \in Nat /\ reg[s].number > 0 /\ View(s) = fields
    BY <1>8, <1>t DEF FreezeOutgoing, Own, HoldsLock, PointIsSound, View, Regs
  <2>2. version > 0
    BY <1>t, <2>1 DEF LockInv, TagComesFirst
  <2>3. NumberBefore(s) \in Nat /\ (reg[s].number = reg[s].bumped => NumberBefore(s) = version)
    BY <1>t, <2>1 DEF NumberBefore
  <2>4. ListOf(View(s)) \in Listing
    BY <1>t, RegType, ListOfType
  <2> QED
    BY <1>7, <1>8, <2>1, <2>2, <2>3, <2>4 DEF FreezeOutgoing, Freezable
<1>9. ASSUME NEW s \in Sessions, FreezeNew(s)
      PROVE  GuardInv'
  <2>1. reg[s].number \in Nat /\ reg[s].listed \in Listing
    BY <1>t DEF Regs
  <2> QED
    BY <1>7, <1>9, <2>1 DEF FreezeNew, Freezable
<1>10. ASSUME NEW s \in Sessions, Commit(s)
       PROVE  GuardInv'
  BY <1>10, <1>r, GuardCommit
<1>11. ASSUME NEW s \in Sessions, Rollback(s)
       PROVE  GuardInv'
  <2>1. Close(s) /\ UNCHANGED <<version, fields, snapshots, was, unguarded>>
    BY <1>11 DEF Rollback
  <2>2. Moves(s, "idle") /\ reg'[s] = Fresh
    BY <1>t, <2>1, CloseForm
  <2>3. Guarded(s)'
    BY <2>2 DEF Moves, Guarded, Fresh
  <2> QED
    BY <1>r, <2>1, <2>2, <2>3, GuardStep
<1> QED
  BY <1>0, <1>1, <1>2, <1>3, <1>4, <1>5, <1>6, <1>8, <1>9, <1>10, <1>11 DEF Next

----------------------------------------------------------------------------
(* The theorems *)

\* GuardInv is an invariant.
LEMMA GuardStays == Spec => []GuardInv
BY InitGuard, NextGuard, PTL DEF Spec

\* Every reachable state is type correct.
THEOREM TypeCorrect == Spec => []TypeOK
<1>1. GuardInv => TypeOK
  BY DEF GuardInv, LockInv
<1> QED
  BY <1>1, GuardStays, PTL

\* While every transaction bumps the version before it replaces the fields,
\* the rows of a tag are those of one replace_fields call: for any number of
\* calls at once, whatever their lists, however their DELETEs would have
\* missed each other's rows.
THEOREM FieldsStayOneList == Spec => []FieldsAreOneList
<1>1. GuardInv => FieldsAreOneList
  BY DEF GuardInv, HistoryInv, OneWrite, FieldsAreOneList, FieldsAreReplaced
<1> QED
  BY <1>1, GuardStays, PTL

\* Under the same rule, the snapshot of the newest version is the list the tag
\* has.
THEOREM SnapshotStaysCurrent == Spec => []SnapshotIsCurrent
<1>1. GuardInv => SnapshotIsCurrent
  <2> SUFFICES ASSUME GuardInv, ~ unguarded, NEW f \in snapshots, f[1] = version
               PROVE  f[2] = ListOf(fields)
    BY DEF SnapshotIsCurrent
  <2>1. f \in was /\ HistoryIsOne
    BY DEF GuardInv, HistoryInv
  <2>2. <<version, ListOf(fields)>> \in was
    BY <2>1 DEF HistoryIsOne, GuardInv, LockInv, TypeOK
  <2> QED
    BY <2>1, <2>2 DEF HistoryIsOne
<1> QED
  BY <1>1, GuardStays, PTL

\* Under the same rule, every snapshot, of the newest version or an older one,
\* frozen when the version began or when it ended, is the list the tag had at
\* that version.
THEOREM SnapshotsStayTrue == Spec => []SnapshotsAreTrue
<1>1. GuardInv => SnapshotsAreTrue
  BY DEF GuardInv, HistoryInv, SnapshotsAreTrue
<1> QED
  BY <1>1, GuardStays, PTL
=============================================================================
