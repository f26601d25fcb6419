-------------------------- MODULE ExtractionsProofs --------------------------
(***************************************************************************)
(* The invariants of Extractions, proved for every set of documents and    *)
(* sessions and every bound on version numbers.                            *)
(***************************************************************************)
EXTENDS Extractions, TLAPS

\* Number of versions of d that session s can see.
Count(s, d) == adds[d] + (IF writer[d] = s THEN more[d] ELSE 0)

\* The flagged versions of a document that has n of them.
Latest(n) == IF n = 0 THEN {} ELSE {n}

\* Without a writer nothing is uncommitted.
Clean ==
    \A d \in Documents : writer[d] = None => wip[d] = db[d] /\ more[d] = 0

\* Committed and uncommitted versions are numbered without gaps.
Counted ==
    \A d \in Documents : /\ db[d].versions = 1 .. adds[d]
                         /\ wip[d].versions = 1 .. (adds[d] + more[d])

\* The newest version is flagged, except between the two halves of an add.
Flagged ==
    \A d \in Documents :
        /\ db[d].current = Latest(adds[d])
        /\ \/ wip[d].current = Latest(adds[d] + more[d])
           \/ /\ writer[d] \in Sessions
              /\ pc[writer[d]] = "insert"
              /\ reg[writer[d]].doc = d
              /\ wip[d].current = {}

Adding(s) == pc[s] \in {"update", "unflag", "insert"}

\* What an add() under way knows, and what is left of it when another
\* session has committed meanwhile.
Knows(s) ==
    /\ reg[s].doc \in Documents
    /\ reg[s].base <= adds[reg[s].doc]
    /\ pc[s] = "conflict" /\ reg[s].known => reg[s].base < adds[reg[s].doc]
    /\ Adding(s) =>
          /\ 1 <= reg[s].version
          /\ reg[s].version <= Count(s, reg[s].doc) + 1
          /\ reg[s].base = adds[reg[s].doc] =>
                /\ reg[s].version = Count(s, reg[s].doc) + 1
                /\ pc[s] = "unflag" => reg[s].hit = View(s, reg[s].doc).current
                /\ pc[s] = "insert" => View(s, reg[s].doc).current = {}

Registers == \A s \in Sessions : pc[s] # "idle" => Knows(s)

\* Validations are about versions their transaction can see.
Referenced ==
    /\ ValidationsRefer
    /\ \A s \in Sessions : \A v \in validating[s] : v.version \in View(s, v.of).versions

\* The inductive invariant.
IInv == TypeOK /\ Clean /\ Counted /\ Flagged /\ Registers /\ Referenced

\* With versions 1 .. n in a table the next number is n + 1.
LEMMA NextVersionIs ==
    ASSUME NEW rows \in ExtractionVersion, NEW n \in Nat, rows.versions = 1 .. n
    PROVE  NextVersion(rows) = n + 1
<1>1. n <= MaxVersion
  <2>1. CASE n = 0
    BY <2>1, ExtractionsAssumption
  <2>2. CASE n # 0
    <3>1. n \in rows.versions
      BY <2>2
    <3>2. n \in Versions
      BY <3>1 DEF ExtractionVersion
    <3> QED
      BY <3>2, ExtractionsAssumption DEF Versions
  <2> QED
    BY <2>1, <2>2
<1> DEFINE P(v) == /\ \A w \in rows.versions : w < v
                   /\ v = 1 \/ v - 1 \in rows.versions
<1>2. n + 1 \in 1 .. MaxVersion + 1 /\ P(n + 1)
  BY <1>1, ExtractionsAssumption
<1>3. ASSUME NEW v \in 1 .. MaxVersion + 1, P(v)
      PROVE  v = n + 1
  <2>1. v <= n + 1
    BY <1>3, ExtractionsAssumption
  <2>2. n < v
    <3>1. CASE n = 0
      BY <3>1
    <3>2. CASE n # 0
      <4>1. n \in rows.versions
        BY <3>2
      <4> QED
        BY <4>1, <1>3
    <3> QED
      BY <3>1, <3>2
  <2> QED
    BY <2>1, <2>2, ExtractionsAssumption
<1> QED
  BY <1>2, <1>3 DEF NextVersion

\* The initial state satisfies the inductive invariant.
LEMMA InitIInv == Init => IInv
<1> SUFFICES ASSUME Init PROVE IInv
  OBVIOUS
<1> USE ExtractionsAssumption DEF Init
<1>1. TypeOK
  BY DEF TypeOK, ExtractionVersion, NoRows, Idle, Validation
<1>2. Clean /\ Counted /\ Flagged
  BY DEF Clean, Counted, Flagged, NoRows, Latest
<1>3. Registers /\ Referenced
  BY DEF Registers, Referenced, ValidationsRefer
<1> QED
  BY <1>1, <1>2, <1>3 DEF IInv

\* A session reads its next version number.
LEMMA SelectStep ==
    ASSUME IInv, NEW s \in Sessions, NEW d \in Documents, NEW known \in BOOLEAN,
           SelectVersion(s, d, known)
    PROVE  IInv'
<1> USE ExtractionsAssumption DEF SelectVersion
<1>1. View(s, d) \in ExtractionVersion /\ View(s, d).versions = 1 .. Count(s, d)
      /\ Count(s, d) \in Nat
  BY DEF IInv, TypeOK, Counted, View, Count
<1>2. NextVersion(View(s, d)) = Count(s, d) + 1
  BY <1>1, NextVersionIs
<1>3. TypeOK'
  BY DEF IInv, TypeOK, Versions
<1>4. Clean' /\ Counted'
  BY DEF IInv, Clean, Counted
<1>5. Flagged'
  BY DEF IInv, TypeOK, Flagged
<1>6. Registers'
  <2> SUFFICES ASSUME NEW t \in Sessions, pc'[t] # "idle"
               PROVE  Knows(t)'
    BY DEF Registers
  <2> QED
    BY <1>1, <1>2 DEF IInv, TypeOK, Registers, Knows, Adding, Count, View
<1>7. Referenced'
  BY DEF IInv, Referenced, ValidationsRefer, View
<1> QED
  BY <1>3, <1>4, <1>5, <1>6, <1>7 DEF IInv

\* The UPDATE of add() takes its snapshot.
LEMMA FindStep ==
    ASSUME IInv, NEW s \in Sessions, FindCurrent(s)
    PROVE  IInv'
<1> USE ExtractionsAssumption DEF FindCurrent
<1>0. reg[s].doc \in Documents /\ View(s, reg[s].doc) \in ExtractionVersion
  BY DEF IInv, TypeOK, Registers, Knows, View
<1>1. TypeOK'
  <2>1. reg[s] \in [doc : Documents \cup {None}, version : 0 .. MaxVersion,
                    known : BOOLEAN, hit : SUBSET Versions, base : Nat]
    BY DEF IInv, TypeOK
  <2>2. View(s, reg[s].doc).current \in SUBSET Versions
    BY <1>0 DEF ExtractionVersion
  <2>3. [reg[s] EXCEPT !.hit = View(s, reg[s].doc).current]
           \in [doc : Documents \cup {None}, version : 0 .. MaxVersion,
               known : BOOLEAN, hit : SUBSET Versions, base : Nat]
    BY <2>1, <2>2
  <2> QED
    BY <2>3 DEF IInv, TypeOK
<1>2. Clean' /\ Counted'
  BY DEF IInv, Clean, Counted
<1>3. Flagged'
  BY DEF IInv, TypeOK, Flagged
<1>4. Registers'
  <2> SUFFICES ASSUME NEW t \in Sessions, pc'[t] # "idle"
               PROVE  Knows(t)'
    BY DEF Registers
  <2> QED
    BY <1>0 DEF IInv, TypeOK, Registers, Knows, Adding, Count, View
<1>5. Referenced'
  BY DEF IInv, Referenced, ValidationsRefer, View
<1> QED
  BY <1>1, <1>2, <1>3, <1>4, <1>5 DEF IInv

\* The UPDATE of add() unflags what it found, or finds it unflagged.
LEMMA UnflagStep ==
    ASSUME IInv, NEW s \in Sessions, UnflagCurrent(s)
    PROVE  IInv'
<1> DEFINE d == reg[s].doc
<1> USE ExtractionsAssumption
<1>0. d \in Documents /\ View(s, d) \in ExtractionVersion /\ pc[s] = "unflag"
  BY DEF IInv, TypeOK, Registers, Knows, View, UnflagCurrent
<1>1. CASE reg[s].hit \cap View(s, d).current = {}
  <2>1. /\ UNCHANGED <<db, wip, writer, reg, adds, more, validated, validating>>
        /\ pc' = [pc EXCEPT ![s] = "insert"]
    BY <1>1 DEF UnflagCurrent
  <2>2. TypeOK'
    BY <2>1 DEF IInv, TypeOK
  <2>3. Clean' /\ Counted'
    BY <2>1 DEF IInv, Clean, Counted
  <2>4. Flagged'
    BY <2>1 DEF IInv, TypeOK, Flagged
  <2>5. Registers'
    <3> SUFFICES ASSUME NEW t \in Sessions, pc'[t] # "idle"
                 PROVE  Knows(t)'
      BY DEF Registers
    <3>1. CASE t = s
      BY <1>0, <1>1, <2>1, <3>1 DEF IInv, TypeOK, Registers, Knows, Adding, Count, View
    <3>2. CASE t # s
      BY <2>1, <3>2 DEF IInv, TypeOK, Registers, Knows, Adding, Count, View
    <3> QED
      BY <3>1, <3>2
  <2>6. Referenced'
    BY <2>1 DEF IInv, Referenced, ValidationsRefer, View
  <2> QED
    BY <2>2, <2>3, <2>4, <2>5, <2>6 DEF IInv
<1>2. CASE reg[s].hit \cap View(s, d).current # {}
  <2> DEFINE new == [View(s, d) EXCEPT !.current = @ \ reg[s].hit]
  <2>1. /\ writer' = [writer EXCEPT ![d] = s]
        /\ wip' = [wip EXCEPT ![d] = new]
        /\ pc' = [pc EXCEPT ![s] = "insert"]
        /\ UNCHANGED <<db, reg, adds, more, validated, validating>>
        /\ Unlocked(s, d)
    BY <1>2 DEF UnflagCurrent
  <2>2. /\ new \in ExtractionVersion
        /\ new.versions = View(s, d).versions
        /\ new.current = View(s, d).current \ reg[s].hit
    BY <1>0 DEF ExtractionVersion
  <2>3. View(s, d) = wip[d]
    BY <1>0, <2>1 DEF IInv, Clean, View, Unlocked
  <2>4. new.current = {}
    <3>1. PICK n : View(s, d).current \subseteq {n}
      BY <1>0, <2>3 DEF IInv, Flagged, Latest
    <3> QED
      BY <1>2, <2>2, <3>1
  <2>5. TypeOK'
    BY <1>0, <2>1, <2>2 DEF IInv, TypeOK
  <2>6. Clean'
    BY <1>0, <2>1 DEF IInv, TypeOK, Clean
  <2>7. Counted'
    BY <1>0, <2>1, <2>2, <2>3 DEF IInv, TypeOK, Counted
  <2>8. Flagged'
    <3> SUFFICES ASSUME NEW e \in Documents
                 PROVE  Flagged!(e)'
      BY DEF Flagged
    <3>1. CASE e = d
      BY <1>0, <2>1, <2>4, <3>1 DEF IInv, TypeOK, Flagged
    <3>2. CASE e # d
      BY <1>0, <2>1, <3>2 DEF IInv, TypeOK, Flagged
    <3> QED
      BY <3>1, <3>2
  <2>9. Registers'
    <3> SUFFICES ASSUME NEW t \in Sessions, pc'[t] # "idle"
                 PROVE  Knows(t)'
      BY DEF Registers
    <3>1. CASE t = s
      BY <1>0, <2>1, <2>4, <3>1
         DEF IInv, TypeOK, Clean, Registers, Knows, Adding, Count, View, Unlocked
    <3>2. CASE t # s
      BY <1>0, <2>1, <3>2
         DEF IInv, TypeOK, Clean, Registers, Knows, Adding, Count, View, Unlocked
    <3> QED
      BY <3>1, <3>2
  <2>10. Referenced'
    BY <1>0, <2>1, <2>2, <2>3
       DEF IInv, TypeOK, Validation, Referenced, ValidationsRefer, View, Unlocked
  <2> QED
    BY <2>5, <2>6, <2>7, <2>8, <2>9, <2>10 DEF IInv
<1> QED
  BY <1>1, <1>2

\* The new version is inserted.
LEMMA InsertStep ==
    ASSUME IInv, NEW s \in Sessions, InsertVersion(s)
    PROVE  IInv'
<1> DEFINE d == reg[s].doc
           v == reg[s].version
           new == [versions |-> View(s, d).versions \cup {v},
                   current |-> View(s, d).current \cup {v}]
<1> USE ExtractionsAssumption
<1>0. d \in Documents /\ View(s, d) \in ExtractionVersion /\ pc[s] = "insert"
  BY DEF IInv, TypeOK, Registers, Knows, View, InsertVersion
<1>1. /\ writer' = [writer EXCEPT ![d] = s]
      /\ wip' = [wip EXCEPT ![d] = new]
      /\ more' = [more EXCEPT ![d] = @ + 1]
      /\ pc' = [pc EXCEPT ![s] = "idle"]
      /\ reg' = [reg EXCEPT ![s] = Idle]
      /\ UNCHANGED <<db, adds, validated, validating>>
      /\ Unlocked(s, d)
      /\ v \notin View(s, d).versions
      /\ View(s, d).current = {}
  BY DEF InsertVersion, Refused, VersionTaken, CurrentTaken
<1>2. View(s, d) = wip[d]
  BY <1>0, <1>1 DEF IInv, Clean, View, Unlocked
<1>3. View(s, d).versions = 1 .. Count(s, d) /\ Count(s, d) = adds[d] + more[d]
      /\ Count(s, d) \in Nat
  BY <1>0, <1>1, <1>2 DEF IInv, TypeOK, Clean, Counted, Count, View, Unlocked
<1>4. v \in Nat /\ 1 <= v /\ v <= Count(s, d) + 1 /\ v <= MaxVersion
  BY <1>0 DEF IInv, TypeOK, Registers, Knows, Adding
<1>5. v = adds[d] + more[d] + 1
  BY <1>1, <1>3, <1>4
<1>6. new.versions = 1 .. (adds[d] + more[d] + 1) /\ new.current = {v}
  BY <1>1, <1>3, <1>5
<1>7. new \in ExtractionVersion
  BY <1>0, <1>4 DEF ExtractionVersion, Versions
<1>8. TypeOK'
  BY <1>0, <1>1, <1>7 DEF IInv, TypeOK, Idle
<1>9. Clean'
  BY <1>0, <1>1 DEF IInv, TypeOK, Clean
<1>b. View(s, d).versions \subseteq new.versions
  OBVIOUS
<1>. HIDE DEF new
<1>a. wip'[d] = new /\ adds'[d] + more'[d] = adds[d] + more[d] + 1
  BY <1>0, <1>1 DEF IInv, TypeOK
<1>10. Counted'
  <2> SUFFICES ASSUME NEW e \in Documents
               PROVE  Counted!(e)'
    BY DEF Counted
  <2>1. CASE e = d
    BY <1>0, <1>1, <1>6, <1>a, <2>1 DEF IInv, Counted
  <2>2. CASE e # d
    BY <1>0, <1>1, <2>2 DEF IInv, TypeOK, Counted
  <2> QED
    BY <2>1, <2>2
<1>11. Flagged'
  <2> SUFFICES ASSUME NEW e \in Documents
               PROVE  Flagged!(e)'
    BY DEF Flagged
  <2>1. CASE e = d
    <3>1. wip'[d].current = Latest(adds'[d] + more'[d])
      <4>1. adds[d] + more[d] + 1 # 0
        BY <1>0 DEF IInv, TypeOK
      <4> QED
        BY <4>1, <1>5, <1>6, <1>a DEF Latest
    <3> QED
      BY <1>0, <1>1, <2>1, <3>1 DEF IInv, Flagged
  <2>2. CASE e # d
    BY <1>0, <1>1, <2>2 DEF IInv, TypeOK, Flagged
  <2> QED
    BY <2>1, <2>2
<1>12. Registers'
  <2> SUFFICES ASSUME NEW t \in Sessions, pc'[t] # "idle"
               PROVE  Knows(t)'
    BY DEF Registers
  <2>1. t # s /\ pc'[t] = pc[t] /\ reg'[t] = reg[t]
    BY <1>1 DEF IInv, TypeOK
  <2> QED
    BY <1>0, <1>1, <2>1
       DEF IInv, TypeOK, Clean, Registers, Knows, Adding, Count, View, Unlocked
<1>13. Referenced'
  <2>1. ValidationsRefer'
    BY <1>1 DEF IInv, Referenced, ValidationsRefer
  <2>2. ASSUME NEW t \in Sessions, NEW k \in validating[t]
        PROVE  k.version \in View(t, k.of)'.versions
    <3>1. k.of \in Documents /\ k.version \in View(t, k.of).versions
      BY <2>2 DEF IInv, TypeOK, Validation, Referenced
    <3>2. CASE k.of = d
      BY <1>0, <1>1, <1>a, <1>b, <3>1, <3>2 DEF IInv, TypeOK, View, Unlocked
    <3>3. CASE k.of # d
      BY <1>0, <1>1, <3>1, <3>3 DEF IInv, TypeOK, View
    <3> QED
      BY <3>2, <3>3
  <2> QED
    BY <1>1, <2>1, <2>2 DEF Referenced
<1> QED
  BY <1>8, <1>9, <1>10, <1>11, <1>12, <1>13 DEF IInv

\* A transaction is forgotten; whatever its session does next, every other
\* session sees what it saw.
LEMMA UndoStep ==
    ASSUME IInv, NEW s \in Sessions, Undo(s),
           NEW c \in {"idle", "conflict"}, pc' = [pc EXCEPT ![s] = c],
           \/ c = "idle" /\ reg' = [reg EXCEPT ![s] = Idle]
           \/ /\ c = "conflict"
              /\ UNCHANGED reg
              /\ reg[s].doc \in Documents
              /\ reg[s].base <= adds[reg[s].doc]
              /\ reg[s].known => reg[s].base < adds[reg[s].doc]
    PROVE  IInv'
<1> USE ExtractionsAssumption
<1>1. TypeOK'
  <2>1. /\ db' \in [Documents -> ExtractionVersion]
        /\ wip' \in [Documents -> ExtractionVersion]
        /\ writer' \in [Documents -> Sessions \cup {None}]
        /\ adds' \in [Documents -> Nat]
        /\ more' \in [Documents -> Nat]
    BY DEF IInv, TypeOK, Undo
  <2>2. pc' \in [Sessions -> {"idle", "update", "unflag", "insert", "conflict"}]
    BY DEF IInv, TypeOK
  <2>3. reg' \in [Sessions -> [doc : Documents \cup {None}, version : 0 .. MaxVersion,
                                known : BOOLEAN, hit : SUBSET Versions, base : Nat]]
    <3>1. Idle \in [doc : Documents \cup {None}, version : 0 .. MaxVersion,
                    known : BOOLEAN, hit : SUBSET Versions, base : Nat]
      BY DEF Idle
    <3> QED
      BY <3>1 DEF IInv, TypeOK
  <2>4. /\ validated' \in SUBSET Validation
        /\ validating' \in [Sessions -> SUBSET Validation]
    BY DEF IInv, TypeOK, Undo
  <2> QED
    BY <2>1, <2>2, <2>3, <2>4 DEF TypeOK
<1>2. Clean' /\ Counted'
  BY DEF IInv, TypeOK, Clean, Counted, Undo
<1>3. Flagged'
  <2> SUFFICES ASSUME NEW e \in Documents
               PROVE  Flagged!(e)'
    BY DEF Flagged
  <2>1. CASE writer[e] = s
    BY <2>1 DEF IInv, TypeOK, Flagged, Undo
  <2>2. CASE writer[e] # s
    BY <2>2 DEF IInv, TypeOK, Flagged, Undo
  <2> QED
    BY <2>1, <2>2
<1>4. Registers'
  <2> SUFFICES ASSUME NEW t \in Sessions, pc'[t] # "idle"
               PROVE  Knows(t)'
    BY DEF Registers
  <2>1. CASE t = s
    BY <2>1 DEF IInv, TypeOK, Knows, Adding, Undo
  <2>2. CASE t # s
    BY <2>2 DEF IInv, TypeOK, Registers, Knows, Adding, Count, View, Undo
  <2> QED
    BY <2>1, <2>2
<1>5. Referenced'
  BY DEF IInv, TypeOK, Validation, Referenced, ValidationsRefer, View, Undo
<1> QED
  BY <1>1, <1>2, <1>3, <1>4, <1>5 DEF IInv

\* A version or a flag is taken, so that another session committed in
\* between, or a foreign key fails.
LEMMA ConflictStep ==
    ASSUME IInv, NEW s \in Sessions, InsertConflict(s)
    PROVE  IInv'
<1> DEFINE d == reg[s].doc
<1> USE ExtractionsAssumption
<1>1. /\ d \in Documents
      /\ reg[s].base <= adds[d]
      /\ reg[s].base = adds[d] => /\ reg[s].version = Count(s, d) + 1
                                  /\ View(s, d).current = {}
  BY DEF InsertConflict, IInv, Registers, Knows, Adding
<1>2. View(s, d).versions = 1 .. Count(s, d) /\ Count(s, d) \in Nat
  BY <1>1 DEF IInv, TypeOK, Counted, Count, View
<1>3. reg[s].known => reg[s].version \in View(s, d).versions \/ View(s, d).current # {}
  BY DEF InsertConflict, Refused, VersionTaken, CurrentTaken
<1>4. reg[s].known => reg[s].base < adds[d]
  BY <1>1, <1>2, <1>3 DEF IInv, TypeOK
<1> QED
  BY <1>1, <1>4, UndoStep DEF InsertConflict

\* A session rolls back.
LEMMA RollbackStep ==
    ASSUME IInv, NEW s \in Sessions, Rollback(s)
    PROVE  IInv'
  BY UndoStep DEF Rollback

\* A validation is recorded.
LEMMA ValidationStep ==
    ASSUME IInv, NEW s \in Sessions, NEW v \in Validation, AddValidation(s, v)
    PROVE  IInv'
<1> USE DEF AddValidation
<1>1. TypeOK'
  BY DEF IInv, TypeOK, Validation
<1>2. Clean' /\ Counted' /\ Flagged'
  BY DEF IInv, Clean, Counted, Flagged
<1>3. Registers'
  BY DEF IInv, Registers, Knows, Adding, Count, View
<1>4. Referenced'
  BY DEF IInv, TypeOK, Referenced, ValidationsRefer, View, VersionExists
<1> QED
  BY <1>1, <1>2, <1>3, <1>4 DEF IInv

\* A session commits.  No add() is half done in it, so what becomes visible
\* is complete; a session that sees a different table afterwards also sees
\* that adds has grown.
LEMMA CommitStep ==
    ASSUME IInv, NEW s \in Sessions, Commit(s)
    PROVE  IInv'
<1> USE ExtractionsAssumption
<1>0. /\ pc[s] = "idle"
      /\ db' = [d \in Documents |-> View(s, d)]
      /\ adds' = [d \in Documents |-> IF writer[d] = s THEN adds[d] + more[d] ELSE adds[d]]
      /\ more' = [d \in Documents |-> IF writer[d] = s THEN 0 ELSE more[d]]
      /\ writer' = [d \in Documents |-> IF writer[d] = s THEN None ELSE writer[d]]
      /\ validated' = validated \cup validating[s]
      /\ validating' = [validating EXCEPT ![s] = {}]
      /\ UNCHANGED <<wip, pc, reg>>
  BY DEF Commit
<1>1. TypeOK'
  BY <1>0 DEF IInv, TypeOK, View
<1>2. Clean' /\ Counted'
  BY <1>0 DEF IInv, TypeOK, Clean, Counted, View
<1>3. ASSUME NEW d \in Documents, writer[d] = s
      PROVE  wip[d].current = Latest(adds[d] + more[d])
  BY <1>0, <1>3 DEF IInv, Flagged
<1>4. Flagged'
  <2> SUFFICES ASSUME NEW e \in Documents
               PROVE  Flagged!(e)'
    BY DEF Flagged
  <2>1. CASE writer[e] = s
    BY <1>0, <1>3, <2>1 DEF IInv, TypeOK, Flagged, View
  <2>2. CASE writer[e] # s
    BY <1>0, <2>2 DEF IInv, TypeOK, Flagged, View
  <2> QED
    BY <2>1, <2>2
<1>5. ASSUME NEW d \in Documents
      PROVE  adds[d] <= adds'[d] /\ (adds[d] = adds'[d] => db'[d] = db[d])
  <2>1. CASE writer[d] = s
    <3>1. adds'[d] = adds[d] + more[d] /\ db'[d] = wip[d]
      BY <1>0, <2>1 DEF View
    <3>2. ASSUME more[d] = 0
          PROVE  wip[d] = db[d]
      <4>1. wip[d].current = db[d].current /\ wip[d].versions = db[d].versions
        BY <1>3, <2>1, <3>2 DEF IInv, TypeOK, Flagged, Counted
      <4> QED
        BY <4>1 DEF IInv, TypeOK, ExtractionVersion
    <3> QED
      BY <3>1, <3>2 DEF IInv, TypeOK
  <2>2. CASE writer[d] # s
    BY <1>0, <2>2 DEF IInv, TypeOK, View
  <2> QED
    BY <2>1, <2>2
<1>6. Registers'
  <2> SUFFICES ASSUME NEW t \in Sessions, pc'[t] # "idle"
               PROVE  Knows(t)'
    BY DEF Registers
  <2> DEFINE d == reg[t].doc
  <2>1. t # s /\ pc'[t] = pc[t] /\ reg'[t] = reg[t] /\ d \in Documents /\ Knows(t)
    BY <1>0 DEF IInv, Registers, Knows
  <2>2. adds[d] <= adds'[d] /\ (adds[d] = adds'[d] => db'[d] = db[d])
    BY <1>5, <2>1
  <2>3. /\ Count(t, d) <= Count(t, d)'
        /\ adds[d] = adds'[d] => Count(t, d) = Count(t, d)' /\ View(t, d) = View(t, d)'
    BY <1>0, <2>1, <2>2 DEF IInv, TypeOK, Count, View
  <2>4. /\ adds[d] \in Nat /\ adds'[d] \in Nat /\ reg[t].base \in Nat /\ reg[t].version \in Nat
        /\ Count(t, d) \in Nat /\ Count(t, d)' \in Nat
    BY <1>1, <2>1 DEF IInv, TypeOK, Count
  <2> QED
    BY <2>1, <2>2, <2>3, <2>4 DEF Knows, Adding
<1>7. Referenced'
  BY <1>0 DEF IInv, TypeOK, Validation, Counted, Referenced, ValidationsRefer, View
<1> QED
  BY <1>1, <1>2, <1>4, <1>6, <1>7 DEF IInv

\* Every step preserves the inductive invariant.
LEMMA NextIInv == IInv /\ [Next]_vars => IInv'
<1> SUFFICES ASSUME IInv, [Next]_vars PROVE IInv'
  OBVIOUS
<1>1. CASE UNCHANGED vars
  BY <1>1 DEF vars, IInv, TypeOK, Clean, Counted, Flagged, Registers, Knows, Adding,
              Count, View, Referenced, ValidationsRefer
<1>2. CASE Next
  BY <1>2, SelectStep, FindStep, UnflagStep, InsertStep, ConflictStep, ValidationStep,
     CommitStep, RollbackStep DEF Next
<1> QED
  BY <1>1, <1>2

\* The inductive invariant holds in every state of add(), add_validation()
\* and session_scope.
THEOREM Invariance == Spec => []IInv
  BY InitIInv, NextIInv, PTL DEF Spec

\* Every variable keeps its type.
THEOREM TypeCorrect == Spec => []TypeOK
<1>1. IInv => TypeOK
  BY DEF IInv
<1> QED
  BY <1>1, Invariance, PTL

\* Adds are counted by the version numbers: none is lost or repeated.
THEOREM VersionsAreAdds == Spec => []VersionsCountAdds
<1>1. IInv => VersionsCountAdds
  BY DEF IInv, Counted, VersionsCountAdds
<1> QED
  BY <1>1, Invariance, PTL

\* The newest committed version, and no other, is the current one.
THEOREM CurrentLatest == Spec => []CurrentIsLatest
<1>1. ASSUME IInv, NEW d \in Documents
      PROVE  db[d].current = {v \in db[d].versions : \A w \in db[d].versions : w <= v}
  <2> DEFINE n == adds[d]
  <2>1. n \in Nat /\ db[d].versions = 1 .. n /\ db[d].current = Latest(n)
    BY <1>1 DEF IInv, TypeOK, Counted, Flagged
  <2>2. CASE n = 0
    BY <2>1, <2>2 DEF Latest
  <2>3. CASE n # 0
    <3>1. n \in 1 .. n /\ \A v \in 1 .. n : (\A w \in 1 .. n : w <= v) <=> v = n
      BY <2>1, <2>3
    <3> HIDE DEF n
    <3> QED
      BY <2>1, <2>3, <3>1 DEF Latest
  <2> QED
    BY <2>2, <2>3
<1>2. IInv => CurrentIsLatest
  BY <1>1 DEF CurrentIsLatest
<1> QED
  BY <1>2, Invariance, PTL

\* The ConflictError of a known document and tag always has another session's
\* commit as its cause; that of an unknown one has the foreign key.
THEOREM ConflictsAreRaces == Spec => []ConflictHasCause
<1>1. IInv => ConflictHasCause
  BY DEF IInv, TypeOK, Registers, Knows, ConflictHasCause
<1> QED
  BY <1>1, Invariance, PTL

\* No committed validation dangles.
THEOREM ValidationsAreSound == Spec => []ValidationsRefer
<1>1. IInv => ValidationsRefer
  BY DEF IInv, Referenced
<1> QED
  BY <1>1, Invariance, PTL
=============================================================================
