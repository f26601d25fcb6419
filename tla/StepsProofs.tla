----------------------------- MODULE StepsProofs -----------------------------
(***************************************************************************)
(* The invariants of Steps and its refinement of StepLedger, proved for    *)
(* every pipeline length and every set of documents and sessions.          *)
(*                                                                         *)
(* The inductive invariant is built in layers, each proved with the ones   *)
(* below it: types and the shape of calls; rows and their uncommitted      *)
(* versions; wins and the ledger; the rows of a document and how often     *)
(* they were reset.                                                        *)
(***************************************************************************)
EXTENDS Steps, Integers, TLAPS

----------------------------------------------------------------------------
(* Layer 1: types *)

\* A session that is executing a call is at some row of it.
CallShape ==
    \A s \in Sessions :
        /\ call[s].op = "none" => call[s] = Idle
        /\ call[s].op # "none" => call[s].at \in Rows
        /\ call[s].op # "reset_from" => call[s].rest = {}
        /\ call[s].at \notin call[s].rest

Typed == TypeOK /\ CallShape

\* A row of a type is a row of that type after any of the UPDATEs.
LEMMA BlankType ==
    ASSUME NEW status \in StepStatus, NEW gen \in Nat
    PROVE  Blank(status, gen) \in DocumentStep
  BY DEF Blank, DocumentStep

LEMMA ViewType ==
    ASSUME TypeOK, NEW s \in Sessions, NEW r \in Rows
    PROVE  View(s, r) \in DocumentStep
  BY DEF TypeOK, View

\* A session writes a row and the call goes on or returns.
LEMMA WriteType ==
    ASSUME TypeOK, NEW s \in Sessions, NEW r \in Rows, NEW row \in DocumentStep,
           Write(s, r, row)
    PROVE  /\ wip' \in [Rows -> DocumentStep]
           /\ lock' \in [Rows -> Sessions \cup {None}]
  BY DEF TypeOK, Write

LEMMA ClockType ==
    ASSUME NEW row \in DocumentStep
    PROVE  Clock(row) \in Nat
  BY DEF Clock, DocumentStep

LEMMA WinType ==
    ASSUME TypeOK, NEW s \in Sessions, NEW r \in Rows, NEW row \in DocumentStep,
           Win(s, r, row)
    PROVE  /\ wip' \in [Rows -> DocumentStep]
           /\ lock' \in [Rows -> Sessions \cup {None}]
           /\ won' \in [Sessions -> SUBSET (Rows \X Nat)]
<1>1. <<r, Clock(row)>> \in Rows \X Nat
  BY ClockType
<1> QED
  BY <1>1, WriteType DEF Win, TypeOK

\* The initial state is typed.
LEMMA InitTyped == Init => Typed
<1> SUFFICES ASSUME Init PROVE Typed
  OBVIOUS
<1>1. Blank("absent", 0) \in DocumentStep
  BY BlankType DEF StepStatus
<1> QED
  BY <1>1, StepsAssumption
     DEF Init, Typed, TypeOK, CallShape, Idle, Calls, CallOps

\* A call begins.
LEMMA BeginTyped ==
    ASSUME Typed, NEW s \in Sessions, NEW op \in CallOps \ {"none"}, NEW r \in Rows,
           NEW rest \in SUBSET Rows, r \notin rest,
           op = "reset_from" \/ rest = {}, Begin(s, op, r, rest),
           resets' \in 0 .. MaxResets
    PROVE  Typed'
  BY DEF Begin, Typed, TypeOK, CallShape, Calls, Idle

\* A call returns.
LEMMA ReturnTyped ==
    ASSUME Typed, NEW s \in Sessions, Return(s),
           wip' \in [Rows -> DocumentStep],
           lock' \in [Rows -> Sessions \cup {None}],
           won' \in [Sessions -> SUBSET (Rows \X Nat)]
    PROVE  Typed'
  BY StepsAssumption DEF Return, Typed, TypeOK, CallShape, Calls, CallOps, Idle

LEMMA RowPairs ==
    ASSUME NEW r \in Rows
    PROVE  r = <<r[1], r[2]>> /\ r[1] \in Documents /\ r[2] \in STEP_ORDER
  BY DEF Rows

\* What the three single-row UPDATEs make of a row.
LEMMA ClaimedRow ==
    ASSUME NEW row \in DocumentStep
    PROVE  /\ Claimed(row) \in DocumentStep
           /\ Claimed(row).status = "running"
           /\ Claimed(row).gen = row.gen
<1>1. row.attempt + 1 \in Nat
  BY DEF DocumentStep
<1>2. Claimed(row) \in DocumentStep
  BY <1>1 DEF Claimed, DocumentStep, StepStatus
<1>3. Claimed(row).status = "running" /\ Claimed(row).gen = row.gen
  BY DEF Claimed, DocumentStep
<1> QED
  BY <1>2, <1>3

LEMMA SucceededRow ==
    ASSUME NEW row \in DocumentStep, NEW o \in BOOLEAN, NEW l \in BOOLEAN, NEW m \in BOOLEAN
    PROVE  /\ Succeeded(row, o, l, m) \in DocumentStep
           /\ Succeeded(row, o, l, m).status = "succeeded"
           /\ Succeeded(row, o, l, m).gen = row.gen
  BY DEF Succeeded, DocumentStep, StepStatus

LEMMA FailedRow ==
    ASSUME NEW row \in DocumentStep, NEW e \in BOOLEAN
    PROVE  /\ Failed(row, e) \in DocumentStep
           /\ Failed(row, e).status = "failed"
           /\ Failed(row, e).gen = row.gen
  BY DEF Failed, DocumentStep, StepStatus

\* The outcome of a single-row call: nothing, or a win.
LEMMA ClaimForm ==
    ASSUME Typed, NEW s \in Sessions, claim(s)
    PROVE  LET r == call[s].at IN
           /\ r \in Rows /\ Return(s)
           /\ \/ NoRow
              \/ /\ Unlocked(s, r) /\ View(s, r).status = "pending"
                 /\ Win(s, r, Claimed(View(s, r)))
  BY DEF claim, Claimable, Typed, CallShape

LEMMA MarkForm ==
    ASSUME Typed, NEW s \in Sessions, mark_succeeded(s) \/ mark_failed(s)
    PROVE  LET r == call[s].at IN
           /\ r \in Rows /\ Return(s)
           /\ \/ NoRow
              \/ /\ Unlocked(s, r) /\ View(s, r).status = "running"
                 /\ \/ \E o, l, m \in BOOLEAN : Win(s, r, Succeeded(View(s, r), o, l, m))
                    \/ \E e \in BOOLEAN : Win(s, r, Failed(View(s, r), e))
<1>1. CASE mark_succeeded(s)
  BY <1>1, StepsAssumption DEF mark_succeeded, Typed, CallShape
<1>2. CASE mark_failed(s)
  BY <1>2, StepsAssumption DEF mark_failed, Typed, CallShape
<1> QED
  BY <1>1, <1>2

\* Each kind of step keeps the types.
LEMMA ClaimTyped ==
    ASSUME Typed, NEW s \in Sessions, claim(s)
    PROVE  Typed'
<1> DEFINE r == call[s].at
<1>1. r \in Rows /\ View(s, r) \in DocumentStep /\ Return(s)
  BY ClaimForm, ViewType DEF Typed
<1>2. CASE NoRow
  BY <1>1, <1>2, ReturnTyped DEF NoRow, Typed, TypeOK
<1>3. CASE Win(s, r, Claimed(View(s, r)))
  BY <1>1, <1>3, ClaimedRow, WinType, ReturnTyped DEF Typed
<1> QED
  BY <1>2, <1>3, ClaimForm

LEMMA MarkTyped ==
    ASSUME Typed, NEW s \in Sessions, mark_succeeded(s) \/ mark_failed(s)
    PROVE  Typed'
<1> DEFINE r == call[s].at
           row == View(s, r)
<1>1. r \in Rows /\ row \in DocumentStep /\ Return(s)
  BY MarkForm, ViewType DEF Typed
<1>2. CASE NoRow
  BY <1>1, <1>2, ReturnTyped DEF NoRow, Typed, TypeOK
<1>3. CASE \E new \in DocumentStep : Win(s, r, new)
  <2>1. PICK new \in DocumentStep : Win(s, r, new)
    BY <1>3
  <2> QED
    BY <1>1, <2>1, WinType, ReturnTyped DEF Typed
<1> QED
  BY <1>1, <1>2, <1>3, MarkForm, SucceededRow, FailedRow

LEMMA EnsureTyped ==
    ASSUME Typed, NEW s \in Sessions, ensure_steps(s)
    PROVE  Typed'
<1> DEFINE r == call[s].at
<1>1. r \in Rows /\ call[s].op # "none" /\ call[s] \in Calls
  BY DEF ensure_steps, Typed, TypeOK, CallShape
<1>2. wip' \in [Rows -> DocumentStep] /\ lock' \in [Rows -> Sessions \cup {None}]
  <2>1. Blank("pending", 0) \in DocumentStep
    BY BlankType DEF StepStatus
  <2> QED
    BY <1>1, <2>1, WriteType DEF ensure_steps, Typed, TypeOK
<1>3. CASE r[2] = NumSteps
  <2>1. Return(s) /\ UNCHANGED won
    BY <1>3 DEF ensure_steps, LastRow, Return
  <2> QED
    BY <1>2, <2>1, ReturnTyped DEF Typed, TypeOK
<1>4. CASE r[2] # NumSteps
  <2> DEFINE n == <<r[1], r[2] + 1>>
  <2>1. n \in Rows
    BY <1>1, <1>4, RowPairs, StepsAssumption DEF Rows, STEP_ORDER
  <2>3. call' = [call EXCEPT ![s].at = n] /\ UNCHANGED <<db, resets, won, ledger>>
    BY <1>4 DEF ensure_steps, LastRow
  <2> HIDE DEF n
  <2>4. call'[s] = [op |-> call[s].op, at |-> n, rest |-> call[s].rest]
    BY <1>1, <2>3 DEF Typed, TypeOK, Calls
  <2>5. n \notin call[s].rest
    <3>1. call[s].rest = {}
      BY DEF Typed, CallShape, ensure_steps
    <3> QED
      BY <3>1
  <2>6. TypeOK'
    BY <1>1, <1>2, <2>1, <2>3, <2>4 DEF Typed, TypeOK, Calls
  <2>7. CallShape'
    BY <1>1, <2>1, <2>3, <2>4, <2>5 DEF Typed, TypeOK, CallShape
  <2> QED
    BY <2>6, <2>7 DEF Typed
<1> QED
  BY <1>3, <1>4

LEMMA ResetTyped ==
    ASSUME Typed, NEW s \in Sessions, reset_from(s)
    PROVE  Typed'
<1> DEFINE r == call[s].at
<1>1. r \in Rows /\ call[s].op # "none" /\ call[s] \in Calls /\ View(s, r) \in DocumentStep
  BY ViewType DEF reset_from, Typed, TypeOK, CallShape
<1>2. wip' \in [Rows -> DocumentStep] /\ lock' \in [Rows -> Sessions \cup {None}]
  <2>1. View(s, r).gen + 1 \in Nat
    BY <1>1 DEF DocumentStep
  <2>2. Blank("pending", View(s, r).gen + 1) \in DocumentStep
    BY <2>1, BlankType DEF StepStatus
  <2> QED
    BY <1>1, <2>2, WriteType DEF reset_from, Typed
<1>3. CASE call' = [call EXCEPT ![s] = Idle]
  <2>1. Return(s) /\ UNCHANGED won
    BY <1>3 DEF reset_from, Return
  <2> QED
    BY <1>2, <2>1, ReturnTyped DEF Typed, TypeOK
<1>4. CASE \E n \in call[s].rest :
              call' = [call EXCEPT ![s].at = n, ![s].rest = @ \ {n}]
  <2>1. PICK n \in call[s].rest : call' = [call EXCEPT ![s].at = n, ![s].rest = @ \ {n}]
    BY <1>4
  <2>2. n \in Rows
    BY <1>1 DEF Calls
  <2>3. UNCHANGED <<db, resets, won, ledger>>
    BY DEF reset_from
  <2> QED
    BY <1>1, <1>2, <2>1, <2>2, <2>3 DEF Typed, TypeOK, CallShape, Calls, CallOps, Idle
<1> QED
  BY <1>3, <1>4 DEF reset_from

LEMMA CommitTyped ==
    ASSUME Typed, NEW s \in Sessions, Commit(s)
    PROVE  Typed'
<1>1. db' \in [Rows -> DocumentStep]
  BY ViewType DEF Commit, Typed
<1> QED
  BY <1>1 DEF Commit, Typed, TypeOK, CallShape

LEMMA UndoTyped ==
    ASSUME Typed, NEW s \in Sessions, Undo(s)
    PROVE  Typed'
  BY StepsAssumption DEF Undo, Typed, TypeOK, CallShape, Calls, CallOps, Idle

LEMMA CallsTyped ==
    ASSUME Typed, NEW s \in Sessions,
           \/ \E d \in Documents : CallEnsure(s, d)
           \/ \E r \in Rows, op \in CallOps : CallUpdate(s, op, r)
           \/ \E d \in Documents, step \in STEP_ORDER : CallReset(s, d, step)
    PROVE  Typed'
<1>0. resets \in 0 .. MaxResets
  BY DEF Typed, TypeOK
<1>1. ASSUME NEW d \in Documents, CallEnsure(s, d) PROVE Typed'
  <2>1. <<d, 1>> \in Rows
    BY StepsAssumption DEF Rows, STEP_ORDER
  <2> QED
    BY <1>0, <1>1, <2>1, BeginTyped DEF CallEnsure, CallOps
<1>2. ASSUME NEW r \in Rows, NEW op \in CallOps, CallUpdate(s, op, r) PROVE Typed'
  BY <1>0, <1>2, BeginTyped DEF CallUpdate, CallOps
<1>3. ASSUME NEW d \in Documents, NEW step \in STEP_ORDER, CallReset(s, d, step)
      PROVE  Typed'
  <2>1. PICK r \in ResetRows(s, d, step) :
           Begin(s, "reset_from", r, ResetRows(s, d, step) \ {r})
    BY <1>3 DEF CallReset
  <2>2. r \in Rows /\ ResetRows(s, d, step) \ {r} \in SUBSET Rows
    BY DEF ResetRows
  <2>3. resets' \in 0 .. MaxResets
    BY <1>0, <1>3, StepsAssumption DEF CallReset
  <2>4. r \notin ResetRows(s, d, step) \ {r} /\ "reset_from" \in CallOps \ {"none"}
    BY DEF CallOps
  <2> QED
    BY <2>1, <2>2, <2>3, <2>4, BeginTyped
<1> QED
  BY <1>1, <1>2, <1>3

LEMMA NextTyped == Typed /\ [Next]_vars => Typed'
<1> SUFFICES ASSUME Typed, [Next]_vars PROVE Typed'
  OBVIOUS
<1>1. CASE UNCHANGED vars
  BY <1>1 DEF vars, Typed, TypeOK, CallShape
<1>2. CASE Next
  BY <1>2, CallsTyped, ClaimTyped, MarkTyped, EnsureTyped, ResetTyped,
     CommitTyped, UndoTyped DEF Next, Work, End, Rollback, Crash, DeadlockAbort
<1> QED
  BY <1>1, <1>2

\* Every state is typed.
THEOREM TypeCorrect == Spec => []TypeOK
<1>1. Typed => TypeOK
  BY DEF Typed
<1> QED
  BY <1>1, InitTyped, NextTyped, PTL DEF Spec

----------------------------------------------------------------------------
(* Layer 2: rows *)

\* An unlocked row has no uncommitted version; a locked one exists in it;
\* a row that does not exist was never reset.
RowsSound ==
    /\ RowsAreConsistent
    /\ \A r \in Rows :
          /\ lock[r] = None => wip[r] = db[r]
          /\ lock[r] # None => wip[r].status # "absent"
          /\ db[r].status = "absent" => db[r].gen = 0
          /\ wip[r].status = "absent" => wip[r].gen = 0

\* A session that holds a row, or finds it free, sees its latest version.
LEMMA ViewIsWip ==
    ASSUME RowsSound, NEW s \in Sessions, NEW r \in Rows, Unlocked(s, r)
    PROVE  View(s, r) = wip[r]
  BY DEF RowsSound, Unlocked, View

LEMMA BlankAgrees ==
    ASSUME NEW status \in {"absent", "pending"}, NEW gen \in Nat
    PROVE  /\ ColumnsAgree(Blank(status, gen))
           /\ Blank(status, gen).status = status
           /\ Blank(status, gen).gen = gen
  BY DEF ColumnsAgree, Blank

LEMMA ClaimedAgrees ==
    ASSUME NEW row \in DocumentStep, ColumnsAgree(row), row.status = "pending"
    PROVE  ColumnsAgree(Claimed(row))
<1>1. row = Blank("pending", row.gen)
  BY DEF ColumnsAgree
<1>2. row.attempt = 0 /\ ~ row.output /\ ~ row.metrics
  BY <1>1 DEF Blank
<1>3. /\ Claimed(row).attempt = 1 /\ Claimed(row).started /\ ~ Claimed(row).finished
      /\ ~ Claimed(row).duration /\ ~ Claimed(row).error
  BY <1>2 DEF Claimed, DocumentStep
<1>4. Claimed(row).output = row.output /\ Claimed(row).metrics = row.metrics
  BY DEF Claimed, DocumentStep
<1> QED
  BY <1>2, <1>3, <1>4, ClaimedRow DEF ColumnsAgree

LEMMA SucceededAgrees ==
    ASSUME NEW row \in DocumentStep, ColumnsAgree(row), row.status = "running",
           NEW o \in BOOLEAN, NEW l \in BOOLEAN, NEW m \in BOOLEAN
    PROVE  ColumnsAgree(Succeeded(row, o, l, m))
<1> DEFINE new == Succeeded(row, o, l, m)
<1>1. row.attempt = 1 /\ row.started /\ ~ row.error
  BY DEF ColumnsAgree
<1>2. /\ new.attempt = row.attempt /\ new.started = row.started
      /\ new.error = row.error /\ new.finished
  BY DEF Succeeded, DocumentStep
<1>3. new.duration = (l \/ row.started)
  BY DEF Succeeded, DocumentStep
<1> HIDE DEF new
<1>4. new.status = "succeeded"
  BY SucceededRow DEF new
<1>5. ColumnsAgree(new)
  BY <1>1, <1>2, <1>3, <1>4 DEF ColumnsAgree
<1> QED
  BY <1>5 DEF new

LEMMA FailedAgrees ==
    ASSUME NEW row \in DocumentStep, ColumnsAgree(row), row.status = "running",
           NEW e \in BOOLEAN
    PROVE  ColumnsAgree(Failed(row, e))
<1> DEFINE new == Failed(row, e)
<1>1. row.attempt = 1 /\ row.started /\ ~ row.duration /\ ~ row.output /\ ~ row.metrics
  BY DEF ColumnsAgree
<1>2. /\ new.attempt = row.attempt /\ new.started = row.started
      /\ new.duration = row.duration /\ new.output = row.output
      /\ new.metrics = row.metrics /\ new.finished
  BY DEF Failed, DocumentStep
<1>3. new.status = "failed"
  BY FailedRow
<1> HIDE DEF new
<1>4. ColumnsAgree(new)
  BY <1>1, <1>2, <1>3 DEF ColumnsAgree
<1> QED
  BY <1>4 DEF new

\* Any write of a consistent, existing row.
LEMMA WriteSound ==
    ASSUME Typed, RowsSound, NEW s \in Sessions, NEW r \in Rows, NEW row \in DocumentStep,
           Write(s, r, row), ColumnsAgree(row), row.status # "absent", UNCHANGED db
    PROVE  RowsSound'
<1>1. s # None
  BY StepsAssumption
<1>2. ASSUME NEW q \in Rows
      PROVE  \/ q = r /\ wip'[q] = row /\ lock'[q] = s
             \/ q # r /\ wip'[q] = wip[q] /\ lock'[q] = lock[q]
  BY DEF Write, Typed, TypeOK
<1> QED
  BY <1>1, <1>2 DEF RowsSound, RowsAreConsistent, ColumnsAgree

LEMMA SameSound ==
    ASSUME RowsSound, UNCHANGED <<db, wip, lock>>
    PROVE  RowsSound'
  BY DEF RowsSound, RowsAreConsistent, ColumnsAgree

LEMMA InitSound == Init => RowsSound
<1> SUFFICES ASSUME Init PROVE RowsSound
  OBVIOUS
<1>1. ASSUME NEW r \in Rows
      PROVE  /\ db[r] = Blank("absent", 0) /\ wip[r] = Blank("absent", 0)
             /\ lock[r] = None
  BY DEF Init
<1> QED
  BY <1>1, BlankAgrees DEF RowsSound, RowsAreConsistent

LEMMA NextSound == Typed /\ RowsSound /\ [Next]_vars => RowsSound'
<1> SUFFICES ASSUME Typed, RowsSound, [Next]_vars PROVE RowsSound'
  OBVIOUS
<1>1. CASE UNCHANGED vars
  BY <1>1, SameSound DEF vars
<1>2. CASE Next
  <2>1. PICK s \in Sessions : Next!(s)
    BY <1>2 DEF Next
  <2> DEFINE r == call[s].at
             row == View(s, r)
  <2>2. CASE \/ \E d \in Documents : CallEnsure(s, d)
             \/ \E q \in Rows, op \in CallOps : CallUpdate(s, op, q)
             \/ \E d \in Documents, step \in STEP_ORDER : CallReset(s, d, step)
    BY <2>2, SameSound DEF CallEnsure, CallUpdate, CallReset, Begin
  <2>3. ASSUME r \in Rows
        PROVE  row \in DocumentStep /\ ColumnsAgree(row)
    BY <2>3, ViewType DEF Typed, RowsSound, RowsAreConsistent, View
  <2>4. CASE claim(s)
    BY <2>3, <2>4, ClaimForm, ClaimedRow, ClaimedAgrees, WriteSound, SameSound
       DEF Win, NoRow, Return
  <2>5. CASE mark_succeeded(s) \/ mark_failed(s)
    BY <2>3, <2>5, MarkForm, SucceededRow, SucceededAgrees, FailedRow, FailedAgrees,
       WriteSound, SameSound DEF Win, NoRow, Return
  <2>6. CASE ensure_steps(s)
    <3>1. r \in Rows
      BY <2>6 DEF ensure_steps, Typed, CallShape
    <3> QED
      BY <2>6, <3>1, BlankType, BlankAgrees, WriteSound, SameSound
         DEF ensure_steps, StepStatus
  <2>7. CASE reset_from(s)
    <3>1. r \in Rows
      BY <2>7 DEF reset_from, Typed, CallShape
    <3>2. row.gen + 1 \in Nat
      BY <2>3, <3>1 DEF DocumentStep
    <3>3. Write(s, r, Blank("pending", row.gen + 1)) /\ UNCHANGED db
      BY <2>7 DEF reset_from
    <3> QED
      BY <3>1, <3>2, <3>3, BlankType, BlankAgrees, WriteSound DEF StepStatus
  <2>8. CASE Commit(s)
    <3>1. ASSUME NEW q \in Rows
          PROVE  /\ db'[q] = View(s, q) /\ wip'[q] = wip[q]
                 /\ lock'[q] = (IF lock[q] = s THEN None ELSE lock[q])
      BY <2>8 DEF Commit
    <3> QED
      BY <3>1 DEF RowsSound, RowsAreConsistent, View, Typed, TypeOK
  <2>9. CASE Undo(s)
    <3>1. ASSUME NEW q \in Rows
          PROVE  /\ db'[q] = db[q]
                 /\ wip'[q] = (IF lock[q] = s THEN db[q] ELSE wip[q])
                 /\ lock'[q] = (IF lock[q] = s THEN None ELSE lock[q])
      BY <2>9 DEF Undo
    <3> QED
      BY <3>1 DEF RowsSound, RowsAreConsistent
  <2> QED
    BY <2>1, <2>2, <2>4, <2>5, <2>6, <2>7, <2>8, <2>9
       DEF Work, End, Rollback, Crash, DeadlockAbort
<1> QED
  BY <1>1, <1>2

\* No column of an earlier run survives in a row, and no run has a second
\* attempt.
THEOREM RowsConsistent == Spec => []RowsAreConsistent
<1>1. RowsSound => RowsAreConsistent
  BY DEF RowsSound
<1> QED
  BY <1>1, InitTyped, NextTyped, InitSound, NextSound, PTL DEF Spec

----------------------------------------------------------------------------
(* Layer 3: wins *)

Pend(t) == t % 3 = 1
Fin(t)  == t > 0 /\ t % 3 = 0

\* The wins of the transaction that holds row r.
WonBy(s) == IF s \in Sessions THEN won[s] ELSE {}

\* The present run of a row, committed or not, is accounted for.
RowWins ==
    \A r \in Rows :
        /\ Clock(db[r]) <= Clock(wip[r])
        /\ ~ Pend(Clock(db[r])) /\ Clock(db[r]) > 0 => <<r, Clock(db[r])>> \in ledger
        /\ ~ Pend(Clock(wip[r])) /\ Clock(wip[r]) > 0
              => <<r, Clock(wip[r])>> \in ledger \cup WonBy(lock[r])

\* Committed wins are past; a run that was finished was claimed.
LedgerWins ==
    \A m \in ledger :
        /\ m[2] <= Clock(db[m[1]])
        /\ Fin(m[2]) => <<m[1], m[2] - 1>> \in ledger

\* Uncommitted wins lie between the committed and the uncommitted version
\* of a row their session holds.
OpenWins ==
    \A s \in Sessions : \A m \in won[s] :
        /\ lock[m[1]] = s
        /\ Clock(db[m[1]]) < m[2]
        /\ m[2] <= Clock(wip[m[1]])
        /\ ~ Pend(m[2])
        /\ Fin(m[2]) => <<m[1], m[2] - 1>> \in ledger \cup won[s]

WinsSound == RowWins /\ LedgerWins /\ OpenWins

\* The clock of a row by its status.
LEMMA ClockOf ==
    ASSUME NEW row \in DocumentStep
    PROVE  /\ row.gen \in Nat
           /\ row.status = "absent" => Clock(row) = 0
           /\ row.status = "pending" => Clock(row) = 3 * row.gen + 1
           /\ row.status = "running" => Clock(row) = 3 * row.gen + 2
           /\ row.status \in {"succeeded", "failed"} => Clock(row) = 3 * row.gen + 3
           /\ Clock(row) <= 3 * row.gen + 3
  BY DEF Clock, DocumentStep, StepStatus

\* The clock after a win, an insertion and a reset.
LEMMA WinClock ==
    ASSUME NEW row \in DocumentStep, NEW new \in DocumentStep, new.gen = row.gen,
           \/ row.status = "pending" /\ new.status = "running"
           \/ row.status = "running" /\ new.status \in {"succeeded", "failed"}
    PROVE  Clock(new) = Clock(row) + 1 /\ Clock(row) > 0 /\ ~ Pend(Clock(new))
<1>1. row.gen \in Nat
  BY DEF DocumentStep
<1>2. \/ Clock(row) = 3 * row.gen + 1 /\ Clock(new) = 3 * row.gen + 2
      \/ Clock(row) = 3 * row.gen + 2 /\ Clock(new) = 3 * row.gen + 3
  BY ClockOf
<1> QED
  BY <1>1, <1>2 DEF Pend

LEMMA PendingClock ==
    ASSUME NEW gen \in Nat
    PROVE  LET new == Blank("pending", gen) IN
           /\ new \in DocumentStep /\ new.status = "pending" /\ new.gen = gen
           /\ Clock(new) = 3 * gen + 1 /\ Pend(Clock(new))
<1> DEFINE new == Blank("pending", gen)
<1>1. new \in DocumentStep /\ new.status = "pending" /\ new.gen = gen
  BY BlankType, BlankAgrees DEF StepStatus
<1> HIDE DEF new
<1>2. Clock(new) = 3 * gen + 1
  BY <1>1, ClockOf
<1>3. Pend(Clock(new))
  BY <1>2 DEF Pend
<1> QED
  BY <1>1, <1>2, <1>3 DEF new

\* What a statement of s can do to row r: nothing, move it one step on and
\* report a win, or make it pending at a later time and report nothing.
Effect(s, r) ==
    \/ UNCHANGED <<wip, lock, won>>
    \/ \E row \in DocumentStep :
          /\ Unlocked(s, r)
          /\ Write(s, r, row)
          /\ \/ /\ Pend(Clock(row))
                /\ Clock(wip[r]) < Clock(row)
                /\ UNCHANGED won
             \/ /\ Clock(row) = Clock(wip[r]) + 1
                /\ Clock(wip[r]) > 0
                /\ ~ Pend(Clock(row))
                /\ won' = [won EXCEPT ![s] = @ \cup {<<r, Clock(row)>>}]

LEMMA WriteForm ==
    ASSUME Typed, RowsSound, NEW s \in Sessions, Work(s)
    PROVE  call[s].at \in Rows /\ UNCHANGED <<db, ledger>> /\ Effect(s, call[s].at)
<1> DEFINE r == call[s].at
           row == View(s, r)
<1>1. r \in Rows
  BY DEF Work, claim, mark_succeeded, mark_failed, ensure_steps, reset_from, Typed, CallShape
<1>2. UNCHANGED <<db, ledger>>
  BY DEF Work, claim, mark_succeeded, mark_failed, ensure_steps, reset_from, Return
<1>3. row \in DocumentStep /\ (Unlocked(s, r) => row = wip[r])
  BY <1>1, ViewType, ViewIsWip DEF Typed
<1> SUFFICES Effect(s, r)
  BY <1>1, <1>2
<1>4. ASSUME Unlocked(s, r), NEW new \in DocumentStep, Win(s, r, new), new.gen = row.gen,
             \/ row.status = "pending" /\ new.status = "running"
             \/ row.status = "running" /\ new.status \in {"succeeded", "failed"}
      PROVE  Effect(s, r)
  <2>1. Clock(new) = Clock(wip[r]) + 1 /\ Clock(wip[r]) > 0 /\ ~ Pend(Clock(new))
    BY <1>3, <1>4, WinClock
  <2> QED
    BY <1>4, <2>1 DEF Effect, Win
<1>5. ASSUME Unlocked(s, r), NEW gen \in Nat, Write(s, r, Blank("pending", gen)),
             Clock(row) < 3 * gen + 1, UNCHANGED won
      PROVE  Effect(s, r)
  BY <1>3, <1>5, PendingClock DEF Effect
<1>6. CASE claim(s)
  BY <1>3, <1>4, <1>6, ClaimForm, ClaimedRow DEF Effect, NoRow
<1>7. CASE mark_succeeded(s) \/ mark_failed(s)
  <2>1. CASE NoRow
    BY <2>1 DEF Effect, NoRow
  <2>2. ASSUME Unlocked(s, r), row.status = "running",
               NEW o \in BOOLEAN, NEW l \in BOOLEAN, NEW m \in BOOLEAN,
               Win(s, r, Succeeded(row, o, l, m))
        PROVE  Effect(s, r)
    BY <1>3, <1>4, <2>2, SucceededRow
  <2>3. ASSUME Unlocked(s, r), row.status = "running", NEW e \in BOOLEAN,
               Win(s, r, Failed(row, e))
        PROVE  Effect(s, r)
    BY <1>3, <1>4, <2>3, FailedRow
  <2> QED
    BY <1>7, <2>1, <2>2, <2>3, MarkForm
<1>8. CASE ensure_steps(s)
  <2>1. UNCHANGED won /\ Unlocked(s, r)
    BY <1>8 DEF ensure_steps
  <2>2. CASE row.status # "absent"
    BY <1>8, <2>1, <2>2 DEF ensure_steps, Effect
  <2>3. CASE row.status = "absent"
    <3>1. Clock(row) < 3 * 0 + 1
      BY <1>3, <2>3, ClockOf
    <3>2. Write(s, r, Blank("pending", 0))
      BY <1>8, <2>3 DEF ensure_steps
    <3> QED
      BY <1>5, <2>1, <3>1, <3>2
  <2> QED
    BY <2>2, <2>3
<1>9. CASE reset_from(s)
  <2>1. row.gen + 1 \in Nat /\ Clock(row) \in Nat /\ Clock(row) < 3 * (row.gen + 1) + 1
    BY <1>3, ClockOf, ClockType
  <2>2. UNCHANGED won /\ Unlocked(s, r) /\ Write(s, r, Blank("pending", row.gen + 1))
    BY <1>9 DEF reset_from
  <2> QED
    BY <1>5, <2>1, <2>2
<1> QED
  BY <1>6, <1>7, <1>8, <1>9 DEF Work

LEMMA InitWins == Init => WinsSound
<1> SUFFICES ASSUME Init PROVE WinsSound
  OBVIOUS
<1>1. Clock(Blank("absent", 0)) = 0
  BY DEF Clock, Blank
<1>2. \A r \in Rows : Clock(db[r]) = 0 /\ Clock(wip[r]) = 0
  BY <1>1 DEF Init
<1> QED
  BY <1>2 DEF Init, WinsSound, RowWins, LedgerWins, OpenWins

\* A statement of a session.
LEMMA WorkWins ==
    ASSUME Typed, RowsSound, WinsSound, NEW s \in Sessions, Work(s)
    PROVE  WinsSound'
<1> DEFINE r == call[s].at
<1>1. r \in Rows /\ UNCHANGED <<db, ledger>> /\ Effect(s, r)
  BY WriteForm
<1>2. CASE UNCHANGED <<wip, lock, won>>
  BY <1>1, <1>2 DEF WinsSound, RowWins, LedgerWins, OpenWins, WonBy
<1>3. ASSUME NEW row \in DocumentStep, Unlocked(s, r), Write(s, r, row),
             \/ /\ Pend(Clock(row))
                /\ Clock(wip[r]) < Clock(row)
                /\ UNCHANGED won
             \/ /\ Clock(row) = Clock(wip[r]) + 1
                /\ Clock(wip[r]) > 0
                /\ ~ Pend(Clock(row))
                /\ won' = [won EXCEPT ![s] = @ \cup {<<r, Clock(row)>>}]
      PROVE  WinsSound'
  <2> DEFINE c == Clock(wip[r])
             n == Clock(row)
             W(q) == Clock(wip[q])
             D(q) == Clock(db[q])
  <2>1. /\ c \in Nat /\ n \in Nat /\ c < n
        /\ \A q \in Rows : W(q) \in Nat /\ D(q) \in Nat /\ D(q) <= W(q)
    <3>1. ASSUME NEW q \in Rows
          PROVE  W(q) \in Nat /\ D(q) \in Nat /\ D(q) <= W(q)
      <4>1. wip[q] \in DocumentStep /\ db[q] \in DocumentStep
        BY DEF Typed, TypeOK
      <4> QED
        BY <4>1, ClockType DEF WinsSound, RowWins
    <3>2. n \in Nat
      BY ClockType
    <3> QED
      BY <1>1, <1>3, <3>1, <3>2
  <2>2. /\ \A q \in Rows : q # r => wip'[q] = wip[q] /\ lock'[q] = lock[q]
        /\ wip'[r] = row /\ lock'[r] = s
    BY <1>1, <1>3 DEF Write, Typed, TypeOK
  <2>3. /\ \A t \in Sessions : won[t] \subseteq won'[t]
        /\ \A t \in Sessions : t # s => won'[t] = won[t]
        /\ \A m \in won'[s] : m \in won[s] \/ (m = <<r, n>> /\ n = c + 1 /\ c > 0 /\ ~ Pend(n))
        /\ Pend(n) \/ <<r, n>> \in won'[s]
    BY <1>3 DEF Typed, TypeOK
  <2>4. \A t \in Sessions : \A m \in won[t] : m[1] \in Rows /\ m[2] \in Nat
    BY DEF Typed, TypeOK
  <2>5. s # None /\ lock[r] \in {None, s}
    BY <1>3, StepsAssumption DEF Unlocked
  <2>6. ASSUME NEW t \in Sessions, NEW m \in won[t], m[1] = r
        PROVE  t = s
    <3>1. lock[m[1]] = t
      BY DEF WinsSound, OpenWins
    <3>2. t # None
      BY StepsAssumption
    <3> QED
      BY <2>5, <2>6, <3>1, <3>2
  <2>7. ~ Pend(c) /\ c > 0 => <<r, c>> \in ledger \cup won[s]
    BY <1>1, <2>5, StepsAssumption DEF WinsSound, RowWins, WonBy
  <2>8. ASSUME NEW q \in Rows
        PROVE  /\ D(q) <= Clock(wip'[q])
               /\ ~ Pend(Clock(wip'[q])) /\ Clock(wip'[q]) > 0
                     => <<q, Clock(wip'[q])>> \in ledger \cup WonBy(lock[q])'
    <3>1. CASE q = r
      BY <2>1, <2>2, <2>3, <3>1 DEF WonBy
    <3>2. CASE q # r
      <4>1. WonBy(lock[q]) \subseteq WonBy(lock[q])'
        BY <2>2, <2>3, <3>2 DEF WonBy
      <4> QED
        BY <2>1, <2>2, <3>2, <4>1 DEF WinsSound, RowWins
    <3> QED
      BY <3>1, <3>2
  <2>9. ASSUME NEW t \in Sessions, NEW m \in won'[t]
        PROVE  /\ lock'[m[1]] = t
               /\ D(m[1]) < m[2]
               /\ m[2] <= Clock(wip'[m[1]])
               /\ ~ Pend(m[2])
               /\ Fin(m[2]) => <<m[1], m[2] - 1>> \in ledger \cup won'[t]
    <3>1. CASE m \in won[t]
      <4>1. /\ lock[m[1]] = t /\ D(m[1]) < m[2] /\ m[2] <= W(m[1]) /\ ~ Pend(m[2])
            /\ Fin(m[2]) => <<m[1], m[2] - 1>> \in ledger \cup won[t]
        BY <3>1 DEF WinsSound, OpenWins
      <4>2. CASE m[1] = r
        BY <2>1, <2>2, <2>3, <2>4, <2>6, <3>1, <4>1, <4>2
      <4>3. CASE m[1] # r
        BY <2>2, <2>3, <2>4, <3>1, <4>1, <4>3
      <4> QED
        BY <4>2, <4>3
    <3>2. CASE m \notin won[t]
      <4>1. t = s /\ m = <<r, n>> /\ n = c + 1 /\ c > 0 /\ ~ Pend(n)
        BY <2>3, <3>2
      <4>2. D(r) < n
        BY <1>1, <2>1
      <4>3. Fin(n) => <<r, n - 1>> \in ledger \cup won'[s]
        <5>1. Fin(n) => ~ Pend(c) /\ n - 1 = c
          BY <2>1, <4>1 DEF Fin, Pend
        <5> QED
          BY <2>3, <2>7, <4>1, <5>1
      <4> QED
        BY <2>1, <2>2, <4>1, <4>2, <4>3
    <3> QED
      BY <3>1, <3>2
  <2> QED
    <3>1. RowWins'
      BY <1>1, <2>8 DEF WinsSound, RowWins
    <3>2. LedgerWins'
      BY <1>1 DEF WinsSound, LedgerWins
    <3>3. OpenWins'
      BY <1>1, <2>9 DEF OpenWins
    <3> QED
      BY <3>1, <3>2, <3>3 DEF WinsSound
<1> QED
  BY <1>1, <1>2, <1>3 DEF Effect

\* A transaction commits.
LEMMA CommitWins ==
    ASSUME Typed, RowsSound, WinsSound, NEW s \in Sessions, Commit(s)
    PROVE  WinsSound'
<1>1. ASSUME NEW q \in Rows
      PROVE  /\ db'[q] = (IF lock[q] = s THEN wip[q] ELSE db[q])
             /\ lock'[q] = (IF lock[q] = s THEN None ELSE lock[q])
             /\ Clock(wip[q]) \in Nat /\ Clock(db[q]) \in Nat
  BY ClockType DEF Commit, View, Typed, TypeOK
<1>2. /\ ledger' = ledger \cup won[s] /\ wip' = wip
      /\ \A t \in Sessions : won'[t] = (IF t = s THEN {} ELSE won[t])
  BY DEF Commit, Typed, TypeOK
<1>3. /\ \A t \in Sessions : \A m \in won[t] : m[1] \in Rows /\ m[2] \in Nat
      /\ \A m \in ledger : m[1] \in Rows /\ m[2] \in Nat
  BY DEF Typed, TypeOK
<1>4. ASSUME NEW q \in Rows
      PROVE  /\ Clock(db'[q]) <= Clock(wip'[q])
             /\ ~ Pend(Clock(db'[q])) /\ Clock(db'[q]) > 0
                   => <<q, Clock(db'[q])>> \in ledger'
             /\ ~ Pend(Clock(wip'[q])) /\ Clock(wip'[q]) > 0
                   => <<q, Clock(wip'[q])>> \in ledger' \cup WonBy(lock[q])'
  <2>1. CASE lock[q] = s
    <3>1. db'[q] = wip[q] /\ wip'[q] = wip[q]
      BY <1>1, <1>2, <2>1
    <3>2. WonBy(lock[q]) = won[s]
      BY <2>1 DEF WonBy
    <3>3. ~ Pend(Clock(wip[q])) /\ Clock(wip[q]) > 0
             => <<q, Clock(wip[q])>> \in ledger \cup won[s]
      BY <3>2 DEF WinsSound, RowWins
    <3>4. Clock(wip[q]) <= Clock(wip[q])
      BY <1>1
    <3> QED
      BY <1>2, <3>1, <3>3, <3>4
  <2>2. CASE lock[q] # s
    <3>1. WonBy(lock[q]) \subseteq WonBy(lock[q])'
      BY <1>1, <1>2, <2>2 DEF WonBy
    <3>2. db'[q] = db[q] /\ wip'[q] = wip[q]
      BY <1>1, <1>2, <2>2
    <3> QED
      BY <1>2, <3>1, <3>2 DEF WinsSound, RowWins
  <2> QED
    BY <2>1, <2>2
<1>5. ASSUME NEW m \in ledger'
      PROVE  /\ m[2] <= Clock(db'[m[1]])
             /\ Fin(m[2]) => <<m[1], m[2] - 1>> \in ledger'
  <2>1. CASE m \in ledger
    <3>1. m[1] \in Rows /\ m[2] \in Nat
      BY <1>3, <2>1
    <3>2. m[2] <= Clock(db[m[1]]) /\ (Fin(m[2]) => <<m[1], m[2] - 1>> \in ledger)
      BY <2>1 DEF WinsSound, LedgerWins
    <3>3. Clock(db[m[1]]) <= Clock(wip[m[1]])
      BY <3>1 DEF WinsSound, RowWins
    <3>4. Clock(db[m[1]]) <= Clock(db'[m[1]])
      BY <1>1, <3>1, <3>3
    <3>5. Clock(db'[m[1]]) \in Nat
      BY <1>1, <3>1
    <3> QED
      BY <1>1, <1>2, <3>1, <3>2, <3>4, <3>5
  <2>2. CASE m \in won[s]
    <3>1. /\ m[1] \in Rows /\ lock[m[1]] = s /\ m[2] <= Clock(wip[m[1]])
          /\ Fin(m[2]) => <<m[1], m[2] - 1>> \in ledger \cup won[s]
      BY <1>3, <2>2 DEF WinsSound, OpenWins
    <3>2. db'[m[1]] = wip[m[1]]
      BY <1>1, <3>1
    <3> QED
      BY <1>2, <3>1, <3>2
  <2> QED
    BY <1>2, <2>1, <2>2
<1>6. ASSUME NEW t \in Sessions, NEW m \in won'[t]
      PROVE  /\ lock'[m[1]] = t
             /\ Clock(db'[m[1]]) < m[2]
             /\ m[2] <= Clock(wip'[m[1]])
             /\ ~ Pend(m[2])
             /\ Fin(m[2]) => <<m[1], m[2] - 1>> \in ledger' \cup won'[t]
  <2>1. t # s /\ m \in won[t] /\ won'[t] = won[t]
    BY <1>2
  <2> QED
    BY <1>1, <1>2, <1>3, <2>1 DEF WinsSound, OpenWins
<1> QED
  BY <1>4, <1>5, <1>6 DEF WinsSound, RowWins, LedgerWins, OpenWins

\* A transaction is forgotten.
LEMMA UndoWins ==
    ASSUME Typed, RowsSound, WinsSound, NEW s \in Sessions, Undo(s)
    PROVE  WinsSound'
<1>1. ASSUME NEW q \in Rows
      PROVE  /\ wip'[q] = (IF lock[q] = s THEN db[q] ELSE wip[q])
             /\ lock'[q] = (IF lock[q] = s THEN None ELSE lock[q])
             /\ Clock(wip[q]) \in Nat /\ Clock(db[q]) \in Nat
  BY ClockType DEF Undo, Typed, TypeOK
<1>2. /\ ledger' = ledger /\ db' = db
      /\ \A t \in Sessions : won'[t] = (IF t = s THEN {} ELSE won[t])
  BY DEF Undo, Typed, TypeOK
<1>3. \A t \in Sessions : \A m \in won[t] : m[1] \in Rows /\ m[2] \in Nat
  BY DEF Typed, TypeOK
<1>4. ASSUME NEW q \in Rows
      PROVE  /\ Clock(db[q]) <= Clock(wip'[q])
             /\ ~ Pend(Clock(wip'[q])) /\ Clock(wip'[q]) > 0
                   => <<q, Clock(wip'[q])>> \in ledger \cup WonBy(lock[q])'
  <2>1. CASE lock[q] = s
    <3>1. wip'[q] = db[q]
      BY <1>1, <2>1
    <3>2. ~ Pend(Clock(db[q])) /\ Clock(db[q]) > 0 => <<q, Clock(db[q])>> \in ledger
      BY DEF WinsSound, RowWins
    <3>3. Clock(db[q]) <= Clock(db[q])
      BY <1>1
    <3> QED
      BY <3>1, <3>2, <3>3
  <2>2. CASE lock[q] # s
    <3>1. WonBy(lock[q]) \subseteq WonBy(lock[q])'
      BY <1>1, <1>2, <2>2 DEF WonBy
    <3>2. wip'[q] = wip[q]
      BY <1>1, <1>2, <2>2
    <3> QED
      BY <1>2, <3>1, <3>2 DEF WinsSound, RowWins
  <2> QED
    BY <2>1, <2>2
<1>5. ASSUME NEW t \in Sessions, NEW m \in won'[t]
      PROVE  /\ lock'[m[1]] = t
             /\ Clock(db[m[1]]) < m[2]
             /\ m[2] <= Clock(wip'[m[1]])
             /\ ~ Pend(m[2])
             /\ Fin(m[2]) => <<m[1], m[2] - 1>> \in ledger \cup won'[t]
  <2>1. t # s /\ m \in won[t] /\ won'[t] = won[t]
    BY <1>2
  <2> QED
    BY <1>1, <1>2, <1>3, <2>1 DEF WinsSound, OpenWins
<1> QED
  BY <1>2, <1>4, <1>5 DEF WinsSound, RowWins, LedgerWins, OpenWins

LEMMA NextWins == Typed /\ RowsSound /\ WinsSound /\ [Next]_vars => WinsSound'
<1> SUFFICES ASSUME Typed, RowsSound, WinsSound, [Next]_vars PROVE WinsSound'
  OBVIOUS
<1>1. ASSUME UNCHANGED <<db, wip, lock, won, ledger>>
      PROVE  WinsSound'
  BY <1>1 DEF WinsSound, RowWins, LedgerWins, OpenWins, WonBy
<1>2. CASE UNCHANGED vars
  BY <1>1, <1>2 DEF vars
<1>3. CASE Next
  <2>1. PICK s \in Sessions : Next!(s)
    BY <1>3 DEF Next
  <2>2. CASE \/ \E d \in Documents : CallEnsure(s, d)
             \/ \E q \in Rows, op \in CallOps : CallUpdate(s, op, q)
             \/ \E d \in Documents, step \in STEP_ORDER : CallReset(s, d, step)
    BY <1>1, <2>2 DEF CallEnsure, CallUpdate, CallReset, Begin
  <2>3. CASE Work(s)
    BY <2>3, WorkWins
  <2>4. CASE Commit(s)
    BY <2>4, CommitWins
  <2>5. CASE Rollback(s) \/ Crash(s) \/ DeadlockAbort(s)
    BY <2>5, UndoWins DEF Rollback, Crash, DeadlockAbort
  <2> QED
    BY <2>1, <2>2, <2>3, <2>4, <2>5 DEF End
<1> QED
  BY <1>2, <1>3

\* Wins of an open transaction are later than the committed row, committed
\* wins are not, and only the holder of a row has open wins of it.
LEMMA WinsSoundSuffices == Typed /\ WinsSound => WinsAreExclusive
<1> SUFFICES ASSUME Typed, WinsSound PROVE WinsAreExclusive
  OBVIOUS
<1>1. ASSUME NEW s \in Sessions, NEW m \in won[s]
      PROVE  m \notin ledger
  <2>0. m[1] \in Rows /\ m[2] \in Nat
    BY DEF Typed, TypeOK
  <2>1. m[1] \in Rows /\ m[2] \in Nat /\ Clock(db[m[1]]) < m[2]
    BY <2>0 DEF WinsSound, OpenWins
  <2>2. Clock(db[m[1]]) \in Nat
    BY <2>1, ClockType DEF Typed, TypeOK
  <2>3. ~ (m[2] <= Clock(db[m[1]]))
    BY <2>1, <2>2
  <2> QED
    BY <2>3 DEF WinsSound, LedgerWins
<1>2. ASSUME NEW s \in Sessions, NEW t \in Sessions, NEW m \in won[s] \cap won[t]
      PROVE  s = t
  <2>1. lock[m[1]] = s
    BY DEF WinsSound, OpenWins
  <2>2. lock[m[1]] = t
    BY DEF WinsSound, OpenWins
  <2> QED
    BY <2>1, <2>2
<1> QED
  BY <1>1, <1>2 DEF WinsAreExclusive

\* "exactly one concurrent caller can win" (claim) and the same of the two
\* mark calls, for any number of sessions, documents and steps: the row lock
\* and the re-read of the row after the wait are what makes it true.
THEOREM WinsExclusive == Spec => []WinsAreExclusive
  BY InitTyped, NextTyped, InitSound, NextSound, InitWins, NextWins,
     WinsSoundSuffices, PTL DEF Spec

----------------------------------------------------------------------------
(* The table implements StepLedger *)

LEMMA InitLedger == Init => Ledger!Init
<1>1. Clock(Blank("absent", 0)) = 0
  BY DEF Clock, Blank
<1> QED
  BY <1>1 DEF Init, Ledger!Init

\* The only step that a reader of committed data sees is a commit.
LEMMA CommitSettles ==
    ASSUME Typed, RowsSound, WinsSound, WinsSound', Typed', NEW s \in Sessions, Commit(s)
    PROVE  Ledger!Settle
<1>1. ASSUME NEW q \in Rows
      PROVE  /\ Clock(db[q]) \in Nat /\ Clock(db'[q]) \in Nat
             /\ Clock(db[q]) <= Clock(db'[q])
  <2>1. db'[q] = (IF lock[q] = s THEN wip[q] ELSE db[q])
    BY DEF Commit, View
  <2>2. Clock(db[q]) \in Nat /\ Clock(wip[q]) \in Nat /\ Clock(db[q]) <= Clock(wip[q])
    BY ClockType DEF Typed, TypeOK, WinsSound, RowWins
  <2> QED
    BY <2>1, <2>2
<1>2. ledger' = ledger \cup won[s]
  BY DEF Commit
<1>3. ASSUME NEW m \in ledger' \ ledger
      PROVE  /\ m \in Rows \X Nat
             /\ Clock(db[m[1]]) < m[2]
             /\ m[2] <= Clock(db'[m[1]])
             /\ ~ Pend(m[2])
  <2>1. m \in won[s]
    BY <1>2
  <2>2. m \in Rows \X Nat
    BY <2>1 DEF Typed, TypeOK
  <2>3. Clock(db[m[1]]) < m[2] /\ ~ Pend(m[2])
    BY <2>1 DEF WinsSound, OpenWins
  <2>4. m[2] <= Clock(db'[m[1]])
    BY <1>3 DEF WinsSound, LedgerWins
  <2> QED
    BY <2>2, <2>3, <2>4
<1>4. ASSUME NEW q \in Rows, ~ Pend(Clock(db'[q])), Clock(db'[q]) > 0
      PROVE  <<q, Clock(db'[q])>> \in ledger'
  BY <1>4 DEF WinsSound, RowWins
<1>5. ASSUME NEW m \in ledger', Fin(m[2])
      PROVE  <<m[1], m[2] - 1>> \in ledger'
  BY <1>5 DEF WinsSound, LedgerWins
<1>6. [q \in Rows |-> Clock(db[q])]' = [q \in Rows |-> Clock(db'[q])]
  OBVIOUS
<1> QED
  BY <1>1, <1>2, <1>3, <1>4, <1>5, <1>6
     DEF Ledger!Settle, Ledger!Moments, Ledger!Pending, Ledger!Finished, Pend, Fin

LEMMA NextSettles ==
    Typed /\ Typed' /\ RowsSound /\ WinsSound /\ WinsSound' /\ [Next]_vars
        => [Ledger!Settle]_(Ledger!vars)
<1> SUFFICES ASSUME Typed, Typed', RowsSound, WinsSound, WinsSound', [Next]_vars
             PROVE  [Ledger!Settle]_(Ledger!vars)
  OBVIOUS
<1>1. ASSUME UNCHANGED <<db, ledger>>
      PROVE  UNCHANGED Ledger!vars
  BY <1>1 DEF Ledger!vars
<1>2. ASSUME Next
      PROVE  UNCHANGED <<db, ledger>> \/ \E s \in Sessions : Commit(s)
  BY <1>2 DEF Next, CallEnsure, CallUpdate, CallReset, Begin, Work, claim, mark_succeeded,
     mark_failed, ensure_steps, reset_from, Return, End, Rollback, Crash, DeadlockAbort, Undo
<1> QED
  BY <1>1, <1>2, CommitSettles DEF vars

\* The detailed table implements its promise: committed step rows only move
\* forward in their life, and every run and every outcome in the table was
\* won by exactly one committed caller.
THEOREM LedgerRefined == Spec => ImplementsLedger
<1> USE DEF ImplementsLedger
<1> QED
  BY InitTyped, NextTyped, InitSound, NextSound, InitWins, NextWins, InitLedger, NextSettles,
     PTL DEF Spec, Ledger!Spec

----------------------------------------------------------------------------
(* Layer 4: the rows of a document *)

Missing(d) == \E i \in STEP_ORDER : db[<<d, i>>].status = "absent"

\* While a document misses a row it has none.  One session at a time inserts
\* them, in order: it holds the rows before the one it is at, and all of them
\* once its ensure_steps is over.  Nobody else can reset any.
DocsSound ==
    \A d \in Documents : Missing(d) =>
        /\ \A i \in STEP_ORDER : db[<<d, i>>].status = "absent"
        /\ \A i, j \in STEP_ORDER :
              j <= i /\ lock[<<d, i>>] # None => lock[<<d, j>>] = lock[<<d, i>>]
        /\ \A s \in Sessions :
              /\ \A i, j \in STEP_ORDER : lock[<<d, i>>] = s /\ lock[<<d, j>>] # s
                    => call[s].op = "ensure_steps" /\ call[s].at[1] = d
              /\ call[s].op = "ensure_steps" /\ call[s].at[1] = d
                    => \A i \in STEP_ORDER : i < call[s].at[2] => lock[<<d, i>>] = s
              /\ call[s].op = "reset_from"
                    => \A i \in STEP_ORDER :
                          <<d, i>> \in {call[s].at} \cup call[s].rest => lock[<<d, i>>] = s

\* A document and a step are a row.
LEMMA RowOf ==
    ASSUME NEW d \in Documents, NEW i \in STEP_ORDER
    PROVE  <<d, i>> \in Rows
  BY DEF Rows

\* Of a row that is not committed, a session sees what it has written.
LEMMA AbsentView ==
    ASSUME RowsSound, NEW s \in Sessions, NEW r \in Rows, db[r].status = "absent"
    PROVE  View(s, r).status # "absent" <=> lock[r] = s
<1>1. s # None
  BY StepsAssumption
<1> QED
  BY <1>1 DEF RowsSound, View

\* No row exists.
LEMMA InitDocs == Init => DocsSound
<1> SUFFICES ASSUME Init PROVE DocsSound
  OBVIOUS
<1>1. \A d \in Documents, i \in STEP_ORDER :
         db[<<d, i>>].status = "absent" /\ lock[<<d, i>>] = None
  BY RowOf DEF Init, Blank
<1>2. \A s \in Sessions : call[s].op = "none" /\ s # None
  BY StepsAssumption DEF Init, Idle
<1> QED
  BY <1>1, <1>2 DEF DocsSound

\* A step that commits nothing and locks no row that is not committed, of a
\* session that is not inserting.
LEMMA KeepsDocs ==
    ASSUME DocsSound, NEW s \in Sessions, UNCHANGED db,
           \A t \in Sessions : t # s => call'[t] = call[t],
           \A r \in Rows : db[r].status = "absent" => lock'[r] = lock[r],
           call[s].op # "ensure_steps",
           call'[s].op = "ensure_steps" => call'[s].at[2] = 1,
           call'[s].op = "reset_from" =>
              \A r \in Rows : r \in {call'[s].at} \cup call'[s].rest
                 => (db[r].status = "absent" => lock[r] = s)
    PROVE  DocsSound'
<1> SUFFICES ASSUME NEW d \in Documents, Missing(d)
             PROVE  /\ \A i \in STEP_ORDER : db[<<d, i>>].status = "absent"
                    /\ \A i, j \in STEP_ORDER :
                          j <= i /\ lock'[<<d, i>>] # None => lock'[<<d, j>>] = lock'[<<d, i>>]
                    /\ \A t \in Sessions :
                          /\ \A i, j \in STEP_ORDER : lock'[<<d, i>>] = t /\ lock'[<<d, j>>] # t
                                => call'[t].op = "ensure_steps" /\ call'[t].at[1] = d
                          /\ call'[t].op = "ensure_steps" /\ call'[t].at[1] = d
                                => \A i \in STEP_ORDER : i < call'[t].at[2] => lock'[<<d, i>>] = t
                          /\ call'[t].op = "reset_from"
                                => \A i \in STEP_ORDER :
                                      <<d, i>> \in {call'[t].at} \cup call'[t].rest
                                         => lock'[<<d, i>>] = t
  BY DEF DocsSound, Missing
<1>1. \A i \in STEP_ORDER : db[<<d, i>>].status = "absent"
  BY DEF DocsSound
<1>2. \A i \in STEP_ORDER : lock'[<<d, i>>] = lock[<<d, i>>]
  BY <1>1, RowOf
<1>3. \A i, j \in STEP_ORDER :
         j <= i /\ lock'[<<d, i>>] # None => lock'[<<d, j>>] = lock'[<<d, i>>]
  BY <1>2 DEF DocsSound
<1>4. ASSUME NEW t \in Sessions
      PROVE  /\ \A i, j \in STEP_ORDER : lock'[<<d, i>>] = t /\ lock'[<<d, j>>] # t
                   => call'[t].op = "ensure_steps" /\ call'[t].at[1] = d
             /\ call'[t].op = "ensure_steps" /\ call'[t].at[1] = d
                   => \A i \in STEP_ORDER : i < call'[t].at[2] => lock'[<<d, i>>] = t
             /\ call'[t].op = "reset_from"
                   => \A i \in STEP_ORDER :
                         <<d, i>> \in {call'[t].at} \cup call'[t].rest => lock'[<<d, i>>] = t
  <2>1. CASE t # s
    BY <1>2, <2>1 DEF DocsSound
  <2>2. CASE t = s
    <3>1. \A i, j \in STEP_ORDER : ~ (lock'[<<d, i>>] = s /\ lock'[<<d, j>>] # s)
      BY <1>2 DEF DocsSound
    <3>2. call'[s].op = "ensure_steps" => \A i \in STEP_ORDER : ~ (i < call'[s].at[2])
      BY StepsAssumption DEF STEP_ORDER
    <3>3. call'[s].op = "reset_from" => \A i \in STEP_ORDER :
             <<d, i>> \in {call'[s].at} \cup call'[s].rest => lock'[<<d, i>>] = s
      BY <1>1, <1>2, RowOf
    <3> QED
      BY <2>2, <3>1, <3>2, <3>3
  <2> QED
    BY <2>1, <2>2
<1> QED
  BY <1>1, <1>3, <1>4

\* A call is sent.
LEMMA BeginDocs ==
    ASSUME Typed, RowsSound, DocsSound, NEW s \in Sessions,
           \/ \E d \in Documents : CallEnsure(s, d)
           \/ \E r \in Rows, op \in CallOps : CallUpdate(s, op, r)
           \/ \E d \in Documents, step \in STEP_ORDER : CallReset(s, d, step)
    PROVE  DocsSound'
<1>t. call \in [Sessions -> Calls]
  BY DEF Typed, TypeOK
<1>1. ASSUME NEW op, NEW r, NEW rest, Begin(s, op, r, rest)
      PROVE  /\ call[s].op # "ensure_steps" /\ UNCHANGED <<db, lock>>
             /\ call'[s].op = op /\ call'[s].at = r /\ call'[s].rest = rest
             /\ \A t \in Sessions : t # s => call'[t] = call[t]
  BY <1>1, <1>t DEF Begin, Idle
<1>2. ASSUME NEW d \in Documents, CallEnsure(s, d) PROVE DocsSound'
  <2>1. Begin(s, "ensure_steps", <<d, 1>>, {})
    BY <1>2 DEF CallEnsure
  <2>2. call'[s].op = "ensure_steps" /\ call'[s].at[2] = 1
    BY <1>1, <2>1
  <2> QED
    BY <1>1, <2>1, <2>2, KeepsDocs
<1>3. ASSUME NEW r \in Rows, NEW op \in CallOps, CallUpdate(s, op, r) PROVE DocsSound'
  <2>1. Begin(s, op, r, {}) /\ op \in {"claim", "mark_succeeded", "mark_failed"}
    BY <1>3 DEF CallUpdate
  <2> QED
    BY <1>1, <2>1, KeepsDocs
<1>4. ASSUME NEW d \in Documents, NEW step \in STEP_ORDER, CallReset(s, d, step) PROVE DocsSound'
  <2>1. PICK r \in ResetRows(s, d, step) :
           Begin(s, "reset_from", r, ResetRows(s, d, step) \ {r})
    BY <1>4 DEF CallReset
  <2>2. ASSUME NEW q \in Rows, q \in {call'[s].at} \cup call'[s].rest, db[q].status = "absent"
        PROVE  lock[q] = s
    <3>1. q \in ResetRows(s, d, step)
      BY <1>1, <2>1, <2>2
    <3>2. View(s, q).status # "absent"
      BY <3>1 DEF ResetRows
    <3> QED
      BY <2>2, <3>2, AbsentView
  <2> QED
    BY <1>1, <2>1, <2>2, KeepsDocs
<1> QED
  BY <1>2, <1>3, <1>4

\* claim and the mark calls write a row they see; so does reset_from.
LEMMA UpdateDocs ==
    ASSUME Typed, RowsSound, DocsSound, NEW s \in Sessions,
           claim(s) \/ mark_succeeded(s) \/ mark_failed(s) \/ reset_from(s)
    PROVE  DocsSound'
<1> DEFINE r == call[s].at
<1>t. call \in [Sessions -> Calls] /\ lock \in [Rows -> Sessions \cup {None}]
  BY DEF Typed, TypeOK
<1>1. CASE claim(s) \/ mark_succeeded(s) \/ mark_failed(s)
  <2>1. /\ r \in Rows /\ Return(s)
        /\ \/ lock' = lock
           \/ View(s, r).status # "absent" /\ lock' = [lock EXCEPT ![r] = s]
    BY <1>1, ClaimForm, MarkForm DEF NoRow, Win, Write
  <2>2. ASSUME NEW q \in Rows, db[q].status = "absent" PROVE lock'[q] = lock[q]
    BY <1>t, <2>1, <2>2, AbsentView
  <2>3. /\ UNCHANGED db /\ call'[s].op = "none" /\ call[s].op # "ensure_steps"
        /\ \A t \in Sessions : t # s => call'[t] = call[t]
    BY <1>1, <1>t, <2>1 DEF Return, Idle, claim, mark_succeeded, mark_failed
  <2> QED
    BY <2>2, <2>3, KeepsDocs
<1>2. CASE reset_from(s)
  <2>1. /\ r \in Rows /\ call[s].op = "reset_from" /\ UNCHANGED db
        /\ lock' = [lock EXCEPT ![r] = s]
    BY <1>2 DEF reset_from, Write, Typed, CallShape
  <2>2. \A q \in Rows : q \in {r} \cup call[s].rest /\ db[q].status = "absent" => lock[q] = s
    <3> SUFFICES ASSUME NEW q \in Rows, q \in {r} \cup call[s].rest, db[q].status = "absent"
                 PROVE  lock[q] = s
      OBVIOUS
    <3>1. q = <<q[1], q[2]>> /\ q[1] \in Documents /\ q[2] \in STEP_ORDER
      BY RowPairs
    <3>2. Missing(q[1])
      BY <3>1 DEF Missing
    <3>3. <<q[1], q[2]>> \in {r} \cup call[s].rest => lock[<<q[1], q[2]>>] = s
      BY <2>1, <3>1, <3>2 DEF DocsSound
    <3> QED
      BY <3>1, <3>3
  <2>3. ASSUME NEW q \in Rows, db[q].status = "absent" PROVE lock'[q] = lock[q]
    BY <1>t, <2>1, <2>2, <2>3
  <2>4. /\ \A t \in Sessions : t # s => call'[t] = call[t]
        /\ call'[s].op # "ensure_steps"
        /\ call'[s].op = "reset_from" => {call'[s].at} \cup call'[s].rest \subseteq call[s].rest
    <3>1. CASE call' = [call EXCEPT ![s] = Idle]
      BY <1>t, <3>1 DEF Idle
    <3>2. ASSUME NEW n \in call[s].rest, call' = [call EXCEPT ![s].at = n, ![s].rest = @ \ {n}]
          PROVE  /\ \A t \in Sessions : t # s => call'[t] = call[t]
                 /\ call'[s].op = "reset_from" /\ call'[s].at = n
                 /\ call'[s].rest = call[s].rest \ {n}
      BY <1>t, <2>1, <3>2 DEF Calls
    <3> QED
      BY <1>2, <3>1, <3>2 DEF reset_from
  <2> QED
    BY <2>1, <2>2, <2>3, <2>4, KeepsDocs
<1> QED
  BY <1>1, <1>2

\* ensure_steps locks the first row that nobody holds, and goes on.
LEMMA EnsureDocs ==
    ASSUME Typed, RowsSound, DocsSound, NEW s \in Sessions, ensure_steps(s)
    PROVE  DocsSound'
<1> DEFINE r == call[s].at
           c == r[1]
           k == r[2]
<1>t. /\ call \in [Sessions -> Calls] /\ lock \in [Rows -> Sessions \cup {None}]
      /\ s # None
  BY StepsAssumption DEF Typed, TypeOK
<1>1. /\ r \in Rows /\ r = <<c, k>> /\ c \in Documents /\ k \in STEP_ORDER
      /\ call[s].op = "ensure_steps" /\ call[s].rest = {}
  BY RowPairs DEF ensure_steps, Typed, CallShape
<1>2. /\ lock[r] \in {None, s} /\ UNCHANGED db
      /\ \/ lock' = lock
         \/ lock' = [lock EXCEPT ![r] = s]
  BY DEF ensure_steps, Unlocked, Write
<1>3. \A t \in Sessions : t # s => call'[t] = call[t]
  BY <1>t DEF ensure_steps
<1>4. \/ k = NumSteps /\ call'[s].op = "none"
      \/ /\ k # NumSteps /\ call'[s].op = "ensure_steps"
         /\ call'[s].at[1] = c /\ call'[s].at[2] = k + 1
  <2>1. CASE k = NumSteps
    BY <1>t, <2>1 DEF ensure_steps, LastRow, Idle
  <2>2. CASE k # NumSteps
    <3>1. call' = [call EXCEPT ![s].at = <<c, k + 1>>]
      BY <2>2 DEF ensure_steps, LastRow
    <3>2. call'[s].op = call[s].op /\ call'[s].at = <<c, k + 1>>
      BY <1>t, <3>1 DEF Calls
    <3> QED
      BY <1>1, <2>2, <3>2
  <2> QED
    BY <2>1, <2>2
<1> HIDE DEF c, k, r
<1>5. \A q \in Rows : q # r => lock'[q] = lock[q]
  BY <1>1, <1>2, <1>t
<1>6. db[r].status = "absent" => lock'[r] = s
  <2>1. CASE View(s, r).status = "absent"
    <3>1. lock' = [lock EXCEPT ![r] = s]
      BY <2>1 DEF ensure_steps, Write, r
    <3> QED
      BY <1>1, <1>t, <3>1
  <2>2. CASE View(s, r).status # "absent"
    BY <1>1, <1>2, <1>t, <2>2, AbsentView
  <2> QED
    BY <2>1, <2>2
<1> SUFFICES ASSUME NEW d \in Documents, Missing(d)
             PROVE  /\ \A i \in STEP_ORDER : db[<<d, i>>].status = "absent"
                    /\ \A i, j \in STEP_ORDER :
                          j <= i /\ lock'[<<d, i>>] # None => lock'[<<d, j>>] = lock'[<<d, i>>]
                    /\ \A t \in Sessions :
                          /\ \A i, j \in STEP_ORDER : lock'[<<d, i>>] = t /\ lock'[<<d, j>>] # t
                                => call'[t].op = "ensure_steps" /\ call'[t].at[1] = d
                          /\ call'[t].op = "ensure_steps" /\ call'[t].at[1] = d
                                => \A i \in STEP_ORDER : i < call'[t].at[2] => lock'[<<d, i>>] = t
                          /\ call'[t].op = "reset_from"
                                => \A i \in STEP_ORDER :
                                      <<d, i>> \in {call'[t].at} \cup call'[t].rest
                                         => lock'[<<d, i>>] = t
  BY <1>2 DEF DocsSound, Missing
<1>7. \A i \in STEP_ORDER : db[<<d, i>>].status = "absent"
  BY DEF DocsSound
<1>8. CASE d # c
  <2>1. \A i \in STEP_ORDER : <<d, i>> \in Rows /\ <<d, i>> # r
    BY <1>1, <1>8, RowOf
  <2>2. \A i \in STEP_ORDER : lock'[<<d, i>>] = lock[<<d, i>>]
    BY <1>5, <2>1
  <2>3. call[s].at[1] # d
    BY <1>8 DEF c, r
  <2>4. \A i, j \in STEP_ORDER : ~ (lock[<<d, i>>] = s /\ lock[<<d, j>>] # s)
    BY <2>3 DEF DocsSound
  <2> QED
    BY <1>3, <1>4, <1>7, <1>8, <2>2, <2>4 DEF DocsSound
<1>9. CASE d = c
  <2>0. k \in Nat /\ NumSteps \in Nat /\ k <= NumSteps /\ \A i \in STEP_ORDER : i \in Nat /\ i <= NumSteps
    BY <1>1, StepsAssumption DEF STEP_ORDER
  <2>1. \A i \in STEP_ORDER : i < k => lock[<<d, i>>] = s
    BY <1>1, <1>9 DEF DocsSound, c, k, r
  <2>2. lock'[<<d, k>>] = s
    BY <1>1, <1>6, <1>7, <1>9
  <2>3. \A i \in STEP_ORDER : i # k => lock'[<<d, i>>] = lock[<<d, i>>]
    BY <1>1, <1>5, <1>9, RowOf
  <2>4. \A i \in STEP_ORDER : i <= k => lock'[<<d, i>>] = s
    BY <2>0, <2>1, <2>2, <2>3
  <2>5. ASSUME NEW i \in STEP_ORDER, k < i PROVE lock[<<d, i>>] \in {None, s}
    <3>1. lock[<<d, i>>] # None => lock[<<d, k>>] = lock[<<d, i>>]
      <4>1. \A x, y \in STEP_ORDER :
               y <= x /\ lock[<<d, x>>] # None => lock[<<d, y>>] = lock[<<d, x>>]
        BY DEF DocsSound
      <4>2. k <= i
        BY <2>0, <2>5
      <4> QED
        BY <1>1, <4>1, <4>2
    <3>2. lock[<<d, k>>] \in {None, s}
      BY <1>1, <1>2, <1>9
    <3> QED
      BY <3>1, <3>2
  <2>6. \A i \in STEP_ORDER : lock'[<<d, i>>] \in {None, s}
    BY <2>0, <2>3, <2>4, <2>5
  <2>7. \A i, j \in STEP_ORDER :
           j <= i /\ lock'[<<d, i>>] # None => lock'[<<d, j>>] = lock'[<<d, i>>]
    <3> SUFFICES ASSUME NEW i \in STEP_ORDER, NEW j \in STEP_ORDER, j <= i, lock'[<<d, i>>] # None
                 PROVE  lock'[<<d, j>>] = s
      BY <2>6
    <3>1. CASE j <= k
      BY <2>4, <3>1
    <3>2. CASE ~ (j <= k)
      <4>1. j # k /\ i # k
        BY <2>0, <3>2
      <4>2. lock[<<d, j>>] = lock[<<d, i>>] /\ lock'[<<d, j>>] = lock[<<d, j>>]
        BY <2>3, <4>1 DEF DocsSound
      <4> QED
        BY <2>3, <2>6, <4>1, <4>2
    <3> QED
      BY <3>1, <3>2
  <2>8. ASSUME NEW t \in Sessions, t # s
        PROVE  \A i \in STEP_ORDER : lock[<<d, i>>] # t /\ lock'[<<d, i>>] # t
    <3>1. \A i \in STEP_ORDER : lock'[<<d, i>>] # t
      BY <2>6, <2>8, StepsAssumption
    <3>2. lock[<<d, k>>] # t
      BY <1>1, <1>2, <1>9, <2>8, StepsAssumption
    <3> QED
      BY <1>1, <2>3, <3>1, <3>2
  <2>9. ASSUME NEW t \in Sessions
        PROVE  /\ \A i, j \in STEP_ORDER : lock'[<<d, i>>] = t /\ lock'[<<d, j>>] # t
                     => call'[t].op = "ensure_steps" /\ call'[t].at[1] = d
               /\ call'[t].op = "ensure_steps" /\ call'[t].at[1] = d
                     => \A i \in STEP_ORDER : i < call'[t].at[2] => lock'[<<d, i>>] = t
               /\ call'[t].op = "reset_from"
                     => \A i \in STEP_ORDER :
                           <<d, i>> \in {call'[t].at} \cup call'[t].rest => lock'[<<d, i>>] = t
    <3>1. CASE t = s
      BY <1>4, <1>9, <2>0, <2>4, <3>1
    <3>2. CASE t # s
      <4>1. \A i \in STEP_ORDER : lock[<<d, i>>] # t /\ lock'[<<d, i>>] # t
        BY <2>8, <3>2
      <4>2. call'[t] = call[t]
        BY <1>3, <3>2
      <4> QED
        BY <4>1, <4>2 DEF DocsSound
    <3> QED
      BY <3>1, <3>2
  <2> QED
    BY <1>7, <2>7, <2>9
<1> QED
  BY <1>8, <1>9

\* A commit makes whole documents: who has inserted one of its rows and is
\* not in a call holds them all.
LEMMA CommitDocs ==
    ASSUME Typed, RowsSound, DocsSound, NEW s \in Sessions, Commit(s)
    PROVE  DocsSound'
<1>1. /\ call' = call /\ call[s].op = "none"
      /\ \A q \in Rows : /\ db'[q] = View(s, q)
                         /\ lock'[q] = (IF lock[q] = s THEN None ELSE lock[q])
  BY DEF Commit, Idle
<1>2. ASSUME NEW d \in Documents, Missing(d)'
      PROVE  /\ Missing(d)
             /\ \A i \in STEP_ORDER : /\ db'[<<d, i>>].status = "absent"
                                      /\ lock[<<d, i>>] # s /\ lock'[<<d, i>>] = lock[<<d, i>>]
  <2>1. PICK j \in STEP_ORDER : db'[<<d, j>>].status = "absent"
    BY <1>2 DEF Missing
  <2>2. View(s, <<d, j>>).status = "absent" /\ <<d, j>> \in Rows
    BY <1>1, <2>1, RowOf
  <2>3. s # None
    BY StepsAssumption
  <2>4. lock[<<d, j>>] # s /\ db[<<d, j>>].status = "absent"
    BY <2>2, <2>3 DEF View, RowsSound
  <2>5. Missing(d)
    BY <2>4 DEF Missing
  <2>6. ASSUME NEW i \in STEP_ORDER
        PROVE  lock[<<d, i>>] # s /\ db[<<d, i>>].status = "absent"
    BY <1>1, <2>4, <2>5 DEF DocsSound
  <2>7. ASSUME NEW i \in STEP_ORDER
        PROVE  db'[<<d, i>>].status = "absent" /\ lock'[<<d, i>>] = lock[<<d, i>>]
    BY <1>1, <2>6, RowOf DEF View
  <2> QED
    BY <2>5, <2>6, <2>7
<1> QED
  BY <1>1, <1>2 DEF DocsSound

\* The rows a session had inserted are gone with its transaction.
LEMMA UndoDocs ==
    ASSUME Typed, RowsSound, DocsSound, NEW s \in Sessions, Undo(s)
    PROVE  DocsSound'
<1>t. call \in [Sessions -> Calls] /\ s # None
  BY StepsAssumption DEF Typed, TypeOK
<1>1. /\ db' = db /\ call'[s].op = "none"
      /\ \A t \in Sessions : t # s => call'[t] = call[t]
      /\ \A q \in Rows : lock'[q] = (IF lock[q] = s THEN None ELSE lock[q])
  BY <1>t DEF Undo, Idle
<1>2. ASSUME NEW d \in Documents, NEW i \in STEP_ORDER
      PROVE  lock'[<<d, i>>] = (IF lock[<<d, i>>] = s THEN None ELSE lock[<<d, i>>])
  BY <1>1, RowOf
<1> SUFFICES ASSUME NEW d \in Documents, Missing(d)
             PROVE  /\ \A i \in STEP_ORDER : db[<<d, i>>].status = "absent"
                    /\ \A i, j \in STEP_ORDER :
                          j <= i /\ lock'[<<d, i>>] # None => lock'[<<d, j>>] = lock'[<<d, i>>]
                    /\ \A t \in Sessions :
                          /\ \A i, j \in STEP_ORDER : lock'[<<d, i>>] = t /\ lock'[<<d, j>>] # t
                                => call'[t].op = "ensure_steps" /\ call'[t].at[1] = d
                          /\ call'[t].op = "ensure_steps" /\ call'[t].at[1] = d
                                => \A i \in STEP_ORDER : i < call'[t].at[2] => lock'[<<d, i>>] = t
                          /\ call'[t].op = "reset_from"
                                => \A i \in STEP_ORDER :
                                      <<d, i>> \in {call'[t].at} \cup call'[t].rest
                                         => lock'[<<d, i>>] = t
  BY <1>1 DEF DocsSound, Missing
<1>3. \A i \in STEP_ORDER : db[<<d, i>>].status = "absent"
  BY DEF DocsSound
<1>4. \A i, j \in STEP_ORDER :
         j <= i /\ lock'[<<d, i>>] # None => lock'[<<d, j>>] = lock'[<<d, i>>]
  BY <1>2 DEF DocsSound
<1>5. ASSUME NEW t \in Sessions
      PROVE  /\ \A i, j \in STEP_ORDER : lock'[<<d, i>>] = t /\ lock'[<<d, j>>] # t
                   => call'[t].op = "ensure_steps" /\ call'[t].at[1] = d
             /\ call'[t].op = "ensure_steps" /\ call'[t].at[1] = d
                   => \A i \in STEP_ORDER : i < call'[t].at[2] => lock'[<<d, i>>] = t
             /\ call'[t].op = "reset_from"
                   => \A i \in STEP_ORDER :
                         <<d, i>> \in {call'[t].at} \cup call'[t].rest => lock'[<<d, i>>] = t
  <2>1. CASE t = s
    <3>1. \A i \in STEP_ORDER : lock'[<<d, i>>] # s
      BY <1>2, <1>t
    <3> QED
      BY <1>1, <2>1, <3>1
  <2>2. CASE t # s
    <3>1. \A i \in STEP_ORDER : lock'[<<d, i>>] = t <=> lock[<<d, i>>] = t
      BY <1>2, <2>2, StepsAssumption
    <3>2. call'[t] = call[t]
      BY <1>1, <2>2
    <3> QED
      BY <3>1, <3>2 DEF DocsSound
  <2> QED
    BY <2>1, <2>2
<1> QED
  BY <1>3, <1>4, <1>5

\* Every step keeps DocsSound.
LEMMA NextDocs == Typed /\ RowsSound /\ DocsSound /\ [Next]_vars => DocsSound'
<1> SUFFICES ASSUME Typed, RowsSound, DocsSound, [Next]_vars PROVE DocsSound'
  OBVIOUS
<1>1. CASE UNCHANGED vars
  BY <1>1 DEF vars, DocsSound, Missing
<1>2. CASE Next
  <2>1. PICK s \in Sessions : Next!(s)
    BY <1>2 DEF Next
  <2>2. CASE \/ \E d \in Documents : CallEnsure(s, d)
             \/ \E q \in Rows, op \in CallOps : CallUpdate(s, op, q)
             \/ \E d \in Documents, step \in STEP_ORDER : CallReset(s, d, step)
    BY <2>2, BeginDocs
  <2>3. CASE Work(s)
    BY <2>3, UpdateDocs, EnsureDocs DEF Work
  <2>4. CASE Commit(s)
    BY <2>4, CommitDocs
  <2>5. CASE Rollback(s) \/ Crash(s) \/ DeadlockAbort(s)
    BY <2>5, UndoDocs DEF Rollback, Crash, DeadlockAbort
  <2> QED
    BY <2>1, <2>2, <2>3, <2>4, <2>5 DEF End
<1> QED
  BY <1>1, <1>2

\* A document has all its step rows or none, for any number of ensure_steps
\* calls at once and wherever their sessions die.
THEOREM DocumentsAreWhole == Spec => []AllOrNoSteps
<1>1. DocsSound => AllOrNoSteps
  <2> SUFFICES ASSUME DocsSound, NEW d \in Documents, NEW i \in STEP_ORDER,
                      NEW j \in STEP_ORDER, db[<<d, i>>].status = "absent"
               PROVE  db[<<d, j>>].status = "absent"
    BY DEF AllOrNoSteps
  <2>1. Missing(d)
    BY DEF Missing
  <2>2. \A k \in STEP_ORDER : db[<<d, k>>].status = "absent"
    BY <2>1 DEF DocsSound
  <2> QED
    BY <2>2
<1> QED
  BY <1>1, InitTyped, NextTyped, InitSound, NextSound, InitDocs, NextDocs, PTL DEF Spec

----------------------------------------------------------------------------
(* Layer 5: how often the rows of a document were reset *)

\* The reset_from call of s has not come to row r yet.
InReset(s, r) == call[s].op = "reset_from" /\ r \in {call[s].at} \cup call[s].rest

\* How often s has reset row r and not committed it.
Uncommitted(s, r) == IF lock[r] = s THEN wip[r].gen - db[r].gen ELSE 0

\* The same, with the reset that s is still to make.
Owed(s, r) == Uncommitted(s, r) + (IF InReset(s, r) THEN 1 ELSE 0)

\* An open transaction resets a step at least as often as every step before
\* it, when the rows its call has not come to yet are counted.
ResetsSound ==
    /\ DownstreamIsReset
    /\ \A s \in Sessions, d \in Documents : \A i, j \in STEP_ORDER :
          i <= j => Owed(s, <<d, i>>) <= Owed(s, <<d, j>>)

\* Generations are natural numbers, and what is owed is an integer.
LEMMA GenType ==
    ASSUME Typed, NEW r \in Rows
    PROVE  /\ db[r].gen \in Nat /\ wip[r].gen \in Nat
           /\ \A s : Uncommitted(s, r) \in Int /\ Owed(s, r) \in Int
<1>1. db[r].gen \in Nat /\ wip[r].gen \in Nat
  BY DEF Typed, TypeOK, DocumentStep
<1> QED
  BY <1>1 DEF Uncommitted, Owed

\* No row was reset.
LEMMA InitResets == Init => ResetsSound
<1> SUFFICES ASSUME Init PROVE ResetsSound
  OBVIOUS
<1>1. \A r \in Rows : db[r].gen = 0 /\ lock[r] = None
  BY DEF Init, Blank
<1>2. \A s \in Sessions : call[s].op = "none" /\ s # None
  BY StepsAssumption DEF Init, Idle
<1>3. \A s \in Sessions, r \in Rows : Owed(s, r) = 0
  BY <1>1, <1>2 DEF Owed, Uncommitted, InReset
<1> QED
  BY <1>1, <1>3, RowOf DEF ResetsSound, DownstreamIsReset

\* A step that leaves the table and what every session owes.
LEMMA SameOwed ==
    ASSUME ResetsSound, UNCHANGED db,
           \A s \in Sessions, r \in Rows : Owed(s, r)' = Owed(s, r)
    PROVE  ResetsSound'
<1>1. DownstreamIsReset'
  BY DEF ResetsSound, DownstreamIsReset
<1>2. ASSUME NEW s \in Sessions, NEW d \in Documents, NEW i \in STEP_ORDER, NEW j \in STEP_ORDER,
             i <= j
      PROVE  Owed(s, <<d, i>>)' <= Owed(s, <<d, j>>)'
  <2>1. Owed(s, <<d, i>>) <= Owed(s, <<d, j>>)
    BY <1>2 DEF ResetsSound
  <2>2. Owed(s, <<d, i>>)' = Owed(s, <<d, i>>) /\ Owed(s, <<d, j>>)' = Owed(s, <<d, j>>)
    BY RowOf
  <2> QED
    BY <2>1, <2>2
<1> QED
  BY <1>1, <1>2 DEF ResetsSound

\* A session that is not inserting sees all rows of a document or none.
LEMMA ViewIsWhole ==
    ASSUME Typed, RowsSound, DocsSound, NEW s \in Sessions, call[s].op # "ensure_steps",
           NEW d \in Documents, NEW i \in STEP_ORDER, NEW j \in STEP_ORDER,
           View(s, <<d, i>>).status # "absent"
    PROVE  View(s, <<d, j>>).status # "absent"
<1>t. <<d, i>> \in Rows /\ <<d, j>> \in Rows /\ s # None
  BY RowOf, StepsAssumption
<1>1. CASE Missing(d)
  <2>1. db[<<d, i>>].status = "absent" /\ db[<<d, j>>].status = "absent"
    BY <1>1 DEF DocsSound
  <2>2. lock[<<d, i>>] = s
    BY <1>t, <2>1, AbsentView
  <2>3. lock[<<d, j>>] = s
    BY <1>1, <2>2 DEF DocsSound
  <2> QED
    BY <1>t, <2>1, <2>3, AbsentView
<1>2. CASE ~ Missing(d)
  <2>1. db[<<d, j>>].status # "absent"
    BY <1>2 DEF Missing
  <2> QED
    BY <1>t, <2>1 DEF View, RowsSound
<1> QED
  BY <1>1, <1>2

\* A call is sent: reset_from owes a reset to the rows it found.
LEMMA BeginResets ==
    ASSUME Typed, RowsSound, DocsSound, ResetsSound, NEW s \in Sessions,
           \/ \E d \in Documents : CallEnsure(s, d)
           \/ \E r \in Rows, op \in CallOps : CallUpdate(s, op, r)
           \/ \E d \in Documents, step \in STEP_ORDER : CallReset(s, d, step)
    PROVE  ResetsSound'
<1>t. call \in [Sessions -> Calls]
  BY DEF Typed, TypeOK
<1>1. ASSUME NEW op, NEW r, NEW rest, Begin(s, op, r, rest)
      PROVE  /\ call[s].op = "none" /\ UNCHANGED <<db, wip, lock>>
             /\ call'[s].op = op /\ call'[s].at = r /\ call'[s].rest = rest
             /\ \A t \in Sessions : t # s => call'[t] = call[t]
  BY <1>1, <1>t DEF Begin, Idle
<1>2. ASSUME NEW op, NEW r, NEW rest, Begin(s, op, r, rest), op # "reset_from"
      PROVE  ResetsSound'
  <2>1. \A t \in Sessions, q \in Rows : Owed(t, q)' = Owed(t, q)
    BY <1>1, <1>2 DEF Owed, Uncommitted, InReset
  <2> QED
    BY <1>1, <1>2, <2>1, SameOwed
<1>3. ASSUME NEW d \in Documents, NEW step \in STEP_ORDER, CallReset(s, d, step)
      PROVE  ResetsSound'
  <2> DEFINE found == ResetRows(s, d, step)
  <2>1. PICK r \in found : Begin(s, "reset_from", r, found \ {r})
    BY <1>3 DEF CallReset
  <2>2. \A c \in Documents, i, j \in STEP_ORDER :
           i <= j /\ <<c, i>> \in found => <<c, j>> \in found
    <3> SUFFICES ASSUME NEW c \in Documents, NEW i \in STEP_ORDER, NEW j \in STEP_ORDER,
                        i <= j, <<c, i>> \in found
                 PROVE  <<c, j>> \in found
      OBVIOUS
    <3>1. c = d /\ i >= step /\ View(s, <<d, i>>).status # "absent"
      BY DEF ResetRows, steps_from
    <3>2. View(s, <<d, j>>).status # "absent"
      BY <1>1, <2>1, <3>1, ViewIsWhole
    <3>3. j >= step
      BY <3>1, StepsAssumption DEF STEP_ORDER
    <3> QED
      BY <3>1, <3>2, <3>3, RowOf DEF ResetRows, steps_from
  <2> HIDE DEF found
  <2>3. \A t \in Sessions, q \in Rows : t # s => Owed(t, q)' = Owed(t, q)
    BY <1>1, <2>1 DEF Owed, Uncommitted, InReset
  <2>4. \A q \in Rows : /\ Uncommitted(s, q)' = Uncommitted(s, q)
                        /\ InReset(s, q)' <=> q \in found
                        /\ ~ InReset(s, q)
    BY <1>1, <2>1 DEF Uncommitted, InReset
  <2>5. \A q \in Rows : Owed(s, q)' = Owed(s, q) + (IF q \in found THEN 1 ELSE 0)
    BY <2>4, GenType DEF Owed
  <2>6. ASSUME NEW t \in Sessions, NEW c \in Documents, NEW i \in STEP_ORDER,
               NEW j \in STEP_ORDER, i <= j
        PROVE  Owed(t, <<c, i>>)' <= Owed(t, <<c, j>>)'
    <3>1. /\ Owed(t, <<c, i>>) <= Owed(t, <<c, j>>)
          /\ <<c, i>> \in Rows /\ <<c, j>> \in Rows
      BY <2>6, RowOf DEF ResetsSound
    <3>2. Owed(t, <<c, i>>) \in Int /\ Owed(t, <<c, j>>) \in Int
      BY <3>1, GenType
    <3>3. CASE t # s
      BY <2>3, <3>1, <3>3
    <3>4. CASE t = s
      <4>1. /\ Owed(s, <<c, i>>)' = Owed(s, <<c, i>>) + (IF <<c, i>> \in found THEN 1 ELSE 0)
            /\ Owed(s, <<c, j>>)' = Owed(s, <<c, j>>) + (IF <<c, j>> \in found THEN 1 ELSE 0)
        BY <2>5, <3>1
      <4>2. <<c, i>> \in found => <<c, j>> \in found
        BY <2>2, <2>6
      <4> QED
        BY <3>1, <3>2, <3>4, <4>1, <4>2
    <3> QED
      BY <3>3, <3>4
  <2>7. DownstreamIsReset'
    BY <1>1, <2>1 DEF ResetsSound, DownstreamIsReset
  <2> QED
    BY <2>6, <2>7 DEF ResetsSound
<1> QED
  BY <1>2, <1>3 DEF CallEnsure, CallUpdate

\* A row is written: the generation it gets is what its session owes more.
LEMMA WriteOwes ==
    ASSUME Typed, RowsSound, NEW s \in Sessions, NEW r \in Rows, Unlocked(s, r),
           NEW row \in DocumentStep, Write(s, r, row), UNCHANGED db
    PROVE  /\ Uncommitted(s, r)' = Uncommitted(s, r) + (row.gen - wip[r].gen)
           /\ \A q \in Rows : q # r => Uncommitted(s, q)' = Uncommitted(s, q)
           /\ \A t \in Sessions, q \in Rows : t # s => Uncommitted(t, q)' = Uncommitted(t, q)
<1>1. /\ wip'[r] = row /\ lock'[r] = s
      /\ \A q \in Rows : q # r => wip'[q] = wip[q] /\ lock'[q] = lock[q]
  BY DEF Write, Typed, TypeOK
<1>2. wip[r].gen \in Nat /\ db[r].gen \in Nat /\ row.gen \in Nat
  BY GenType DEF DocumentStep
<1>3. Uncommitted(s, r) = wip[r].gen - db[r].gen
  <2>1. CASE lock[r] = s
    BY <2>1 DEF Uncommitted
  <2>2. CASE lock[r] = None
    <3>1. wip[r] = db[r] /\ lock[r] # s
      BY <2>2, StepsAssumption DEF RowsSound
    <3> QED
      BY <1>2, <3>1 DEF Uncommitted
  <2> QED
    BY <2>1, <2>2 DEF Unlocked
<1>4. Uncommitted(s, r)' = row.gen - db[r].gen
  BY <1>1 DEF Uncommitted
<1>5. Uncommitted(s, r)' = Uncommitted(s, r) + (row.gen - wip[r].gen)
  BY <1>2, <1>3, <1>4
<1>6. \A q \in Rows : q # r => Uncommitted(s, q)' = Uncommitted(s, q)
  BY <1>1 DEF Uncommitted
<1>7. ASSUME NEW t \in Sessions, NEW q \in Rows, t # s
      PROVE  Uncommitted(t, q)' = Uncommitted(t, q)
  <2>1. CASE q = r
    BY <1>1, <1>7, <2>1, StepsAssumption DEF Uncommitted, Unlocked
  <2>2. CASE q # r
    BY <1>1, <2>2 DEF Uncommitted
  <2> QED
    BY <2>1, <2>2
<1> QED
  BY <1>5, <1>6, <1>7

\* A statement changes nothing of what is owed: reset_from writes the reset
\* that it owed, and the other calls keep the generation.
LEMMA WorkResets ==
    ASSUME Typed, RowsSound, ResetsSound, NEW s \in Sessions, Work(s)
    PROVE  ResetsSound'
<1>r. PICK r \in Rows : r = call[s].at
  BY DEF Work, claim, mark_succeeded, mark_failed, ensure_steps, reset_from, Typed, CallShape
<1> DEFINE row == View(s, r)
<1>t. call \in [Sessions -> Calls]
  BY DEF Typed, TypeOK
<1>1. /\ UNCHANGED db /\ \A t \in Sessions : t # s => call'[t] = call[t]
  BY <1>t DEF Work, claim, mark_succeeded, mark_failed, ensure_steps, reset_from, Return
<1>2. row \in DocumentStep /\ row.gen \in Nat /\ (Unlocked(s, r) => row = wip[r])
  BY <1>1, ViewType, ViewIsWip DEF Typed, DocumentStep
<1>3. \A t \in Sessions, q \in Rows : t # s => (InReset(t, q)' <=> InReset(t, q))
  BY <1>1 DEF InReset
<1>4. ASSUME UNCHANGED <<wip, lock>>, call[s].op # "reset_from", call'[s].op # "reset_from"
      PROVE  ResetsSound'
  <2>1. \A t \in Sessions, q \in Rows : Owed(t, q)' = Owed(t, q)
    BY <1>1, <1>3, <1>4 DEF Owed, Uncommitted, InReset
  <2> QED
    BY <1>1, <2>1, SameOwed
<1>5. ASSUME NEW new \in DocumentStep, Unlocked(s, r), Write(s, r, new), new.gen = row.gen,
             call[s].op # "reset_from", call'[s].op # "reset_from"
      PROVE  ResetsSound'
  <2>1. \A t \in Sessions, q \in Rows : Uncommitted(t, q)' = Uncommitted(t, q)
    <3>1. new.gen - wip[r].gen = 0
      BY <1>2, <1>5
    <3>2. Uncommitted(s, r)' = Uncommitted(s, r)
      BY <1>1, <1>5, <3>1, WriteOwes, GenType
    <3> QED
      BY <1>1, <1>5, <3>2, WriteOwes
  <2>2. \A t \in Sessions, q \in Rows : InReset(t, q)' <=> InReset(t, q)
    BY <1>3, <1>5 DEF InReset
  <2>3. \A t \in Sessions, q \in Rows : Owed(t, q)' = Owed(t, q)
    BY <2>1, <2>2 DEF Owed
  <2> QED
    BY <1>1, <2>3, SameOwed
<1>6. CASE claim(s) \/ mark_succeeded(s) \/ mark_failed(s)
  <2>1. call[s].op # "reset_from" /\ call'[s].op # "reset_from"
    BY <1>6, <1>t, ClaimForm, MarkForm DEF claim, mark_succeeded, mark_failed, Return, Idle
  <2>2. \/ UNCHANGED <<wip, lock>>
        \/ \E new \in DocumentStep :
              Unlocked(s, r) /\ Write(s, r, new) /\ new.gen = row.gen
    <3>1. CASE claim(s)
      BY <1>r, <1>2, <3>1, ClaimForm, ClaimedRow DEF NoRow, Win
    <3>2. CASE mark_succeeded(s) \/ mark_failed(s)
      <4>1. \A o, l, m \in BOOLEAN : /\ Succeeded(row, o, l, m) \in DocumentStep
                                     /\ Succeeded(row, o, l, m).gen = row.gen
        BY <1>2, SucceededRow
      <4>2. \A e \in BOOLEAN : Failed(row, e) \in DocumentStep /\ Failed(row, e).gen = row.gen
        BY <1>2, FailedRow
      <4> HIDE DEF row
      <4>3. \/ NoRow
            \/ /\ Unlocked(s, r)
               /\ \/ \E o, l, m \in BOOLEAN : Win(s, r, Succeeded(row, o, l, m))
                  \/ \E e \in BOOLEAN : Win(s, r, Failed(row, e))
        BY <1>r, <3>2, MarkForm DEF row
      <4> QED
        BY <4>1, <4>2, <4>3 DEF NoRow, Win
    <3> QED
      BY <1>6, <3>1, <3>2
  <2> QED
    BY <1>4, <1>5, <2>1, <2>2
<1>7. CASE ensure_steps(s)
  <2>1. call[s].op # "reset_from" /\ call'[s].op # "reset_from" /\ Unlocked(s, r)
    <3>1. call[s].op = "ensure_steps" /\ Unlocked(s, r)
      BY <1>r, <1>7 DEF ensure_steps
    <3>2. \/ call' = [call EXCEPT ![s] = Idle]
          \/ call' = [call EXCEPT ![s].at = <<r[1], r[2] + 1>>]
      BY <1>r, <1>7 DEF ensure_steps
    <3>3. call'[s].op \in {"none", call[s].op}
      BY <1>t, <3>2 DEF Idle, Calls
    <3> QED
      BY <3>1, <3>3
  <2>2. CASE row.status = "absent"
    <3>1. Write(s, r, Blank("pending", 0))
      BY <1>r, <1>7, <2>2 DEF ensure_steps
    <3>2. row.gen = 0
      BY <1>1, <2>2 DEF RowsSound, View
    <3>3. Blank("pending", 0) \in DocumentStep /\ Blank("pending", 0).gen = 0
      BY PendingClock
    <3> QED
      BY <1>5, <2>1, <3>1, <3>2, <3>3
  <2>3. CASE row.status # "absent"
    BY <1>r, <1>4, <1>7, <2>1, <2>3 DEF ensure_steps
  <2> QED
    BY <2>2, <2>3
<1>8. CASE reset_from(s)
  <2> DEFINE new == Blank("pending", row.gen + 1)
  <2>1. Unlocked(s, r) /\ Write(s, r, new) /\ call[s].op = "reset_from" /\ r \notin call[s].rest
    BY <1>r, <1>8 DEF reset_from, Typed, CallShape
  <2>2. new \in DocumentStep /\ new.gen = wip[r].gen + 1
    <3>1. row.gen + 1 \in Nat
      BY <1>2
    <3>2. new \in DocumentStep /\ new.gen = row.gen + 1
      BY <3>1, PendingClock
    <3> QED
      BY <1>2, <2>1, <3>2
  <2> HIDE DEF new
  <2>3. \A q \in Rows : InReset(s, q)' <=> InReset(s, q) /\ q # r
    <3>1. CASE call[s].rest = {} /\ call' = [call EXCEPT ![s] = Idle]
      <4>1. call'[s].op = "none"
        BY <1>t, <3>1 DEF Idle
      <4> QED
        BY <1>r, <3>1, <4>1 DEF InReset
    <3>2. ASSUME NEW n \in call[s].rest, call' = [call EXCEPT ![s].at = n, ![s].rest = @ \ {n}]
          PROVE  \A q \in Rows : InReset(s, q)' <=> InReset(s, q) /\ q # r
      <4>1. /\ call'[s].op = "reset_from" /\ call'[s].at = n
            /\ call'[s].rest = call[s].rest \ {n}
        BY <1>t, <2>1, <3>2 DEF Calls
      <4>2. {call'[s].at} \cup call'[s].rest = call[s].rest
        BY <4>1, <3>2
      <4> QED
        BY <1>r, <2>1, <4>1, <4>2 DEF InReset
    <3> QED
      BY <1>8, <3>1, <3>2 DEF reset_from
  <2>4. Uncommitted(s, r)' = Uncommitted(s, r) + 1
    <3>1. new.gen - wip[r].gen = 1
      BY <1>1, <2>2, GenType
    <3> QED
      BY <1>1, <2>1, <2>2, <3>1, WriteOwes
  <2>5. Owed(s, r)' = Owed(s, r)
    <3>1. InReset(s, r) /\ ~ InReset(s, r)'
      BY <1>r, <2>1, <2>3 DEF InReset
    <3> QED
      BY <1>1, <2>4, <3>1, GenType DEF Owed
  <2>6. ASSUME NEW t \in Sessions, NEW q \in Rows, t # s \/ q # r
        PROVE  Owed(t, q)' = Owed(t, q)
    <3>1. Uncommitted(t, q)' = Uncommitted(t, q)
      BY <1>1, <2>1, <2>2, <2>6, WriteOwes
    <3>2. InReset(t, q)' <=> InReset(t, q)
      BY <1>3, <2>3, <2>6
    <3> QED
      BY <3>1, <3>2 DEF Owed
  <2> QED
    BY <1>1, <2>5, <2>6, SameOwed
<1> QED
  BY <1>6, <1>7, <1>8 DEF Work

\* A commit adds to each step what its session owed.
LEMMA CommitResets ==
    ASSUME Typed, RowsSound, ResetsSound, NEW s \in Sessions, Commit(s)
    PROVE  ResetsSound'
<1>1. /\ call' = call /\ call[s].op = "none" /\ wip' = wip
      /\ \A q \in Rows : /\ db'[q] = View(s, q)
                         /\ lock'[q] = (IF lock[q] = s THEN None ELSE lock[q])
  BY DEF Commit, Idle
<1>2. ASSUME NEW q \in Rows
      PROVE  db'[q].gen = db[q].gen + Owed(s, q) /\ Owed(s, q)' = 0
  <2>1. db'[q].gen = db[q].gen + Owed(s, q)
    BY <1>1, GenType DEF View, Owed, Uncommitted, InReset
  <2>2. lock'[q] # s
    BY <1>1, StepsAssumption
  <2> QED
    BY <1>1, <2>1, <2>2 DEF Owed, Uncommitted, InReset
<1>3. ASSUME NEW t \in Sessions, NEW q \in Rows, t # s
      PROVE  Owed(t, q)' = Owed(t, q)
  <2>1. lock'[q] = t <=> lock[q] = t
    BY <1>1, <1>3, StepsAssumption
  <2>2. lock[q] = t => db'[q] = db[q]
    BY <1>1, <1>3 DEF View
  <2> QED
    BY <1>1, <2>1, <2>2 DEF Owed, Uncommitted, InReset
<1>4. ASSUME NEW d \in Documents, NEW i \in STEP_ORDER, NEW j \in STEP_ORDER, i <= j
      PROVE  /\ db'[<<d, i>>].gen <= db'[<<d, j>>].gen
             /\ \A t \in Sessions : Owed(t, <<d, i>>)' <= Owed(t, <<d, j>>)'
  <2>1. <<d, i>> \in Rows /\ <<d, j>> \in Rows
    BY RowOf
  <2>2. /\ db[<<d, i>>].gen <= db[<<d, j>>].gen
        /\ \A t \in Sessions : Owed(t, <<d, i>>) <= Owed(t, <<d, j>>)
    BY <1>4 DEF ResetsSound, DownstreamIsReset
  <2>3. /\ db'[<<d, i>>].gen = db[<<d, i>>].gen + Owed(s, <<d, i>>)
        /\ db'[<<d, j>>].gen = db[<<d, j>>].gen + Owed(s, <<d, j>>)
        /\ Owed(s, <<d, i>>)' = 0 /\ Owed(s, <<d, j>>)' = 0
    BY <1>2, <2>1
  <2>4. /\ db[<<d, i>>].gen \in Nat /\ db[<<d, j>>].gen \in Nat
        /\ Owed(s, <<d, i>>) \in Int /\ Owed(s, <<d, j>>) \in Int
    BY <2>1, GenType
  <2>5. db'[<<d, i>>].gen <= db'[<<d, j>>].gen
    BY <2>2, <2>3, <2>4
  <2>6. \A t \in Sessions : Owed(t, <<d, i>>)' <= Owed(t, <<d, j>>)'
    BY <1>3, <2>1, <2>2, <2>3
  <2> QED
    BY <2>5, <2>6
<1> QED
  BY <1>4 DEF ResetsSound, DownstreamIsReset

\* Who is rolled back owes nothing.
LEMMA UndoResets ==
    ASSUME Typed, RowsSound, ResetsSound, NEW s \in Sessions, Undo(s)
    PROVE  ResetsSound'
<1>t. call \in [Sessions -> Calls]
  BY DEF Typed, TypeOK
<1>1. /\ db' = db /\ call'[s].op = "none"
      /\ \A t \in Sessions : t # s => call'[t] = call[t]
      /\ \A q \in Rows : /\ lock'[q] = (IF lock[q] = s THEN None ELSE lock[q])
                         /\ lock[q] # s => wip'[q] = wip[q]
  BY <1>t DEF Undo, Idle
<1>2. ASSUME NEW q \in Rows PROVE Owed(s, q)' = 0
  <2>1. lock'[q] # s
    BY <1>1, StepsAssumption
  <2> QED
    BY <1>1, <2>1 DEF Owed, Uncommitted, InReset
<1>3. ASSUME NEW t \in Sessions, NEW q \in Rows, t # s
      PROVE  Owed(t, q)' = Owed(t, q)
  <2>1. lock'[q] = t <=> lock[q] = t
    BY <1>1, <1>3, StepsAssumption
  <2>2. lock[q] = t => wip'[q] = wip[q]
    BY <1>1, <1>3
  <2> QED
    BY <1>1, <1>3, <2>1, <2>2 DEF Owed, Uncommitted, InReset
<1>4. ASSUME NEW t \in Sessions, NEW d \in Documents, NEW i \in STEP_ORDER,
             NEW j \in STEP_ORDER, i <= j
      PROVE  Owed(t, <<d, i>>)' <= Owed(t, <<d, j>>)'
  <2>1. /\ <<d, i>> \in Rows /\ <<d, j>> \in Rows
        /\ Owed(t, <<d, i>>) <= Owed(t, <<d, j>>)
    BY <1>4, RowOf DEF ResetsSound
  <2>2. CASE t = s
    BY <1>2, <2>1, <2>2
  <2>3. CASE t # s
    <3>1. Owed(t, <<d, i>>)' = Owed(t, <<d, i>>) /\ Owed(t, <<d, j>>)' = Owed(t, <<d, j>>)
      BY <1>3, <2>1, <2>3
    <3> QED
      BY <2>1, <3>1
  <2> QED
    BY <2>2, <2>3
<1>5. DownstreamIsReset'
  BY <1>1 DEF ResetsSound, DownstreamIsReset
<1> QED
  BY <1>4, <1>5 DEF ResetsSound

\* Every step keeps ResetsSound.
LEMMA NextResets ==
    Typed /\ RowsSound /\ DocsSound /\ ResetsSound /\ [Next]_vars => ResetsSound'
<1> SUFFICES ASSUME Typed, RowsSound, DocsSound, ResetsSound, [Next]_vars PROVE ResetsSound'
  OBVIOUS
<1>1. CASE UNCHANGED vars
  BY <1>1 DEF vars, ResetsSound, DownstreamIsReset, Owed, Uncommitted, InReset
<1>2. CASE Next
  <2>1. PICK s \in Sessions : Next!(s)
    BY <1>2 DEF Next
  <2>2. CASE \/ \E d \in Documents : CallEnsure(s, d)
             \/ \E q \in Rows, op \in CallOps : CallUpdate(s, op, q)
             \/ \E d \in Documents, step \in STEP_ORDER : CallReset(s, d, step)
    BY <2>2, BeginResets
  <2>3. CASE Work(s)
    BY <2>3, WorkResets
  <2>4. CASE Commit(s)
    BY <2>4, CommitResets
  <2>5. CASE Rollback(s) \/ Crash(s) \/ DeadlockAbort(s)
    BY <2>5, UndoResets DEF Rollback, Crash, DeadlockAbort
  <2> QED
    BY <2>1, <2>2, <2>3, <2>4, <2>5 DEF End
<1> QED
  BY <1>1, <1>2

\* No committed step keeps a result older than the last reset of one before
\* it, for any pipeline length and any number of reset_from calls at once,
\* in whatever order they visit their rows.
THEOREM DownstreamStaysReset == Spec => []DownstreamIsReset
<1>1. ResetsSound => DownstreamIsReset
  BY DEF ResetsSound
<1> QED
  BY <1>1, InitTyped, NextTyped, InitSound, NextSound, InitDocs, NextDocs, InitResets,
     NextResets, PTL DEF Spec
=============================================================================
