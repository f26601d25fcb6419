------------------------------- MODULE Steps -------------------------------
(***************************************************************************)
(* StepRepository (src/ipa/db/repositories/step.py) over the table         *)
(* document_steps, used by concurrent sessions of session_scope            *)
(* (src/ipa/db/session.py).                                                *)
(*                                                                         *)
(* The callers of the repository are not written yet, so they are          *)
(* modelled as the most general client: a session makes any repository     *)
(* call with any argument, any number of times, and its transaction then   *)
(* commits, is rolled back, or dies with its process.                      *)
(*                                                                         *)
(* PostgreSQL is external and modelled from how the repository uses it:    *)
(* READ COMMITTED, a row lock per written row held to the end of the       *)
(* transaction, an UPDATE that waits for a locked row and then re-reads    *)
(* it, and a deadlock detector.                                            *)
(***************************************************************************)
EXTENDS Naturals, FiniteSets

CONSTANTS
    Documents,  \* document ids
    Sessions,   \* sessions opened by session_scope
    NumSteps,   \* length of STEP_ORDER (six in the code)
    Used,       \* the names of the repository calls the clients make
    Given,      \* whether callers give optional arguments: TRUE, FALSE or both
    MaxResets,  \* bound on the number of reset_from calls
    None        \* no session, no row

ASSUME StepsAssumption ==
    /\ NumSteps \in Nat \ {0}
    /\ Given \in SUBSET BOOLEAN
    /\ MaxResets \in Nat
    /\ None \notin Sessions
    /\ None \notin Documents \X (1 .. NumSteps)

VARIABLES
    db,         \* db[r]: the committed version of row r
    wip,        \* wip[r]: its uncommitted version (db[r] when nobody wrote it)
    lock,       \* lock[r]: the session whose transaction wrote r, or None
    call,       \* call[s]: the repository call session s is executing
    resets,     \* number of reset_from calls made so far
    won,        \* history: wins returned to s in its open transaction
    ledger      \* history: wins of committed transactions

vars == <<db, wip, lock, call, resets, won, ledger>>

----------------------------------------------------------------------------
(* Pipeline steps and step rows *)

\* A step is its position in the pipeline.
STEP_ORDER == 1 .. NumSteps

\* Mutant: reset_from resets the named step and nothing downstream.
named_step(step) == {step}

steps_from(step) == {i \in STEP_ORDER : i >= step}

\* The primary key (document_id, step).
Rows == Documents \X STEP_ORDER

\* "absent" is a row that was never inserted; no code writes "skipped".
StepStatus == {"absent", "pending", "running", "succeeded", "failed"}

\* Timestamps, duration, error, output and metrics are abstracted to whether
\* they are set.  gen is history: how many times the row was reset.
DocumentStep ==
    [status : StepStatus, attempt : Nat, started : BOOLEAN, finished : BOOLEAN,
     duration : BOOLEAN, error : BOOLEAN, output : BOOLEAN, metrics : BOOLEAN,
     gen : Nat]

Blank(status, gen) ==
    [status |-> status, attempt |-> 0, started |-> FALSE, finished |-> FALSE,
     duration |-> FALSE, error |-> FALSE, output |-> FALSE, metrics |-> FALSE,
     gen |-> gen]

\* The life of a row as one number, see StepLedger.
Clock(row) ==
    CASE row.status = "absent"  -> 0
      [] row.status = "pending" -> 3 * row.gen + 1
      [] row.status = "running" -> 3 * row.gen + 2
      [] OTHER                  -> 3 * row.gen + 3

----------------------------------------------------------------------------
(* Sessions and their transactions *)

CallOps == {"none", "ensure_steps", "claim", "mark_succeeded", "mark_failed",
            "reset_from"}

\* at: the row the statement is working on; rest: rows still to come.
Calls == [op : CallOps, at : Rows \cup {None}, rest : SUBSET Rows]

Idle == [op |-> "none", at |-> None, rest |-> {}]

\* READ COMMITTED: own writes over the committed state.
View(s, r) == IF lock[r] = s THEN wip[r] ELSE db[r]

Unlocked(s, r) == lock[r] \in {None, s}

Held(s) == {r \in Rows : lock[r] = s}

\* Session s locks row r and writes it.
Write(s, r, row) ==
    /\ lock' = [lock EXCEPT ![r] = s]
    /\ wip' = [wip EXCEPT ![r] = row]

\* A write that RETURNING reports to the caller as a success.
Win(s, r, row) ==
    /\ Write(s, r, row)
    /\ won' = [won EXCEPT ![s] = @ \cup {<<r, Clock(row)>>}]

NoRow == UNCHANGED <<wip, lock, won>>

Begin(s, op, r, rest) ==
    /\ op \in Used
    /\ call[s] = Idle
    /\ call' = [call EXCEPT ![s] = [op |-> op, at |-> r, rest |-> rest]]
    /\ UNCHANGED <<db, wip, lock, won, ledger>>

Return(s) ==
    /\ call' = [call EXCEPT ![s] = Idle]
    /\ UNCHANGED <<db, resets, ledger>>

Init ==
    /\ db = [r \in Rows |-> Blank("absent", 0)]
    /\ wip = db
    /\ lock = [r \in Rows |-> None]
    /\ call = [s \in Sessions |-> Idle]
    /\ resets = 0
    /\ won = [s \in Sessions |-> {}]
    /\ ledger = {}

----------------------------------------------------------------------------
(* The repository calls *)

\* A single-row UPDATE ... WHERE is sent.
CallUpdate(s, op, r) ==
    /\ op \in {"claim", "mark_succeeded", "mark_failed"}
    /\ Begin(s, op, r, {})
    /\ UNCHANGED resets

Claimed(row) ==
    [row EXCEPT !.status = "running", !.attempt = row.attempt + 1, !.started = TRUE,
                !.finished = FALSE, !.duration = FALSE, !.error = FALSE]

\* Mutant: claim's WHERE does not look at the status.
ClaimableInAnyStatus(row) == row.status # "absent"

\* The WHERE of claim.
Claimable(row) == row.status = "pending"

\* claim: pending -> running.  When the row is missing or not pending the
\* call returns None at once; a pending row locked by another session is
\* waited for.
claim(s) ==
    LET r == call[s].at
        row == View(s, r)
    IN  /\ call[s].op = "claim"
        /\ \/ /\ ~ Claimable(row)
              /\ NoRow
           \/ /\ Claimable(row)
              /\ Unlocked(s, r)
              /\ Win(s, r, Claimed(row))
        /\ Return(s)

\* The duration is given, or computed from started_at; metrics are replaced
\* only when given.
Succeeded(row, output_ref, duration_ms, metrics) ==
    [row EXCEPT !.status = "succeeded", !.finished = TRUE,
                !.duration = duration_ms \/ row.started,
                !.output = output_ref, !.metrics = metrics \/ @]

\* mark_succeeded: running -> succeeded.
mark_succeeded(s) ==
    LET r == call[s].at
        row == View(s, r)
    IN  /\ call[s].op = "mark_succeeded"
        /\ \/ /\ row.status # "running"
              /\ NoRow
           \/ /\ row.status = "running"
              /\ Unlocked(s, r)
              /\ \E output_ref, duration_ms, metrics \in Given :
                    Win(s, r, Succeeded(row, output_ref, duration_ms, metrics))
        /\ Return(s)

\* Mutant: finished_at is not set.
FailedUnfinished(row, error_code) ==
    [row EXCEPT !.status = "failed", !.error = error_code]

\* Duration and output are left alone.
Failed(row, error_code) ==
    [row EXCEPT !.status = "failed", !.finished = TRUE, !.error = error_code]

\* mark_failed: running -> failed.
mark_failed(s) ==
    LET r == call[s].at
        row == View(s, r)
    IN  /\ call[s].op = "mark_failed"
        /\ \/ /\ row.status # "running"
              /\ NoRow
           \/ /\ row.status = "running"
              /\ Unlocked(s, r)
              /\ \E error_code \in Given :
                    Win(s, r, Failed(row, error_code))
        /\ Return(s)

\* ensure_steps inserts the rows in STEP_ORDER, ON CONFLICT DO NOTHING.
CallEnsure(s, d) ==
    /\ Begin(s, "ensure_steps", <<d, 1>>, {})
    /\ UNCHANGED resets

\* Mutant: the list of rows ends after the first one.
FirstRow(r) == r[2] = 1

LastRow(r) == r[2] = NumSteps

\* One row of that INSERT: it waits for another session's uncommitted
\* version of the row, inserts a missing row and skips an existing one.
ensure_steps(s) ==
    LET r == call[s].at
    IN  /\ call[s].op = "ensure_steps"
        /\ Unlocked(s, r)
        /\ IF View(s, r).status = "absent"
              THEN Write(s, r, Blank("pending", 0))
              ELSE UNCHANGED <<wip, lock>>
        /\ IF LastRow(r)
              THEN call' = [call EXCEPT ![s] = Idle]
              ELSE call' = [call EXCEPT ![s].at = <<r[1], r[2] + 1>>]
        /\ UNCHANGED <<db, resets, won, ledger>>

\* reset_from: the statement's snapshot fixes the rows it will update; it
\* visits them in whatever order the query plan has.
ResetRows(s, d, step) ==
    {r \in Rows : r[1] = d /\ r[2] \in steps_from(step)
                           /\ View(s, r).status # "absent"}

CallReset(s, d, step) ==
    /\ resets < MaxResets
    /\ \E r \in ResetRows(s, d, step) :
          Begin(s, "reset_from", r, ResetRows(s, d, step) \ {r})
    /\ resets' = resets + 1

\* One row of that UPDATE: it waits for the row's lock and writes over the
\* row's latest version, whatever its status.
reset_from(s) ==
    LET r == call[s].at
    IN  /\ call[s].op = "reset_from"
        /\ Unlocked(s, r)
        /\ Write(s, r, Blank("pending", View(s, r).gen + 1))
        /\ \/ /\ call[s].rest = {}
              /\ call' = [call EXCEPT ![s] = Idle]
           \/ \E n \in call[s].rest :
                 call' = [call EXCEPT ![s].at = n, ![s].rest = @ \ {n}]
        /\ UNCHANGED <<db, resets, won, ledger>>

----------------------------------------------------------------------------
(* How a transaction ends *)

\* session_scope: the body completed, the writes become visible at once.
Commit(s) ==
    /\ call[s] = Idle
    /\ Held(s) # {}
    /\ db' = [r \in Rows |-> View(s, r)]
    /\ lock' = [r \in Rows |-> IF lock[r] = s THEN None ELSE lock[r]]
    /\ ledger' = ledger \cup won[s]
    /\ won' = [won EXCEPT ![s] = {}]
    /\ UNCHANGED <<wip, call, resets>>

\* The server forgets the transaction of s.
Undo(s) ==
    /\ wip' = [r \in Rows |-> IF lock[r] = s THEN db[r] ELSE wip[r]]
    /\ lock' = [r \in Rows |-> IF lock[r] = s THEN None ELSE lock[r]]
    /\ won' = [won EXCEPT ![s] = {}]
    /\ call' = [call EXCEPT ![s] = Idle]
    /\ UNCHANGED <<db, resets, ledger>>

\* session_scope: the body raised.
Rollback(s) ==
    /\ call[s] = Idle
    /\ Held(s) # {}
    /\ Undo(s)

\* The process of s dies, between two calls or in the middle of one.
Crash(s) ==
    /\ call[s] # Idle \/ Held(s) # {}
    /\ Undo(s)

\* The statement of s cannot go on before session t ends.
Needs(s) ==
    LET status == View(s, call[s].at).status
    IN  CASE call[s].op = "claim" -> status = "pending"
          [] call[s].op \in {"mark_succeeded", "mark_failed"} -> status = "running"
          [] OTHER -> TRUE

WaitsFor(s, t) ==
    /\ call[s] # Idle
    /\ s # t
    /\ lock[call[s].at] = t
    /\ Needs(s)

\* A set of sessions that wait for one another in a circle.
Deadlocked(C) ==
    \A s \in C : /\ \E t \in C : WaitsFor(s, t)
                 /\ \E t \in C : WaitsFor(t, s)

\* The server's deadlock detector fails one statement of a circle; the
\* exception reaches session_scope, which rolls back.
DeadlockAbort(s) ==
    /\ \E C \in SUBSET Sessions : s \in C /\ Deadlocked(C)
    /\ Undo(s)

----------------------------------------------------------------------------
Work(s) ==
    claim(s) \/ mark_succeeded(s) \/ mark_failed(s) \/ ensure_steps(s) \/ reset_from(s)

\* Mutant: the session is neither committed, rolled back nor closed.
LeakedSession(s) == FALSE

End(s) == Commit(s) \/ Rollback(s)

Next ==
    \E s \in Sessions :
        \/ \E d \in Documents : CallEnsure(s, d)
        \/ \E r \in Rows, op \in CallOps : CallUpdate(s, op, r)
        \/ \E d \in Documents, step \in STEP_ORDER : CallReset(s, d, step)
        \/ Work(s)
        \/ End(s)
        \/ Crash(s)
        \/ DeadlockAbort(s)

Spec == Init /\ [][Next]_vars

(***************************************************************************)
(* Fairness: a statement that can go on does (a lock queue is served, so   *)
(* strong fairness), the body of a session_scope block ends, and the       *)
(* deadlock detector runs.  Crashes are not fair.                          *)
(***************************************************************************)
FairSpec ==
    /\ Spec
    /\ \A s \in Sessions : /\ SF_vars(Work(s))
                           /\ SF_vars(End(s))
                           /\ WF_vars(DeadlockAbort(s))

----------------------------------------------------------------------------
(* Properties *)

\* Every variable has its type.
TypeOK ==
    /\ db \in [Rows -> DocumentStep]
    /\ wip \in [Rows -> DocumentStep]
    /\ lock \in [Rows -> Sessions \cup {None}]
    /\ call \in [Sessions -> Calls]
    /\ resets \in 0 .. MaxResets
    /\ won \in [Sessions -> SUBSET (Rows \X Nat)]
    /\ ledger \in SUBSET (Rows \X Nat)

\* claim, mark_succeeded and mark_failed tell one caller at most that it
\* won a given run of a step: no win of an open transaction is also in
\* another open transaction or was committed before.
WinsAreExclusive ==
    /\ \A s \in Sessions : won[s] \cap ledger = {}
    /\ \A s, t \in Sessions : s # t => won[s] \cap won[t] = {}

\* The columns of a row agree with its status, whatever calls and sessions
\* wrote it: claim, the two mark calls and reset_from together leave no
\* column of an earlier run behind, and no run counts a second attempt.
ColumnsAgree(row) ==
    /\ row.status \in {"absent", "pending"} => row = Blank(row.status, row.gen)
    /\ row.status \in {"running", "succeeded", "failed"} =>
          /\ row.attempt = 1
          /\ row.started
          /\ row.finished <=> row.status # "running"
          /\ row.duration <=> row.status = "succeeded"
          /\ row.error => row.status = "failed"
          /\ row.output \/ row.metrics => row.status = "succeeded"

RowsAreConsistent == \A r \in Rows : ColumnsAgree(db[r]) /\ ColumnsAgree(wip[r])

\* "Reprocess from step N onward" in the committed table: a step has been
\* reset at least as often as every step before it, so no step keeps a
\* result that is older than the last reset of one of its inputs.
DownstreamIsReset ==
    \A d \in Documents : \A i, j \in STEP_ORDER :
        i <= j => db[<<d, i>>].gen <= db[<<d, j>>].gen

\* A document has all its step rows or none, even when ensure_steps runs in
\* two sessions at once or its session dies half-way.
AllOrNoSteps ==
    \A d \in Documents : \A i, j \in STEP_ORDER :
        db[<<d, i>>].status = "absent" => db[<<d, j>>].status = "absent"

\* The table keeps the promise of StepLedger.
Ledger == INSTANCE StepLedger
            WITH clock <- [r \in Rows |-> Clock(db[r])], ledger <- ledger

ImplementsLedger == Ledger!Spec

\* Every repository call comes back, with a result or with an error, even
\* when sessions wait for one another's rows in a circle.
CallsReturn == \A s \in Sessions : call[s] # Idle ~> call[s] = Idle
=============================================================================
