------------------------------- MODULE Journal -------------------------------
(***************************************************************************)
(* The repositories beside the pipeline, in concurrent sessions:           *)
(* EventRepository (src/ipa/db/repositories/event.py) for one document,    *)
(* WebhookRepository (webhook.py) for the deliveries of one webhook, and   *)
(* UserRepository (user.py) for one email address in two spellings.        *)
(*                                                                         *)
(* PostgreSQL is external, as in Steps: now() is the start of the          *)
(* transaction, a bigserial id is drawn when a row is inserted, an UPDATE  *)
(* locks its row and an INSERT its unique key to the end of the            *)
(* transaction.  So is SQLAlchemy: after a flush that failed a session     *)
(* does nothing but roll back.                                             *)
(*                                                                         *)
(* Where another module has a name of its own for the same thing, the name *)
(* has Journal in it, so that one module can extend both.                  *)
(***************************************************************************)
EXTENDS Integers, Sequences, FiniteSets, SequencesExt

CONSTANTS
    Sessions,       \* sessions of API requests and workers
    Spellings,      \* spellings of the email address: equal to citext
    MaxBegins,      \* bound on the transactions
    MaxEvents,      \* bound on the events
    MaxDeliveries,  \* bound on the deliveries
    MaxCompletions  \* bound on the calls of complete_delivery

ASSUME JournalAssumption ==
    /\ MaxBegins \in Nat /\ MaxEvents \in Nat
    /\ MaxDeliveries \in Nat /\ MaxCompletions \in Nat

VARIABLES
    clock,      \* the time, which may stand still between two transactions
    begins,     \* transactions begun so far; they are numbered
    committed,  \* history: the numbers of those that committed
    events,     \* committed rows: [id, created_at, tx, after]
    lastEvent,  \* the sequence of document_events.id
    users,      \* committed rows: [email, tx]
    deliveries, \* deliveries[i]: the committed row i: the number of the call
                \* whose columns it has, 0 while it is pending, or NoRow
    lastDelivery,   \* the sequence of webhook_deliveries.id
    completions,    \* calls of complete_delivery so far; they are numbered
    reported,   \* history: the committed calls: pairs of a row and a number
    state,      \* state[s]: "idle", "open", or "failed" after a failed flush
    tx          \* tx[s]: the transaction of s and its uncommitted writes

journalVars == <<clock, begins, committed, events, lastEvent, users, deliveries,
                 lastDelivery, completions, reported, state, tx>>

Deliveries == 1 .. MaxDeliveries
NoRow == -1

\* A transaction that wrote nothing.
NewTx(n, now, after) == [n |-> n, now |-> now, after |-> after, raised |-> FALSE,
                         events |-> {}, users |-> {}, calls |-> {},
                         deliveries |-> [i \in Deliveries |-> NoRow]]

JournalInit ==
    /\ clock = 0
    /\ begins = 0
    /\ committed = {}
    /\ events = {}
    /\ lastEvent = 0
    /\ users = {}
    /\ deliveries = [i \in Deliveries |-> NoRow]
    /\ lastDelivery = 0
    /\ completions = 0
    /\ reported = {}
    /\ state = [s \in Sessions |-> "idle"]
    /\ tx = [s \in Sessions |-> NewTx(0, 0, {})]

\* session_scope is entered and a first statement begins the transaction.
Begin(s) ==
    /\ state[s] = "idle"
    /\ begins < MaxBegins
    /\ begins' = begins + 1
    /\ clock' \in {clock, clock + 1}
    /\ state' = [state EXCEPT ![s] = "open"]
    /\ tx' = [tx EXCEPT ![s] = NewTx(begins + 1, clock', committed)]
    /\ UNCHANGED <<committed, events, lastEvent, users, deliveries, lastDelivery,
                   completions, reported>>

----------------------------------------------------------------------------
(* document_events *)

\* append: created_at is now() of the transaction.
append(s) ==
    LET e == [id |-> lastEvent + 1, created_at |-> tx[s].now, tx |-> tx[s].n,
              after |-> tx[s].after]
    IN  /\ state[s] = "open"
        /\ lastEvent < MaxEvents
        /\ lastEvent' = lastEvent + 1
        /\ tx' = [tx EXCEPT ![s].events = @ \cup {e}]
        /\ UNCHANGED <<clock, begins, committed, events, users, deliveries, lastDelivery,
                       completions, reported, state>>

\* Mutant: ORDER BY created_at alone.
listed_by_time(d, e) == d.created_at <= e.created_at

\* ORDER BY created_at ASC, id ASC
listed_before(d, e) ==
    d.created_at < e.created_at \/ (d.created_at = e.created_at /\ d.id < e.id)

\* What list_events may return for some rows, before LIMIT cuts its end off.
list_events(rows) ==
    {l \in SetToSeqs(rows) : \A i, j \in DOMAIN l : i < j => listed_before(l[i], l[j])}

----------------------------------------------------------------------------
(* webhook_deliveries *)

\* The sessions that hold an uncommitted row of delivery i: its lock.
Holders(i) == {s \in Sessions : tx[s].deliveries[i] # NoRow}

\* record_delivery: a pending row; the webhook it refers to is there.
record_delivery(s) ==
    LET i == lastDelivery + 1
    IN  /\ state[s] = "open"
        /\ i \in Deliveries
        /\ lastDelivery' = i
        /\ tx' = [tx EXCEPT ![s].deliveries[i] = 0]
        /\ UNCHANGED <<clock, begins, committed, events, lastEvent, users, deliveries,
                       completions, reported, state>>

\* The row as this transaction sees it.
Seen(s, i) == IF tx[s].deliveries[i] # NoRow THEN tx[s].deliveries[i] ELSE deliveries[i]

\* Mutant: the call does not wait for the other session's, as when it had
\* read the row and only wrote to it at its commit.
waits_for_none(s, i) == TRUE

\* An UPDATE waits until no other session holds the row.
may_update(s, i) == Holders(i) \subseteq {s}

\* complete_delivery: one UPDATE of the columns status, response_status, error
\* and delivered_at, whatever they were.  An id that is not there gives None.
complete_delivery(s, i) ==
    LET n == completions + 1
    IN  /\ state[s] = "open"
        /\ may_update(s, i)
        /\ n <= MaxCompletions
        /\ Seen(s, i) # NoRow
        /\ completions' = n
        /\ tx' = [tx EXCEPT ![s].deliveries[i] = n, ![s].calls = @ \cup {<<i, n>>}]
        /\ UNCHANGED <<clock, begins, committed, events, lastEvent, users, deliveries,
                       lastDelivery, reported, state>>

----------------------------------------------------------------------------
(* users *)

\* CITEXT
citext_equal(a, b) == a \in Spellings /\ b \in Spellings

Taken(rows, email) == \E u \in rows : citext_equal(u.email, email)

\* Mutant: the failed flush is undone alone, as with a savepoint.
stay_open(s) == UNCHANGED state

\* IntegrityError becomes ConflictError; the session must be rolled back.
fail_session(s) == state' = [state EXCEPT ![s] = "failed"]

\* create waits for an uncommitted row of the address; then the row is
\* inserted, or the flush fails.
create_user(s, email) ==
    /\ state[s] = "open"
    /\ \A t \in Sessions \ {s} : ~ Taken(tx[t].users, email)
    /\ IF Taken(users \cup tx[s].users, email)
          THEN /\ fail_session(s)
               /\ tx' = [tx EXCEPT ![s].raised = TRUE]
          ELSE /\ tx' = [tx EXCEPT ![s].users = @ \cup {[email |-> email, tx |-> tx[s].n]}]
               /\ UNCHANGED state
    /\ UNCHANGED <<clock, begins, committed, events, lastEvent, users, deliveries,
                   lastDelivery, completions, reported>>

----------------------------------------------------------------------------
(* The end of session_scope *)

Ended(s) ==
    /\ state' = [state EXCEPT ![s] = "idle"]
    /\ tx' = [tx EXCEPT ![s] = NewTx(0, 0, {})]

CommitSession(s) ==
    /\ state[s] = "open"
    /\ committed' = committed \cup {tx[s].n}
    /\ events' = events \cup tx[s].events
    /\ users' = users \cup tx[s].users
    /\ deliveries' = [i \in Deliveries |-> Seen(s, i)]
    /\ reported' = reported \cup tx[s].calls
    /\ Ended(s)
    /\ UNCHANGED <<clock, begins, lastEvent, lastDelivery, completions>>

\* The body raised, or caught the ConflictError and ran into commit()'s
\* PendingRollbackError; a deadlock was broken; or the process died.
RollbackSession(s) ==
    /\ state[s] # "idle"
    /\ Ended(s)
    /\ UNCHANGED <<clock, begins, committed, events, lastEvent, users, deliveries,
                   lastDelivery, completions, reported>>

JournalNext ==
    \E s \in Sessions :
        \/ Begin(s)
        \/ append(s)
        \/ record_delivery(s)
        \/ \E i \in Deliveries : complete_delivery(s, i)
        \/ \E email \in Spellings : create_user(s, email)
        \/ CommitSession(s)
        \/ RollbackSession(s)

JournalSpec == JournalInit /\ [][JournalNext]_journalVars

----------------------------------------------------------------------------
(* Properties *)

\* "oldest first": in every listing the events of one transaction are in the
\* order they were appended, although they all have the same created_at, and
\* an event stands before those of the transactions that began after its own
\* had committed.  Nothing more holds: of two overlapping transactions, the
\* one that began first is listed first, even if it appended and committed
\* later, so a listing may grow in the middle.
ListedInOrder ==
    \A l \in list_events(events) : \A i, j \in DOMAIN l :
        \/ l[i].tx = l[j].tx /\ l[i].id < l[j].id
        \/ l[i].tx \in l[j].after
        => i < j

\* The outcome a delivery is left with is that of the last call among the
\* committed ones: of two workers that report different outcomes in overlapping
\* transactions, the one that called later wins, in whatever order they commit,
\* and a report that was rolled back shows nowhere.  (complete_delivery does
\* not look at the outcome it replaces: a late failure undoes a delivery.)
OutcomeIsLast ==
    \A i \in Deliveries :
        LET n == deliveries[i]
        IN  n # NoRow =>
                /\ n = 0 \/ <<i, n>> \in reported
                /\ \A c \in reported : c[1] = i => c[2] <= n

\* A second user for an address, in whatever spelling, is a ConflictError, so
\* that get_by_email's one_or_none never meets two; and a session in which
\* create raised it leaves nothing behind, not even the events and outcomes it
\* wrote before, also when its caller catches the error and carries on.
ConflictUndoesAll ==
    /\ [](Cardinality(users) <= 1)
    /\ [][\A s \in Sessions : tx[s].raised => tx[s].n \notin committed']_journalVars
=============================================================================
