------------------------------- MODULE Service -------------------------------
(***************************************************************************)
(* An API process and the database it is deployed against: the operator's  *)
(* migrations (migrations/env.py), create_app and the /readyz endpoint     *)
(* (src/ipa/api/main.py), require_auth (src/ipa/api/auth.py) in front of   *)
(* the request handlers, verify_schema_config (src/ipa/db/verify.py) and   *)
(* the embeddings the process writes (src/ipa/db/vector.py).               *)
(*                                                                         *)
(* The process reads the environment once, when it starts (get_settings is *)
(* cached); a migration reads it when it runs, and it may have changed in  *)
(* between.  create_app does not call verify_schema_config: the model lets *)
(* a deployment call it before it serves, or not.                          *)
(*                                                                         *)
(* Requests share no state with one another, so the process has one at a   *)
(* time here.  The dependencies are external: one that is "hung" neither   *)
(* answers nor closes a connection.                                        *)
(*                                                                         *)
(* Where another module has a name of its own for the same thing, the name *)
(* has Service in it, so that one module can extend both.                  *)
(***************************************************************************)
EXTENDS Settings, Errors, Schema

CONSTANTS
    Dependencies,   \* the probed ones, of {"postgres", "mongo", "redis", "s3"}
    Draining        \* those whose probe awaits the server once more to close
                    \* its connection: asyncpg's close()

ASSUME ServiceAssumption ==
    /\ Dependencies \subseteq {"postgres", "mongo", "redis", "s3"}
    /\ Draining \subseteq {"postgres"}
    /\ Dimensions \subseteq Nat \ {0}

VARIABLES
    db,         \* the migrated part of the database
    revision,   \* alembic_version: "" or "0001"
    raised,     \* history: the last migration raised and was rolled back
    phase,      \* the process: "down", "created", "serving", "probing", "answered"
    settings,   \* its settings, once it was created
    verified,   \* history: it verified the schema, not migrated since
    refused,    \* history: PostgreSQL refused the last embedding it wrote
    request,    \* the request it has: [path, key, outcome]
    answer,     \* the answer it gave: [http, texts], the origins of its texts
    health,     \* health[d]: "up", "down" or "hung" while it probes
    probe,      \* probe[d]: where the probe of d is
    answered    \* history: dependencies that were up at some time of the probing

database == <<db, revision, raised>>
process == <<settings, verified, refused>>
probing == <<health, probe, answered>>
serviceVars == <<database, phase, process, request, answer, probing>>

NoSettings == [env |-> ""]
NoRequest == [path |-> "", key |-> FALSE, outcome |-> ""]
NoAnswer == [http |-> 0, texts |-> {}]
NoProbe == [d \in Dependencies |-> "idle"]
AllUp == [d \in Dependencies |-> "up"]

ServiceInit ==
    /\ db = Empty
    /\ revision = ""
    /\ raised = FALSE
    /\ phase = "down"
    /\ settings = NoSettings
    /\ verified = FALSE
    /\ refused = FALSE
    /\ request = NoRequest
    /\ answer = NoAnswer
    /\ health = AllUp
    /\ probe = NoProbe
    /\ answered = {}

----------------------------------------------------------------------------
(* The operator *)

\* do_run_migrations: the script and the new revision are one transaction.
Migrate(script, dim, to) ==
    LET run == Run(db, script, dim)
    IN  /\ db' = Migrated(db, run)
        /\ raised' = run.raised
        /\ revision' = IF run.raised THEN revision ELSE to
        /\ verified' = FALSE
        /\ UNCHANGED <<phase, settings, refused, request, answer, probing>>

\* alembic upgrade head; EMBED_DIM comes from the environment of this run.
Upgrade(dim) == revision = "" /\ Migrate(upgrade, dim, "0001")

\* alembic downgrade base
Downgrade == revision = "0001" /\ Migrate(downgrade, 0, "")

----------------------------------------------------------------------------
(* The process *)

\* create_app: get_settings, validate_startup.  A ConfigurationError ends it.
create_app(environment) ==
    /\ phase = "down"
    /\ IF validate_startup(environment) = {}
          THEN phase' = "created" /\ settings' = environment
          ELSE UNCHANGED <<phase, settings>>
    /\ UNCHANGED <<database, verified, refused, request, answer, probing>>

\* Mutant: the recorded dimension is not compared.
recorded_at_all(s) == db.recorded # 0

\* The recorded dimension is there and is the one of the settings.
dimension_matches(s) == db.recorded = s.embed_dim

\* verify_schema_config, in a deployment that calls it: without the table,
\* without its row or with another dimension it raises.
verify_schema_config ==
    /\ phase = "created"
    /\ IF dimension_matches(settings)
          THEN phase' = "serving" /\ verified' = TRUE /\ UNCHANGED settings
          ELSE phase' = "down" /\ settings' = NoSettings /\ UNCHANGED verified
    /\ UNCHANGED <<database, refused, request, answer, probing>>

\* The server starts the application as create_app returned it.
Serve ==
    /\ phase = "created"
    /\ phase' = "serving"
    /\ UNCHANGED <<database, process, request, answer, probing>>

\* The lifespan ends, or the process dies.
Stop ==
    /\ phase # "down"
    /\ phase' = "down"
    /\ settings' = NoSettings
    /\ verified' = FALSE
    /\ refused' = FALSE
    /\ request' = NoRequest
    /\ answer' = NoAnswer
    /\ health' = AllUp
    /\ probe' = NoProbe
    /\ answered' = {}
    /\ UNCHANGED database

\* upsert writes an embedding of the configured dimension: a vector(n) column
\* takes only n-dimensional ones.
WriteEmbedding ==
    /\ phase = "serving"
    /\ refused' = (db.column # settings.embed_dim)
    /\ UNCHANGED <<database, phase, settings, verified, request, answer, probing>>

----------------------------------------------------------------------------
(* Requests *)

Outcomes ==
    {[type |-> "return", class |-> "", code |-> "", status |-> 0, text |-> ""]}
        \cup Exceptions

\* require_auth: any key will do, without one a deployed process refuses.
auth_refuses(s, key) == ~ key /\ is_production(s)

Respond(problem) ==
    [http |-> problem.status, texts |-> {problem.detail} \cup problem.extra]

\* A request to a route behind require_auth, whose handler returns or raises.
Request(key, outcome) ==
    /\ phase = "serving"
    /\ phase' = "answered"
    /\ request' = [path |-> "/v1", key |-> key, outcome |-> outcome]
    /\ answer' = IF auth_refuses(settings, key)
                    THEN Respond(to_problem(New("IpaError", "given", "auth_stub_in_production",
                                                500), {}))
                 ELSE IF outcome.type = "return" THEN [http |-> 200, texts |-> {}]
                 ELSE Respond(Handled(outcome))
    /\ UNCHANGED <<database, process, probing>>

\* The client has the answer.
Answered ==
    /\ phase = "answered"
    /\ phase' = "serving"
    /\ request' = NoRequest
    /\ answer' = NoAnswer
    /\ health' = AllUp
    /\ probe' = NoProbe
    /\ answered' = {}
    /\ UNCHANGED <<database, process>>

----------------------------------------------------------------------------
(* /readyz *)

Up(state) == {d \in Dependencies : state[d] = "up"}

\* readyz: asyncio.gather starts the probes.  asyncpg.connect comes first
\* where there is a connection to drain.
Readyz(state) ==
    /\ phase = "serving"
    /\ phase' = "probing"
    /\ request' = [path |-> "/readyz", key |-> FALSE, outcome |-> ""]
    /\ health' = state
    /\ answered' = Up(state)
    /\ probe' = [d \in Dependencies |-> IF d \in Draining THEN "connect" ELSE "ask"]
    /\ UNCHANGED <<database, process, answer>>

\* A dependency fails, hangs or recovers.
HealthChanges(d, state) ==
    /\ phase = "probing"
    /\ health' = [health EXCEPT ![d] = state]
    /\ answered' = answered \cup Up(health')
    /\ UNCHANGED <<database, phase, process, request, answer, probe>>

ProbeGoes(d, point) ==
    /\ probe' = [probe EXCEPT ![d] = point]
    /\ UNCHANGED <<database, phase, process, request, answer, health, answered>>

\* The dependency does its part: the connection is made; it answers; the
\* connection is closed in time.
Proceed(d) ==
    /\ phase = "probing"
    /\ health[d] = "up"
    /\ \/ probe[d] = "connect" /\ ProbeGoes(d, "ask")
       \/ probe[d] = "ask" /\ ProbeGoes(d, IF d \in Draining THEN "close" ELSE "ok")
       \/ probe[d] = "close" /\ ProbeGoes(d, "ok")

\* The connection is refused or breaks: the check raises.  A broken
\* connection closes at once; what was answered before counts.
Breaks(d) ==
    /\ phase = "probing"
    /\ health[d] = "down"
    /\ \/ probe[d] \in {"connect", "ask"} /\ ProbeGoes(d, "unavailable")
       \/ probe[d] = "close" /\ ProbeGoes(d, "ok")

\* Mutants: wait_for without its timeout; a probe that timed out counts.
never_times_out(d) == FALSE /\ UNCHANGED serviceVars
timed_out_is_ok(d) == phase = "probing" /\ probe[d] \in {"connect", "ask", "close"}
                        /\ ProbeGoes(d, "ok")

\* wait_for: PROBE_TIMEOUT_S is over and the check is cancelled.  Its finally
\* clause still runs: with a query under way, it awaits the server again, and
\* no timer is left.
Timeout(d) ==
    /\ phase = "probing"
    /\ \/ probe[d] = "ask" /\ d \in Draining /\ ProbeGoes(d, "drain")
       \/ probe[d] = "ask" /\ d \notin Draining /\ ProbeGoes(d, "unavailable")
       \/ probe[d] \in {"connect", "close"} /\ ProbeGoes(d, "unavailable")

\* connection.close() of a cancelled check returns or raises.
Drained(d) ==
    /\ phase = "probing"
    /\ probe[d] = "drain"
    /\ health[d] # "hung"
    /\ ProbeGoes(d, "unavailable")

\* Every probe has returned.
ReadyzReturns ==
    /\ phase = "probing"
    /\ \A d \in Dependencies : probe[d] \in {"ok", "unavailable"}
    /\ phase' = "answered"
    /\ answer' = [http |-> IF \A d \in Dependencies : probe[d] = "ok" THEN 200 ELSE 503,
                  texts |-> {}]
    /\ UNCHANGED <<database, process, request, probing>>

ServiceNext ==
    \/ \E dim \in Dimensions : Upgrade(dim)
    \/ Downgrade
    \/ \E environment \in Environments : create_app(environment)
    \/ verify_schema_config
    \/ Serve
    \/ Stop
    \/ WriteEmbedding
    \/ \E key \in BOOLEAN, outcome \in Outcomes : Request(key, outcome)
    \/ Answered
    \/ \E state \in [Dependencies -> {"up", "down", "hung"}] : Readyz(state)
    \/ \E d \in Dependencies :
          \/ \E state \in {"up", "down", "hung"} : HealthChanges(d, state)
          \/ Proceed(d)
          \/ Breaks(d)
          \/ Timeout(d)
          \/ Drained(d)
    \/ ReadyzReturns

ServiceSpec == ServiceInit /\ [][ServiceNext]_serviceVars

\* Timers fire, the event loop resumes a coroutine that can go on, and a
\* server that is not hung closes a connection it is asked to close.
FairService ==
    /\ ServiceSpec
    /\ WF_serviceVars(ReadyzReturns)
    /\ \A d \in Dependencies : WF_serviceVars(Timeout(d)) /\ WF_serviceVars(Drained(d))

----------------------------------------------------------------------------
(* Properties *)

\* upgrade and downgrade invert each other, however often an operator goes up
\* and down and with whatever dimension: no statement raises, nothing of the
\* schema is missing at 0001 and nothing is left at base, and the dimension
\* recorded for verify_schema_config is the one of the column.
MigrationsInvert ==
    /\ ~ raised
    /\ revision = "" => db = Empty
    /\ revision = "0001" => db.objects = Whole /\ db.recorded = db.column

\* A process that called verify_schema_config never has an embedding refused
\* for its dimension, although its settings are those of its start and the
\* check looks at the recorded value and not at the column.  A migration
\* after the check ends the promise, and so does not calling it at all.
VerifiedWritesFit == verified => ~ refused

\* What a client is told: a deployed process never serves an anonymous
\* request (although "the stub accepts every request"); "unknown exceptions
\* collapse to a generic 500 so internals never leak", that is, the text of an
\* exception that no module has made an IpaError of never reaches the client;
\* a driver's text does, but only as the detail of the 500 that a store raised
\* over it; validators quote the request only in a 422; and an error that is
\* the client's fault never turns into a server error on its way through the
\* handlers.
AnswersAreHonest ==
    phase = "answered" /\ request.path = "/v1" =>
        /\ ~ request.key /\ settings.env \in {"staging", "production"} => answer.http # 200
        /\ "internal" \notin answer.texts
        /\ "driver" \in answer.texts => answer.http = 500 /\ request.outcome.type = "ipa"
        /\ "request" \in answer.texts => answer.http = 422
        /\ request.key /\ request.outcome.status \in 400 .. 499
             => answer.http = request.outcome.status

\* "ready" is never guessed: when /readyz answers 200, each dependency was up
\* at some time while it was probed.
ReadyIsTrue ==
    phase = "answered" /\ request.path = "/readyz" /\ answer.http = 200
        => answered = Dependencies

\* /readyz answers although dependencies hang for good, with one exception: a
\* PostgreSQL server that hangs after it has accepted the connection holds
\* the probe for as long as it does, because the timeout is spent when the
\* finally clause awaits connection.close().
ReadyzAnswers ==
    <>[](\A d \in Draining : health[d] # "hung") => (phase = "probing" ~> phase # "probing")
=============================================================================
