------------------------------ MODULE Replica ------------------------------
(***************************************************************************)
(* The life of identity's replicas (infra/k8s/identity-deployment.yaml):   *)
(* a container boots, applies the migrations of its image to the database  *)
(* all replicas share (migration-runner.ts), listens, answers requests     *)
(* through its connection pool (db.service.ts), and is taken down by       *)
(* Kubernetes: endpoint removed, preStop, SIGTERM, and then the sequence   *)
(* of shutdown.ts, drain and close, against the grace period.              *)
(*                                                                         *)
(* Time passes in ticks; a timer that has run out is served before the     *)
(* next tick.  A file stands for its place in the sorted directory.        *)
(***************************************************************************)
EXTENDS Integers, FiniteSets

CONSTANTS
  Replicas,
  Ships,      \* per replica: how many migration files its image contains
  Arrivals,   \* requests sent to the service
  PreStop, DrainPeriod, ShutdownTimeout, Grace,   \* in ticks
  MaxBootFaults   \* how often a boot may fail for a reason outside the model

ASSUME ReplicaTimes ==
  /\ Ships \in [Replicas -> Nat \ {0}]
  /\ {PreStop, DrainPeriod, ShutdownTimeout, Grace} \subseteq Nat \ {0}
  /\ PreStop + DrainPeriod + ShutdownTimeout < Grace
  /\ MaxBootFaults \in Nat /\ Replicas # {}

VARIABLES
  catalog,     \* does the table schema_migrations exist?
  migrated,    \* its rows: the files applied
  effects,     \* history: how often each file has been committed
  stage,       \* how far main() has come in each replica
  snapshot,    \* the rows read at boot
  file,        \* the file its loop has come to
  open,        \* has it inserted the row of that file, uncommitted?
  ready,       \* PlatformHealthService.ready
  phase,       \* the shutdown of each replica, as the process sees it
  timer,       \* ticks until the timeout that phase waits for
  pool,        \* the connection pool: "open", "ending" or "ended"
  term,        \* ticks since Kubernetes began to take it down, until the process ends,
               \* or -1
  endpoint,    \* does the service route to it?
  request,     \* each request's state
  at,          \* the replica it has been routed to
  age,         \* ticks since then, until it is answered
  bootFaults

boot == <<catalog, migrated, effects, snapshot, file, open, bootFaults>>
traffic == <<request, at, age>>
replicaVars == <<boot, stage, ready, phase, timer, pool, term, endpoint, traffic>>

Files == UNION {1 .. Ships[r] : r \in Replicas}
Stages == {"create", "select", "apply", "listening", "failed", "exited"}
Phases == {"none", "drain", "pool", "server", "done"}
MaxAge == ShutdownTimeout

ReplicaInit ==
  /\ catalog = FALSE /\ migrated = {} /\ effects = [f \in Files |-> 0]
  /\ stage = [r \in Replicas |-> "create"]
  /\ snapshot = [r \in Replicas |-> {}]
  /\ file = [r \in Replicas |-> 1]
  /\ open = [r \in Replicas |-> FALSE]
  /\ ready = [r \in Replicas |-> TRUE]
  /\ phase = [r \in Replicas |-> "none"]
  /\ timer = [r \in Replicas |-> 0]
  /\ pool = [r \in Replicas |-> "open"]
  /\ term = [r \in Replicas |-> -1]
  /\ endpoint = [r \in Replicas |-> FALSE]
  /\ request = [q \in Arrivals |-> "new"]
  /\ at = [q \in Arrivals |-> CHOOSE r \in Replicas : TRUE]
  /\ age = [q \in Arrivals |-> 0]
  /\ bootFaults = MaxBootFaults

(***************************************************************************)
(* main: onModuleInit runs the migrations, listen ends the boot            *)
(***************************************************************************)
Booting(r) == stage[r] \in {"create", "select", "apply"}

\* The locals of runMigrations go with it.
Forgets(r) ==
  /\ snapshot' = [snapshot EXCEPT ![r] = {}]
  /\ file' = [file EXCEPT ![r] = 1]

\* main().catch: the process exits with 1 and its transaction is rolled back.
BootFails(r) ==
  /\ stage' = [stage EXCEPT ![r] = "failed"]
  /\ open' = [open EXCEPT ![r] = FALSE]
  /\ Forgets(r)

\* CREATE TABLE IF NOT EXISTS is no lock: who runs it beside the one that creates
\* the table may fail on a catalog index.
CreateTable(r) ==
  /\ stage[r] = "create" /\ pool[r] = "open"
  /\ catalog' = TRUE
  /\ \E losers \in SUBSET {o \in Replicas \ {r} : stage[o] = "create" /\ ~catalog} :
       stage' = [o \in Replicas |-> IF o = r THEN "select"
                                   ELSE IF o \in losers THEN "failed" ELSE stage[o]]
  /\ UNCHANGED <<migrated, effects, snapshot, file, open, bootFaults, ready, phase, timer, pool, term, endpoint, traffic>>

\* Mutant: the rows are not read.
SelectNothing(r) ==
  /\ stage[r] = "select" /\ pool[r] = "open"
  /\ stage' = [stage EXCEPT ![r] = "apply"]
  /\ snapshot' = [snapshot EXCEPT ![r] = {}]
  /\ file' = [file EXCEPT ![r] = 1]
  /\ UNCHANGED <<catalog, migrated, effects, open, bootFaults, ready, phase, timer, pool, term, endpoint, traffic>>

SelectApplied(r) ==
  /\ stage[r] = "select" /\ pool[r] = "open"
  /\ stage' = [stage EXCEPT ![r] = "apply"]
  /\ snapshot' = [snapshot EXCEPT ![r] = migrated]
  /\ file' = [file EXCEPT ![r] = 1]
  /\ UNCHANGED <<catalog, migrated, effects, open, bootFaults, ready, phase, timer, pool, term, endpoint, traffic>>

Applying(r) == stage[r] = "apply" /\ file[r] <= Ships[r] /\ ~open[r]

SkipFile(r) ==
  /\ Applying(r) /\ file[r] \in snapshot[r]
  /\ file' = [file EXCEPT ![r] = @ + 1]
  /\ UNCHANGED <<catalog, migrated, effects, snapshot, open, bootFaults, stage, ready, phase, timer, pool, term, endpoint, traffic>>

\* Mutant: ON CONFLICT DO NOTHING for the version row.
InsertAnyVersion(r) ==
  /\ Applying(r) /\ file[r] \notin snapshot[r] /\ pool[r] = "open"
  /\ open' = [open EXCEPT ![r] = TRUE]
  /\ UNCHANGED <<catalog, migrated, effects, snapshot, file, bootFaults, stage, ready, phase, timer, pool, term, endpoint, traffic>>

\* BEGIN, the file and its row, on a connection of its own: another open transaction with the same row is
\* waited for, a committed one violates the primary key.
InsertVersion(r) ==
  /\ Applying(r) /\ file[r] \notin snapshot[r] /\ pool[r] = "open"
  /\ \A other \in Replicas \ {r} : ~(open[other] /\ file[other] = file[r])
  /\ IF file[r] \in migrated THEN BootFails(r)
     ELSE open' = [open EXCEPT ![r] = TRUE] /\ UNCHANGED <<stage, snapshot, file>>
  /\ UNCHANGED <<catalog, migrated, effects, bootFaults, ready, phase, timer, pool, term, endpoint, traffic>>

CommitFile(r) ==
  /\ open[r]
  /\ migrated' = migrated \union {file[r]}
  /\ effects' = [effects EXCEPT ![file[r]] = @ + 1]
  /\ file' = [file EXCEPT ![r] = @ + 1]
  /\ open' = [open EXCEPT ![r] = FALSE]
  /\ UNCHANGED <<catalog, snapshot, bootFaults, stage, ready, phase, timer, pool, term, endpoint, traffic>>

\* The database is away or a statement of a file fails: ROLLBACK and throw.
BootFault(r) ==
  /\ Booting(r) /\ bootFaults > 0
  /\ BootFails(r)
  /\ bootFaults' = bootFaults - 1
  /\ UNCHANGED <<catalog, migrated, effects, ready, phase, timer, pool, term, endpoint, traffic>>

\* The sequence has ended the pool under a boot: pool.connect rejects.
PoolGone(r) ==
  /\ Booting(r) /\ pool[r] # "open" /\ ~open[r]
  /\ BootFails(r)
  /\ UNCHANGED <<catalog, migrated, effects, bootFaults, ready, phase, timer, pool, term, endpoint, traffic>>

Listen(r) ==
  /\ stage[r] = "apply" /\ file[r] > Ships[r]
  /\ stage' = [stage EXCEPT ![r] = "listening"]
  /\ Forgets(r)
  /\ UNCHANGED <<catalog, migrated, effects, open, bootFaults, ready, phase, timer, pool, term, endpoint, traffic>>

\* Kubernetes restarts a container that exited, in a pod it keeps.
Restart(r) ==
  /\ stage[r] = "failed" /\ term[r] = -1
  /\ stage' = [stage EXCEPT ![r] = "create"]
  /\ pool' = [pool EXCEPT ![r] = "open"]
  /\ UNCHANGED <<boot, ready, phase, timer, term, endpoint, traffic>>

(***************************************************************************)
(* Requests                                                                *)
(***************************************************************************)
\* /readyz: the check of the database, and the flag.
Readyz(r) == stage[r] = "listening" /\ phase[r] # "server" /\ pool[r] = "open" /\ ready[r]

\* The endpoint follows the readiness probe, and goes with the pod.
Probe(r) ==
  /\ endpoint[r] # (term[r] = -1 /\ Readyz(r))
  /\ endpoint' = [endpoint EXCEPT ![r] = ~@]
  /\ UNCHANGED <<boot, stage, ready, phase, timer, pool, term, traffic>>

\* Refused is who finds the server closed.
Route(q, r) ==
  /\ request[q] = "new" /\ endpoint[r]
  /\ request' = [request EXCEPT ![q] =
       IF stage[r] = "listening" /\ phase[r] # "server" THEN "in" ELSE "refused"]
  /\ at' = [at EXCEPT ![q] = r]
  /\ UNCHANGED <<boot, stage, ready, phase, timer, pool, term, endpoint, age>>

Answered(q, how, waited) ==
  /\ request' = [request EXCEPT ![q] = how]
  /\ age' = [age EXCEPT ![q] = waited]
  /\ UNCHANGED <<boot, stage, ready, phase, timer, pool, term, endpoint, at>>

\* pool.query takes a connection; once end() has been called it throws, and the
\* request is answered with an error.
Query(q) ==
  /\ request[q] = "in"
  /\ IF pool[at[q]] = "open" THEN Answered(q, "query", age[q]) ELSE Answered(q, "failed", 0)

QueryDone(q) == request[q] = "query" /\ Answered(q, "in", age[q])
Respond(q) == request[q] = "in" /\ Answered(q, "done", 0)

(***************************************************************************)
(* The shutdown                                                            *)
(***************************************************************************)
Alive(r) == stage[r] \notin {"failed", "exited"}
At(r) == {q \in Arrivals : at[q] = r /\ request[q] \in {"in", "query"}}

\* process.exit: what has not been answered is cut off, an open transaction is
\* rolled back.
Exits(r) ==
  /\ stage' = [stage EXCEPT ![r] = "exited"]
  /\ phase' = [phase EXCEPT ![r] = "done"]
  /\ open' = [open EXCEPT ![r] = FALSE]
  /\ Forgets(r)
  /\ pool' = [pool EXCEPT ![r] = "ended"]
  /\ timer' = [timer EXCEPT ![r] = 0]
  /\ request' = [q \in Arrivals |-> IF q \in At(r) THEN "cut" ELSE request[q]]
  /\ UNCHANGED <<catalog, migrated, effects, bootFaults, ready, term, endpoint, at, age>>

Terminate(r) ==
  /\ term[r] = -1
  /\ term' = [term EXCEPT ![r] = 0]
  /\ UNCHANGED <<boot, stage, ready, phase, timer, pool, endpoint, traffic>>

SigtermDue(r) == Alive(r) /\ term[r] = PreStop /\ phase[r] = "none"

\* Mutant: no drain before the close, as Nest's own listener would do it.
SigtermCloses(r) ==
  /\ SigtermDue(r)
  /\ ready' = [ready EXCEPT ![r] = FALSE]
  /\ phase' = [phase EXCEPT ![r] = "pool"]
  /\ timer' = [timer EXCEPT ![r] = ShutdownTimeout]
  /\ pool' = [pool EXCEPT ![r] = "ending"]
  /\ UNCHANGED <<boot, stage, term, endpoint, traffic>>

\* installGracefulShutdown came before listen: the handler is there in any boot.
Sigterm(r) ==
  /\ SigtermDue(r)
  /\ ready' = [ready EXCEPT ![r] = FALSE]
  /\ phase' = [phase EXCEPT ![r] = "drain"]
  /\ timer' = [timer EXCEPT ![r] = DrainPeriod]
  /\ UNCHANGED <<boot, stage, pool, term, endpoint, traffic>>

CloseDue(r) == Alive(r) /\ phase[r] = "drain" /\ timer[r] = 0

\* app.close(), whose first hook is DbService.onModuleDestroy: pool.end().
StartClose(r) ==
  /\ CloseDue(r)
  /\ phase' = [phase EXCEPT ![r] = "pool"]
  /\ timer' = [timer EXCEPT ![r] = ShutdownTimeout]
  /\ pool' = [pool EXCEPT ![r] = "ending"]
  /\ UNCHANGED <<boot, stage, ready, term, endpoint, traffic>>

\* end() waits for the connections that are out; then the server is closed.
PoolEnded(r) ==
  /\ Alive(r) /\ phase[r] = "pool" /\ pool[r] = "ending"
  /\ ~open[r] /\ \A q \in At(r) : request[q] # "query"
  /\ pool' = [pool EXCEPT ![r] = "ended"]
  /\ phase' = [phase EXCEPT ![r] = "server"]
  /\ UNCHANGED <<boot, stage, ready, timer, term, endpoint, traffic>>

\* Mutant: exit without awaiting app.close().
CloseUnawaited(r) ==
  /\ Alive(r) /\ phase[r] = "server"
  /\ Exits(r)

\* server.close() waits for the answers, and then the process exits with 0.
CloseEnds(r) ==
  /\ Alive(r) /\ phase[r] = "server" /\ At(r) = {}
  /\ Exits(r)

TimeoutDue(r) == Alive(r) /\ phase[r] \in {"pool", "server"} /\ timer[r] = 0

\* withTimeout rejects, the error is logged, and the process exits all the same.
CloseTimesOut(r) == TimeoutDue(r) /\ Exits(r)

\* Routing lags behind the removal of the pod, by less than preStop and drain.
RoutingLags(r) == endpoint[r] /\ term[r] = PreStop + DrainPeriod - 1

Tick ==
  /\ \A r \in Replicas :
       ~(SigtermDue(r) \/ CloseDue(r) \/ TimeoutDue(r) \/ RoutingLags(r))
  /\ term' = [r \in Replicas |-> IF Alive(r) /\ term[r] \in 0 .. Grace - 1 THEN term[r] + 1 ELSE term[r]]
  /\ timer' = [r \in Replicas |-> IF timer[r] > 0 THEN timer[r] - 1 ELSE 0]
  /\ age' = [q \in Arrivals |->
       IF request[q] \in {"in", "query"} /\ age[q] < MaxAge THEN age[q] + 1 ELSE age[q]]
  /\ UNCHANGED <<boot, stage, ready, phase, pool, endpoint, request, at>>

(***************************************************************************)
(* The specification                                                       *)
(***************************************************************************)
BootStep(r) ==
  \/ CreateTable(r) \/ SelectApplied(r) \/ SkipFile(r) \/ InsertVersion(r) \/ CommitFile(r)
  \/ PoolGone(r) \/ Listen(r) \/ Restart(r)

ShutdownStep(r) ==
  \/ Terminate(r) \/ Sigterm(r) \/ StartClose(r) \/ PoolEnded(r) \/ CloseEnds(r)
  \/ CloseTimesOut(r)

RequestStep(q) == (\E r \in Replicas : Route(q, r)) \/ Query(q) \/ QueryDone(q) \/ Respond(q)

ReplicaNext ==
  \/ \E r \in Replicas : BootStep(r) \/ BootFault(r) \/ Probe(r) \/ ShutdownStep(r)
  \/ \E q \in Arrivals : RequestStep(q)
  \/ Tick

ReplicaSpec == ReplicaInit /\ [][ReplicaNext]_replicaVars

\* The process goes on with its boot, and Kubernetes restarts it.
ReplicaFairness == \A r \in Replicas : WF_replicaVars(BootStep(r))

ReplicaFair == ReplicaSpec /\ ReplicaFairness

(***************************************************************************)
(* Properties                                                              *)
(***************************************************************************)
\* Every variable has its type.
ReplicaTypeOK ==
  /\ catalog \in BOOLEAN /\ migrated \subseteq Files
  /\ effects \in [Files -> Nat]
  /\ stage \in [Replicas -> Stages]
  /\ snapshot \in [Replicas -> SUBSET Files]
  /\ file \in [Replicas -> Nat \ {0}]
  /\ open \in [Replicas -> BOOLEAN] /\ ready \in [Replicas -> BOOLEAN]
  /\ phase \in [Replicas -> Phases]
  /\ timer \in [Replicas -> Nat]
  /\ pool \in [Replicas -> {"open", "ending", "ended"}]
  /\ term \in [Replicas -> -1 .. Grace]
  /\ endpoint \in [Replicas -> BOOLEAN]
  /\ request \in [Arrivals -> {"new", "in", "query", "done", "failed", "refused", "cut"}]
  /\ at \in [Arrivals -> Replicas]
  /\ age \in [Arrivals -> 0 .. MaxAge]
  /\ bootFaults \in Nat

\* However the boots of the replicas overlap, each migration file takes effect at
\* most once and after all files before it, and a replica listens only on a
\* database that has every file of its image (migration-runner.ts:6-16).
MigratedOnce ==
  /\ \A f \in Files : effects[f] <= 1 /\ (f \in migrated => 1 .. f \subseteq migrated)
  /\ \A r \in Replicas : stage[r] = "listening" => 1 .. Ships[r] \subseteq migrated

\* A replica that lost the race for a migration still comes up, unless it is
\* taken down first, and so do all of them.
EveryReplicaServes == <>(\A r \in Replicas : stage[r] = "listening" \/ term[r] >= 0)

\* The drain outlasts the routing: no request is sent to a server that has been
\* closed (shutdown.ts:36-38).
NothingRefused == \A q \in Arrivals : request[q] # "refused"

\* A request is cut off only after the whole time allowed for the close, and a
\* replica has always exited before its grace period ends and Kubernetes kills it
\* (shutdown.ts:39-41, identity-deployment.yaml).
GraceGiven ==
  /\ \A q \in Arrivals : request[q] = "cut" => age[q] = MaxAge
  /\ \A r \in Replicas : Alive(r) => term[r] < Grace
=============================================================================
