----------------------------- MODULE Lifecycle -----------------------------
(***************************************************************************)
(* One process from main to its exit: settings (Settings), the wiring of   *)
(* internal/app/server.go, the HTTP listener and its requests, the Kafka   *)
(* consumer and the cleanup loop of its dedupe table, the AMQP product     *)
(* handler, the database pool they all borrow from, and the ordered        *)
(* teardown, with a signal at any moment.  The publishing loop that calls  *)
(* block on is the one of AmqpSession; Cancel is the signal.               *)
(***************************************************************************)
EXTENDS Settings, AmqpSession, FiniteSets

CONSTANTS
  Request,    \* the HTTP requests
  Input,      \* what operators provide: a set of inputs of Settings
  MaxInt32    \* the largest pool size that fits

\* Variables and secret files are texts; what is not set has no value.
ASSUME InputAssumption ==
  \A in \in Input, k \in Key :
    /\ Kind(in.env[k]) \in {"none", "string"} /\ Kind(in.dir[k]) \in {"none", "string"}
    /\ Kind(in.local[k]) = "none" => in.local[k] = Unset
    /\ Kind(in.file[k]) = "none" => in.file[k] = Unset

VARIABLES
  input, environ,   \* the operator's input, and the environment of the process
  cfg,              \* *config.Config
  phase,            \* where main is
  listener,         \* the goroutine of ListenAndServe
  pool,             \* the pgx pool
  work,             \* where each user of the pool is in its call
  cut               \* the drain timed out and connections were closed

settings == <<input, environ, cfg>>
vars == <<sessionVars, settings, phase, listener, pool, work, cut>>

Background == {"consumer", "cleaner", "product"}
User == Request \cup Background

ASSUME RequestAssumption == Request \cap Background = {}

Ended == phase \in {"exited", "fatal"}

\* Calls that have borrowed a connection.  FillReserves publishes inside its
\* transaction, Produce publishes after its commit and before FillReserves.
Holders == {u \in User : work[u] \in {"tx", "fill", "publishInTx", "commit"}}

Init ==
  /\ SessionInit
  /\ input \in Input /\ environ = input.env
  /\ cfg = [k \in Key |-> Val(Default[k])]
  /\ phase = "secrets"
  /\ listener = "none" /\ pool = "none" /\ cut = FALSE
  /\ work = [u \in User |-> IF u \in Background THEN "off" ELSE "idle"]

-----------------------------------------------------------------------------
(* main and buildDeps *)

\* log.Fatal or os.Exit unless the condition holds
OrDie(ok, next) == phase' = IF ok THEN next ELSE "fatal"

LoadSecrets ==
  /\ phase = "secrets"
  /\ environ' = IF SecretsLoaded(input) THEN Exported(input) ELSE environ
  /\ OrDie(SecretsLoaded(input), "config")
  /\ UNCHANGED <<sessionVars, input, cfg, listener, pool, work, cut>>

LoadConfig ==
  /\ phase = "config"
  /\ cfg' = IF CanLoad(input, environ) THEN Load(input, environ) ELSE cfg
  /\ OrDie(CanLoad(input, environ), "connect")
  /\ UNCHANGED <<sessionVars, input, environ, listener, pool, work, cut>>

\* poolSizeToInt32; ParseConfig wants room for one connection
PoolSizeFits == cfg.maxSize \in 1 .. MaxInt32

\* ConnectDb: failed migrations are only logged, the pool connects later.
ConnectDb ==
  /\ phase = "connect"
  /\ OrDie(PoolSizeFits, "bootstrap")
  /\ pool' = IF PoolSizeFits THEN "open" ELSE pool
  /\ UNCHANGED <<sessionVars, settings, listener, work, cut>>

\* user.Bootstrap, which needs the database and a live ctx, and configureSigner
BuildDeps ==
  /\ phase = "bootstrap"
  /\ \E dbOk \in BOOLEAN :
       OrDie(dbOk /\ ~ctxDone /\ (cfg.profile = "prod" => input.key), "wire")
  /\ UNCHANGED <<sessionVars, settings, listener, pool, work, cut>>

\* The loops startKafka leaves running: none if its producer or its consumer
\* cannot be made, and the start goes on.
startKafka(ok) == IF ok THEN {"consumer", "cleaner"} ELSE {}

\* NewProductQueue, and Kafka if brokers are set
Wire ==
  /\ phase = "wire"
  /\ \E ok \in BOOLEAN :
       LET started == {"product"} \cup startKafka(ok /\ cfg.brokers # "")
       IN  work' = [u \in User |-> IF u \in started THEN "idle" ELSE work[u]]
  /\ phase' = "run"
  /\ UNCHANGED <<sessionVars, settings, listener, pool, cut>>

\* Run returns before anything else, and so without Cleanup, if TLS has no files.
Run ==
  /\ phase = "run"
  /\ OrDie(cfg.tls => cfg.certFile # "", "serving")
  /\ UNCHANGED <<sessionVars, settings, listener, pool, work, cut>>

-----------------------------------------------------------------------------
(* The goroutines *)

\* ListenAndServe: after Shutdown it returns at once.
Listen ==
  /\ listener = "none" /\ phase \notin {"secrets", "config", "connect", "bootstrap", "wire", "run"}
  /\ ~Ended
  /\ listener' \in IF phase = "serving" THEN {"open", "failed"} ELSE {"closed"}
  /\ UNCHANGED <<sessionVars, settings, phase, pool, work, cut>>

\* The ctx of u's call
Cancelled(u) == IF u \in Request THEN cut ELSE ctxDone

Move(u, place) ==
  /\ ~Ended
  /\ work' = [work EXCEPT ![u] = place]
  /\ UNCHANGED <<sessionVars, settings, phase, listener, pool, cut>>

\* A connection is free for a call that is not cancelled.
Acquire(u) == pool = "open" /\ ~Cancelled(u) /\ Cardinality(Holders) < cfg.maxSize

\* A request arrives, a record or delivery comes, the cleanup ticks.  Kafka
\* records and ticks after the cancellation fail before they do anything.
Begin(u) ==
  /\ work[u] = "idle"
  /\ u \in Request => listener = "open"
  /\ u \in {"consumer", "cleaner"} => ~ctxDone
  /\ Move(u, "wait")

\* The call is over: background loops wait for more, a request is answered.
Rest(u) == IF u \in Request THEN "over" ELSE "idle"

\* Produce and FillReserves; CreateProduct and CleanupOnce end after "tx".
\* Any statement may fail and release what the call holds.
CallStep(u) ==
  \/ work[u] = "wait" /\ Acquire(u) /\ Move(u, "tx")
  \/ work[u] = "tx" /\ u \in Request \cup {"consumer"} /\ Move(u, "publish")
  \/ work[u] = "publish" /\ loop = "open" /\ Move(u, "waitFill")
  \/ work[u] = "waitFill" /\ Acquire(u) /\ Move(u, "fill")
  \/ work[u] = "fill" /\ Move(u, "publishInTx")
  \/ work[u] = "publishInTx" /\ loop = "open" /\ Move(u, "commit")
  \/ work[u] \in {"tx", "fill", "commit"} /\ Move(u, Rest(u))
  \/ work[u] \in {"wait", "waitFill"} /\ (Cancelled(u) \/ pool # "open") /\ Move(u, Rest(u))

\* Consumer.Run and Applier.Cleanup return once ctx is cancelled.
Stop(u) ==
  /\ u \in {"consumer", "cleaner"} /\ work[u] = "idle" /\ ctxDone
  /\ Move(u, "stopped")

\* The publishing loop, which exists from NewInventoryQueue on
AmqpRuns == phase \notin {"secrets", "config", "connect"} /\ ~Ended

AmqpStep ==
  /\ AmqpRuns
  /\ \/ SessionStep \/ HandOver
     \/ loop = "open" /\ conn = "down" /\ Leave
  /\ UNCHANGED <<settings, phase, listener, pool, work, cut>>

Trouble ==
  /\ IF AmqpRuns THEN SessionFault ELSE ~Ended /\ Cancel
  /\ UNCHANGED <<settings, phase, listener, pool, work, cut>>

-----------------------------------------------------------------------------
(* Run's select, and Cleanup *)

\* shutdownHTTP stops the listener first.
Shutdown ==
  /\ phase = "serving" /\ (listener = "failed" \/ ctxDone)
  /\ phase' = "drain"
  /\ listener' = IF listener = "none" THEN "none" ELSE "closed"
  /\ UNCHANGED <<sessionVars, settings, pool, work, cut>>

InFlight == \E r \in Request : work[r] \notin {"idle", "over"}

\* Mutant: the drain has no deadline.
DrainForever ==
  /\ phase = "drain" /\ ~InFlight
  /\ phase' = "stopKafka"
  /\ cut' = FALSE
  /\ UNCHANGED <<sessionVars, settings, listener, pool, work>>

\* Requests finish in resolveShutdownTimeout, or else are cut off by Close.
Drain ==
  /\ phase = "drain"
  /\ phase' = "stopKafka"
  /\ cut' = InFlight
  /\ UNCHANGED <<sessionVars, settings, listener, pool, work>>

\* Mutant: the cleanup loop is not waited for.
KafkaCleanupForgets ==
  /\ phase = "stopKafka"
  /\ work["consumer"] \in {"off", "stopped"}
  /\ phase' = "closePool"
  /\ UNCHANGED <<sessionVars, settings, listener, pool, work, cut>>

\* <-done and <-cleanupDone, then the clients are closed.
KafkaCleanup ==
  /\ phase = "stopKafka"
  /\ \A u \in {"consumer", "cleaner"} : work[u] \in {"off", "stopped"}
  /\ phase' = "closePool"
  /\ UNCHANGED <<sessionVars, settings, listener, pool, work, cut>>

\* DB.Close: no connection is lent any more ...
ClosePool ==
  /\ phase = "closePool" /\ pool = "open"
  /\ pool' = "closing"
  /\ UNCHANGED <<sessionVars, settings, phase, listener, work, cut>>

\* ... and it returns when all are back.
PoolClosed ==
  /\ phase = "closePool" /\ pool = "closing" /\ Holders = {}
  /\ pool' = "closed" /\ phase' = "flush"
  /\ UNCHANGED <<sessionVars, settings, listener, work, cut>>

\* Redis is closed and the tracer flushed, for at most five seconds.
Exit ==
  /\ phase = "flush"
  /\ phase' = "exited"
  /\ UNCHANGED <<sessionVars, settings, listener, pool, work, cut>>

MainStep ==
  \/ LoadSecrets \/ LoadConfig \/ ConnectDb \/ BuildDeps \/ Wire \/ Run
  \/ Shutdown \/ Drain \/ KafkaCleanup \/ ClosePool \/ PoolClosed \/ Exit

Next ==
  \/ MainStep \/ Listen \/ AmqpStep \/ Trouble
  \/ \E u \in User : Begin(u) \/ CallStep(u) \/ Stop(u)

\* The scheduler runs every goroutine and the database answers.  Work need not
\* arrive and nobody need send a signal.
Spec ==
  /\ Init /\ [][Next]_vars
  /\ WF_vars(MainStep) /\ WF_vars(Listen) /\ WF_vars(AmqpStep)
  /\ \A u \in User : WF_vars(CallStep(u) \/ Stop(u))

-----------------------------------------------------------------------------
(* Properties *)

\* What the secrets provider supplies is what the process uses: a secret file
\* beats a stale variable and every config file, an empty one counts as none,
\* and nothing but the two steps in main's order brings this about (main.go
\* 37-41, provider.go 123-169, config.go 319-442).
CredentialsInEffect ==
  phase \notin {"secrets", "config", "fatal"} =>
    LET secret == IF input.provider = "file" THEN input.dir.dbPass ELSE input.env.dbPass
        onFile == IF Kind(input.local.dbPass) # "none" THEN input.local.dbPass
                                                      ELSE input.file.dbPass
    IN  cfg.dbPass = IF Val(secret) # "" THEN Val(secret) ELSE getString(onFile)

\* Nobody who is waited for finds the pool closed under its work: when the
\* pool starts to close, the Kafka loops have ended and every request is over,
\* or the drain's deadline passed (server.go 208-224, 599-604).
UsersGoneBeforeClose ==
  pool \in {"closing", "closed"} =>
    /\ work["consumer"] \in {"off", "stopped"} /\ work["cleaner"] \in {"off", "stopped"}
    /\ InFlight => cut

\* A call waits at the channel of a publishing loop that has ended while
\* Cleanup waits for it: the pool for its connection, KafkaCleanup for the consumer.
HeldByPublisher ==
  /\ loop \in {"exited", "waiting"} /\ factory = "closed"
  /\ \/ \E u \in User : work[u] = "publishInTx"
     \/ work["consumer"] = "publish"

\* "A hanging request must not block shutdown indefinitely" (docs/lifecycle.md
\* 66-68): after a signal the process ends, in whatever phase the signal meets
\* it and whatever its requests and loops wait for, except for a call held by
\* the publisher (server.go 162-282, transport_queue.go 93-109).
ShutdownEnds == ctxDone ~> (Ended \/ HeldByPublisher)
=============================================================================
