--------------------------- MODULE ServerProcess ----------------------------
(***************************************************************************)
(* One process of the service from start to exit: run of cmd/server, with  *)
(* the settings it requires, the connections it opens, the HTTP server and *)
(* the deletion worker it starts, the signal that stops it and the         *)
(* deferred calls that close what it opened.  A call to PostgreSQL, Redis, *)
(* S3 or the JWKS endpoint may hang until its context ends.                *)
(***************************************************************************)
EXTENDS Sequences, FiniteSets

CONSTANT Request \* slots for concurrent HTTP requests

VARIABLES
    phase,     \* the statement run is at
    deferred,  \* its deferred calls, the next to run first
    code,      \* how the process ends: its exit code, "none" while undecided
    ctx,       \* the context of NotifyContext: "live" or "done"
    open,      \* connections that are open
    closing,   \* db.Close has begun: no connection of the pool can be acquired
    server,    \* the HTTP server
    req,       \* req[r]: the call request r is in, "none" without a request
    worker,    \* the call the deletion worker is in
    expired,   \* the shutdown timeout ran out
    cut        \* history: requests that found a connection closed, or were
               \* still running when the process ended

pvars == <<phase, deferred, code, ctx, open, closing, server, req, worker, expired, cut>>

\* Settings without a default.
Required == {"DATABASE_URL", "REDIS_ADDR", "AUTH_JWKS_URL", "PUBLIC_BASE_URL",
             "STORAGE_BUCKET", "STORAGE_REGION"}

\* The connections run checks, in order.
After == [database |-> "redis", redis |-> "jwks", jwks |-> "storage",
          storage |-> "serving"]

Active == {r \in Request : req[r] # "none"}

\* The worker's call uses a connection of the pool.
WorkerHolds == worker \in {"claim", "finish"}

PoolInUse == WorkerHolds \/ \E r \in Request : req[r] = "db"

ProcessTypeOK ==
    /\ phase \in DOMAIN After \cup {"config", "serving", "shutdown", "return", "exited"}
    /\ deferred \in {<<>>, <<"stop">>, <<"database", "stop">>, <<"redis", "database", "stop">>}
    /\ code \in {"none", "ok", "error", "killed"}
    /\ ctx \in {"live", "done"}
    /\ open \subseteq {"database", "redis"}
    /\ closing \in BOOLEAN
    /\ server \in {"off", "up", "failed", "down"}
    /\ req \in [Request -> {"none", "auth", "db", "s3"}]
    /\ worker \in {"off", "claim", "delete", "finish", "wait", "ended"}
    /\ expired \in BOOLEAN
    /\ cut \subseteq Request

ProcessInit ==
    /\ phase = "config" /\ deferred = <<>> /\ code = "none"
    /\ ctx = "live"
    /\ open = {} /\ closing = FALSE
    /\ server = "off"
    /\ req = [r \in Request |-> "none"]
    /\ worker = "off"
    /\ expired = FALSE
    /\ cut = {}

-----------------------------------------------------------------------------
(* Start. *)

\* config.Load, then NotifyContext.  A required setting that is unset or empty
\* ends the process; others that are unset, empty or unreadable get a default.
Load(missing) ==
    /\ phase = "config"
    /\ IF missing = {}
       THEN phase' = "database" /\ deferred' = <<"stop">> /\ UNCHANGED code
       ELSE phase' = "return" /\ code' = "error" /\ UNCHANGED deferred
    /\ UNCHANGED <<ctx, open, closing, server, req, worker, expired, cut>>

\* Slip: deferred calls run in the order of their defer statements.
DeferLast(d) == deferred' = Append(deferred, d)

Defer(d) == deferred' = <<d>> \o deferred

\* Slip: the worker starts as soon as there is a pool.
StartServingEarly ==
    /\ worker' = IF phase = "database" THEN "claim" ELSE worker
    /\ server' = IF phase = "storage" THEN "up" ELSE server

\* The worker and the HTTP server start once every check has passed.
StartServing ==
    IF phase = "storage" THEN worker' = "claim" /\ server' = "up"
    ELSE UNCHANGED <<worker, server>>

Connected ==
    /\ phase \in DOMAIN After
    /\ phase' = After[phase]
    /\ IF phase \in {"database", "redis"}
       THEN /\ open' = open \cup {phase}
            /\ Defer(phase)
       ELSE UNCHANGED <<open, deferred>>
    /\ StartServing
    /\ UNCHANGED <<code, ctx, closing, req, expired, cut>>

\* Slip: the pool stays open when the first ping fails.
NotConnectedLeaky ==
    /\ phase \in DOMAIN After
    /\ phase' = "return" /\ code' = "error"
    /\ open' = IF phase = "database" THEN {"database"} ELSE open
    /\ UNCHANGED <<deferred, ctx, closing, server, req, worker, expired, cut>>

\* A refusal, a connect timeout or a signal; postgres.New closes its pool itself.
NotConnected ==
    /\ phase \in DOMAIN After
    /\ phase' = "return" /\ code' = "error"
    /\ UNCHANGED <<deferred, ctx, open, closing, server, req, worker, expired, cut>>

-----------------------------------------------------------------------------
(* SIGINT or SIGTERM. *)

\* The process is gone, and takes every goroutine along.
End(c) ==
    /\ phase' = "exited" /\ code' = c
    /\ req' = [r \in Request |-> "none"]
    /\ worker' = "ended"
    /\ cut' = cut \cup Active
    /\ UNCHANGED <<deferred, ctx, open, closing, server, expired>>

\* Before NotifyContext, and again after stop, a signal kills the process;
\* between them it ends ctx.
Signal ==
    /\ phase # "exited"
    /\ IF deferred = <<>> THEN End("killed")
       ELSE /\ ctx' = "done"
            /\ UNCHANGED <<phase, code, deferred, open, closing, server, req, worker,
                           expired, cut>>

-----------------------------------------------------------------------------
(* Requests, each under a timeout of its own that shutdown does not shorten. *)

\* A server that failed takes no new connection, but requests on those it has.
Arrives(r) ==
    /\ server \in {"up", "failed"} /\ phase # "exited"
    /\ req[r] = "none"

Accept(r) ==
    /\ Arrives(r)
    /\ req' = [req EXCEPT ![r] = "auth"]
    /\ UNCHANGED <<phase, deferred, code, ctx, open, closing, server, worker, expired, cut>>

\* GET /ready needs no session, and pings the database; a pool that is closing
\* refuses at once.
Ready(r) ==
    /\ Arrives(r)
    /\ IF closing THEN cut' = cut \cup {r} /\ UNCHANGED req
       ELSE req' = [req EXCEPT ![r] = "db"] /\ UNCHANGED cut
    /\ UNCHANGED <<phase, deferred, code, ctx, open, closing, server, worker, expired>>

\* The next call of a handler: to the database, or to the object store.
Call(r, next) ==
    /\ r \in Active
    /\ req[r] = "auth" => "redis" \in open
    /\ ~ (next = "db" /\ closing)
    /\ req' = [req EXCEPT ![r] = next]
    /\ UNCHANGED <<phase, deferred, code, ctx, open, closing, server, worker, expired, cut>>

\* A request is answered, or fails because what it needs was closed.
Answer(r) ==
    /\ r \in Active
    /\ req' = [req EXCEPT ![r] = "none"]
    /\ \/ UNCHANGED cut
       \/ /\ closing \/ (req[r] = "auth" /\ "redis" \notin open)
          /\ cut' = cut \cup {r}
    /\ UNCHANGED <<phase, deferred, code, ctx, open, closing, server, worker, expired>>

-----------------------------------------------------------------------------
(* The worker's Run, under ctx. *)

\* Slip: the worker runs under context.Background().
WorkerCancelledNever == FALSE

WorkerCancelled == ctx = "done"

\* A query of the worker cannot even begin.
WorkerBarred == closing \/ WorkerCancelled

\* The call returns, if need be because ctx ended; after the delete comes
\* Complete or Retry.
WorkerReturns ==
    /\ worker \in {"claim", "delete", "finish"}
    /\ worker' \in CASE worker = "claim"  -> {"delete", "wait"}
                     [] worker = "delete" -> {IF WorkerBarred THEN "wait" ELSE "finish"}
                     [] worker = "finish" -> {"wait"}
    /\ UNCHANGED <<phase, deferred, code, ctx, open, closing, server, req, expired, cut>>

\* The select between two polls.
WorkerPolls ==
    /\ worker = "wait"
    /\ \/ WorkerCancelled /\ worker' = "ended"
       \/ ~ WorkerBarred /\ worker' = "claim"
    /\ UNCHANGED <<phase, deferred, code, ctx, open, closing, server, req, expired, cut>>

-----------------------------------------------------------------------------
(* The end of run. *)

\* Run of the HTTP server returns an error: it takes no more connections.
ServerFails ==
    /\ server = "up"
    /\ server' = "failed"
    /\ UNCHANGED <<phase, deferred, code, ctx, open, closing, req, worker, expired, cut>>

\* Slip: run waits for the signal only.
SelectSignal ==
    /\ phase = "serving" /\ ctx = "done"
    /\ phase' = "shutdown"
    /\ server' = "down"
    /\ UNCHANGED <<deferred, code, ctx, open, closing, req, worker, expired, cut>>

\* The select on errCh and ctx.Done(); Shutdown first closes the listener and
\* whatever connection has no request.
Select ==
    /\ phase = "serving"
    /\ \/ /\ server = "failed"
          /\ phase' = "return" /\ code' = "error"
          /\ UNCHANGED server
       \/ /\ ctx = "done"
          /\ phase' = "shutdown"
          /\ server' = "down"
          /\ UNCHANGED code
    /\ UNCHANGED <<deferred, ctx, open, closing, req, worker, expired, cut>>

\* Slip: Shutdown is not waited for.
ShutdownAtOnce ==
    /\ phase = "shutdown"
    /\ phase' = "return" /\ code' = "ok"
    /\ UNCHANGED <<deferred, ctx, open, closing, server, req, worker, expired, cut>>

\* Shutdown returns when no request is left, or with an error after a timeout.
Shutdown ==
    /\ phase = "shutdown"
    /\ phase' = "return"
    /\ code' = IF Active = {} THEN "ok" ELSE "error"
    /\ expired' = (Active # {})
    /\ UNCHANGED <<deferred, ctx, open, closing, server, req, worker, cut>>

\* db.Close ends when every connection was given back to the pool.
PoolReturned == closing /\ ~ PoolInUse

\* One deferred call after the other; db.Close takes two steps.
RunDeferred ==
    LET next == Head(deferred)
    IN  /\ phase = "return" /\ deferred # <<>>
        /\ \/ next = "redis" /\ open' = open \ {"redis"} /\ UNCHANGED <<ctx, closing>>
           \/ /\ next = "database" /\ ~ closing
              /\ closing' = TRUE
              /\ UNCHANGED <<ctx, open>>
           \/ /\ next = "database" /\ PoolReturned
              /\ open' = open \ {"database"}
              /\ UNCHANGED <<ctx, closing>>
           \/ next = "stop" /\ ctx' = "done" /\ UNCHANGED <<open, closing>>
        /\ deferred' = IF next = "database" /\ ~ closing THEN deferred ELSE Tail(deferred)
        /\ UNCHANGED <<phase, code, server, req, worker, expired, cut>>

\* main returns, or exits with the error.
Exit ==
    /\ phase = "return" /\ deferred = <<>>
    /\ End(code)

Run ==
    \/ \E missing \in SUBSET Required : Load(missing)
    \/ Connected
    \/ NotConnected
    \/ Select
    \/ Shutdown
    \/ RunDeferred
    \/ Exit

Handle(r) ==
    \/ Accept(r)
    \/ Ready(r)
    \/ \E next \in {"db", "s3"} : Call(r, next)
    \/ Answer(r)

ProcessNext ==
    \/ Run
    \/ Signal
    \/ ServerFails
    \/ WorkerReturns
    \/ WorkerPolls
    \/ \E r \in Request : Handle(r)

ProcessSpec == ProcessInit /\ [][ProcessNext]_pvars

(***************************************************************************)
(* Statements that do not wait are executed, the shutdown timeout runs     *)
(* out, and the timeout of a request (30 seconds, 2 in ReadyHandler) ends  *)
(* its queries.  Not so its calls to S3: the compensating delete of Create *)
(* runs under WithoutCancel.  A call under ctx need not return before ctx  *)
(* has ended: connecting and the worker's calls are fair only then.        *)
(***************************************************************************)
ProcessFairness ==
    /\ WF_pvars(Run /\ (phase \in DOMAIN After => ctx = "done"))
    /\ WF_pvars(WorkerCancelled /\ (WorkerReturns \/ WorkerPolls))
    /\ \A r \in Request : WF_pvars(req[r] = "db" /\ Answer(r))

ProcessLiveSpec == ProcessSpec /\ ProcessFairness

-----------------------------------------------------------------------------
\* A process that was told to stop ends, though requests may hang in S3 for ever,
\* and the start and the worker in any call until ctx ends: no deferred call
\* waits for something that never comes.
SignalEndsProcess == ctx = "done" ~> phase = "exited"

\* db.Close waits for a query of the worker, and stop, which alone (or a signal)
\* would end the query, is deferred to run after db.Close.
CloseHangs == closing /\ WorkerHolds /\ ctx = "live"

\* This circle can close in no process but one whose server failed, which then
\* has its error to report: never in a start that fails, nor after a signal.
HangsOnlyAfterFailure == CloseHangs => server = "failed" /\ code = "error"

\* And it is all that can keep a process whose server failed: such a process
\* exits, or gets as far as db.Close and stays in the circle for ever.
FailureEndsProcess == server = "failed" ~> (phase = "exited" \/ []CloseHangs)

\* A request loses its connections or its answer only when the shutdown timeout
\* ran out or the server had failed, and never in a process that reports success.
CutOnlyAfterGrace ==
    cut # {} => code \in {"error", "killed"} /\ (expired \/ server = "failed")

\* Whatever step of the start fails, every connection is closed at the exit.
ClosedAtExit == phase = "exited" => open = {}

-----------------------------------------------------------------------------
(* The inductive invariant behind the three that are no temporal properties. *)

Ending == phase \in {"return", "exited"}

\* What run has deferred when it gets to a statement.
DeferredAt ==
    [config   |-> <<>>,
     database |-> <<"stop">>,
     redis    |-> <<"database", "stop">>]

FullStack == <<"redis", "database", "stop">>

\* The deferred calls are those of the steps that succeeded, and a connection is
\* open exactly while the call that closes it is still to come.
StackMatchesOpen ==
    /\ phase \in DOMAIN DeferredAt => deferred = DeferredAt[phase]
    /\ phase \in {"jwks", "storage", "serving", "shutdown"} => deferred = FullStack
    /\ phase = "exited" => deferred = <<>>
    /\ "redis" \in open <=> deferred = FullStack
    /\ "database" \in open <=> deferred \in {DeferredAt["redis"], FullStack}

\* Requests come only while run serves, so none is there before; nothing is
\* closed or cut, and no exit code is known, before run returns.
ServesOnlyBetween ==
    /\ server = "off" => Active = {}
    /\ phase \in {"config"} \cup DOMAIN After => server = "off"
    /\ server = "up" => phase = "serving"
    /\ phase = "shutdown" => server = "down"
    /\ Ending /\ server = "failed" => code \in {"error", "killed"}
    /\ ~ Ending => code = "none" /\ ~ closing /\ cut = {}
    /\ phase = "exited" => Active = {}

\* Requests that outlive the shutdown, or were cut after it, had their time.
GraceGiven ==
    Ending /\ (Active # {} \/ cut # {}) =>
        code \in {"error", "killed"} /\ (expired \/ server = "failed")

\* The worker runs only after the start, and run stops serving with ctx still
\* live only when the server failed.
WorkerOutlives ==
    /\ phase \in {"config"} \cup DOMAIN After => worker = "off"
    /\ phase = "shutdown" => ctx = "done"
    /\ phase = "return" /\ worker # "off" /\ ctx = "live" =>
           server = "failed" /\ code = "error"
    /\ phase = "exited" => worker = "ended"

\* The inductive invariant of the process.
ProcessInv ==
    /\ ProcessTypeOK
    /\ StackMatchesOpen
    /\ ServesOnlyBetween
    /\ GraceGiven
    /\ WorkerOutlives

=============================================================================
