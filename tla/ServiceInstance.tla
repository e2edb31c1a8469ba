---------------------------- MODULE ServiceInstance ----------------------------
(***************************************************************************)
(* One process of cmd/service: its construction, the start and stop hooks  *)
(* of internal/adapters/app in their order, the HTTP server with the       *)
(* admission limits of its routes, the three runners, and the connection   *)
(* pool all of them share.                                                 *)
(*                                                                         *)
(*   phase:  building -> up -> stopping -> clean | failed                  *)
(*           building -> failed,  up -> rollback -> failed,  any -> killed *)
(*   job:    none -> waiting -> holding -> over -> answered (a request)    *)
(*   loop:   off -> idle -> busy -> settling -> idle ... -> stopped        *)
(*                                                                         *)
(* A job is a request's handler, or the work of a runner.  It may need a   *)
(* connection several times, one after the other, and never two at once.   *)
(* The clock counts the time since fx began to stop.                       *)
(***************************************************************************)
EXTENDS Integers, FiniteSets, Sequences

CONSTANTS
  Requests,          \* HTTP requests the instance may get
  RouteOf,           \* the route of each
  ConcurrencyLimit,  \* what RateLimit is called with, for every route
  PoolSize,          \* connections of the pgx pool
  StopTimeout,       \* of the context that main gives to Stop
  DrainTimeout,      \* of srv.Shutdown
  ShutdownGrace,     \* of the consumer
  Stuck              \* the jobs whose statement may never return

Runners == {"consumer", "outbox", "reference"}

Jobs == Requests \cup Runners

\* The routes that are wrapped in RateLimit, each in one of its own.
Limited ==
  {"POST /wallets", "POST /wagering/transactions",
   "GET /wagering/transactions", "POST /wallets/reconciliation"}

Routes ==
  Limited \cup {"GET /wallets", "GET /wallets/ledger",
                "GET /providers/wagering/transactions", "GET /health/ready"}

ASSUME InstanceAssumptions ==
  /\ Requests \cap Runners = {}
  /\ RouteOf \in [Requests -> Routes]
  /\ {ConcurrencyLimit, PoolSize, StopTimeout} \subseteq Nat \ {0}
  /\ {DrainTimeout, ShutdownGrace} \subseteq Nat
  /\ Stuck \subseteq Jobs

\* All three are 30 seconds (server.go:52, consumer.go, main.go:42).
ASSUME TimeoutAssumptions ==
  /\ DrainTimeout >= StopTimeout
  /\ ShutdownGrace >= StopTimeout

VARIABLES
  phase,      \* of the process
  signalled,  \* SIGTERM has arrived
  up,         \* how many hooks are started and not yet stopped
  entered,    \* the stop of the last of them has begun,
  since,      \*   and when
  clock,
  pool,
  http,
  slots,      \* the semaphore of each limited route
  job,
  loop

stopVars == <<up, entered, since, clock>>
workVars == <<slots, job, loop>>
vars     == <<phase, signalled, stopVars, pool, http, workVars>>

Init ==
  /\ phase = "building"
  /\ signalled = FALSE
  /\ up = 0 /\ entered = FALSE /\ since = 0 /\ clock = 0
  /\ pool = "absent"
  /\ http = "down"
  /\ slots = [l \in Limited |-> 0]
  /\ job = [j \in Jobs |-> "none"]
  /\ loop = [k \in Runners |-> "off"]

Ended == {"clean", "failed", "killed"}

Active(j) == job[j] \in {"waiting", "holding", "over"}

Inside == {r \in Requests : Active(r)}

Served(l) == {r \in Inside : RouteOf[r] = l}

Holding == {j \in Jobs : job[j] = "holding"}

-------------------------------------------------------------------------------
(* Start                                                                   *)

\* Mutant: the pool is built last, so that it is stopped before HTTP.
EagerOrder == <<"auth", "http", "pool", "consumer", "outbox", "reference">>

\* The order in which the constructors and registrations append their hooks:
\* the HTTP handler needs the pool first, then the authenticator.
HookOrder == <<"pool", "auth", "http", "consumer", "outbox", "reference">>

Position(h) == CHOOSE i \in 1..Len(HookOrder) : HookOrder[i] = h

\* fx.New runs the constructors: the pool, the queue and the issuer answer.
Build ==
  /\ phase = "building"
  /\ phase' = "up"
  /\ pool' = "open"
  /\ UNCHANGED <<signalled, stopVars, http, workVars>>

BuildFails ==
  /\ phase = "building"
  /\ phase' = "failed"
  /\ UNCHANGED <<signalled, stopVars, pool, http, workVars>>

StartHook ==
  LET h == HookOrder[up + 1] IN
  /\ phase = "up" /\ up < Len(HookOrder)
  /\ up' = up + 1
  /\ \/ h = "http" /\ http' = "serving" /\ UNCHANGED loop
     \/ h \in Runners /\ loop' = [loop EXCEPT ![h] = "idle"] /\ UNCHANGED http
     \/ h \in {"pool", "auth"} /\ UNCHANGED <<http, loop>>
  /\ UNCHANGED <<phase, signalled, entered, since, clock, pool, slots, job>>

\* The address is taken: fx stops the hooks it has started.
ListenFails ==
  /\ phase = "up" /\ up < Len(HookOrder) /\ HookOrder[up + 1] = "http"
  /\ phase' = "rollback"
  /\ UNCHANGED <<signalled, stopVars, pool, http, workVars>>

Start == Build \/ StartHook

-------------------------------------------------------------------------------
(* Work                                                                    *)

Stopping == phase \in {"stopping", "rollback"}

\* The context of runner k is cancelled when its stop hook begins.
Cancelled(k) ==
  Stopping /\ (up < Position(k) \/ (up = Position(k) /\ entered))

SetJob(j, s) == job' = [job EXCEPT ![j] = s]

SetLoop(k, s) == loop' = [loop EXCEPT ![k] = s]

Alive == phase \notin Ended

\* A step of the work of a process that lives and stays what it is.
Working == Alive /\ UNCHANGED <<phase, signalled, stopVars, pool, http>>

MoveSlots(route, n) ==
  slots' = [l \in Limited |-> IF l = route THEN slots[l] + n ELSE slots[l]]

\* Routes without a limit are never full.
Full(l) == l \in Limited /\ slots[l] = ConcurrencyLimit

\* RateLimit takes a slot of the request's route, or answers 503 at once.
Arrive(r) ==
  /\ http = "serving" /\ job[r] = "none"
  /\ \/ ~Full(RouteOf[r]) /\ SetJob(r, "waiting") /\ MoveSlots(RouteOf[r], 1)
     \/ Full(RouteOf[r]) /\ SetJob(r, "refused") /\ UNCHANGED slots
  /\ UNCHANGED loop /\ Working

\* Mutant: whoever asks gets a connection.
AcquireAny(j) ==
  /\ job[j] = "waiting" /\ pool = "open"
  /\ SetJob(j, "holding")
  /\ UNCHANGED <<slots, loop>> /\ Working

\* InTx and the single statements take one connection; a runner whose context
\* is cancelled gets none.
Acquire(j) ==
  /\ job[j] = "waiting" /\ pool = "open"
  /\ Cardinality(Holding) < PoolSize
  /\ j \in Runners => ~Cancelled(j)
  /\ SetJob(j, "holding")
  /\ UNCHANGED <<slots, loop>> /\ Working

\* Mutant: the statement needs a second connection to end.
ReleaseSecond(j) ==
  /\ job[j] = "holding"
  /\ Cardinality(Holding) < PoolSize
  /\ SetJob(j, "over")
  /\ UNCHANGED <<slots, loop>> /\ Working

\* The transaction commits or rolls back, and its connection goes back.
Release(j) ==
  /\ job[j] = "holding"
  /\ SetJob(j, "over")
  /\ UNCHANGED <<slots, loop>> /\ Working

\* The job ends without the database: its body is refused, its client gone,
\* its context over or the pool closed.
Abort(j) ==
  /\ job[j] = "waiting"
  /\ SetJob(j, "over")
  /\ UNCHANGED <<slots, loop>> /\ Working

\* A lost race is tried again; a job may have several statements.
Again(j) ==
  /\ job[j] = "over"
  /\ SetJob(j, "waiting")
  /\ UNCHANGED <<slots, loop>> /\ Working

Answer(r) ==
  /\ job[r] = "over"
  /\ SetJob(r, "answered")
  /\ MoveSlots(RouteOf[r], -1)
  /\ UNCHANGED loop /\ Working

\* Mutant: the slot is given back after the handler, not by a defer.
PanicKeepingSlot(r) ==
  /\ job[r] = "holding"
  /\ SetJob(r, "answered")
  /\ UNCHANGED <<slots, loop>> /\ Working

\* A panic in the handler: the deferred rollback and semaphore give back what
\* it holds, and Recover answers 503.
Panic(r) ==
  /\ job[r] = "holding"
  /\ SetJob(r, "answered")
  /\ MoveSlots(RouteOf[r], -1)
  /\ UNCHANGED loop /\ Working

\* A pass of the outbox or reference worker, or one message of the consumer,
\* whose submission is a goroutine of its own.
Poll(k) ==
  /\ loop[k] = "idle" /\ ~Cancelled(k)
  /\ SetLoop(k, "busy") /\ SetJob(k, "waiting")
  /\ UNCHANGED slots /\ Working

Collect(k) ==
  /\ loop[k] = "busy" /\ job[k] = "over"
  /\ SetLoop(k, "settling") /\ SetJob(k, "none")
  /\ UNCHANGED slots /\ Working

\* The consumer's grace is over: it leaves its submission alone.
GiveUp ==
  /\ loop["consumer"] = "busy" /\ Cancelled("consumer")
  /\ clock >= since + ShutdownGrace
  /\ SetLoop("consumer", "settling")
  /\ UNCHANGED <<slots, job>> /\ Working

\* The message is deleted or released, the pass ends.
Settle(k) ==
  /\ loop[k] = "settling"
  /\ SetLoop(k, "idle")
  /\ UNCHANGED <<slots, job>> /\ Working

Quit(k) ==
  /\ loop[k] = "idle" /\ Cancelled(k)
  /\ SetLoop(k, "stopped")
  /\ UNCHANGED <<slots, job>> /\ Working

-------------------------------------------------------------------------------
(* The HTTP server and the pool                                            *)

SetHttp(s) == http' = s /\ UNCHANGED <<phase, signalled, stopVars, pool, workVars>>

\* The listener fails: the error is logged, and the process goes on.
ServeFails == http = "serving" /\ SetHttp("died")

\* srv.Shutdown returns when no request is left, or when its time is over.
Drained == http = "draining" /\ Inside = {} /\ SetHttp("stopped")

DrainTimesOut ==
  http = "draining" /\ clock >= since + DrainTimeout /\ SetHttp("stopped")

\* pool.Close waits for the connections that are out.
PoolCloses ==
  /\ pool = "closing" /\ Holding = {}
  /\ pool' = "closed"
  /\ UNCHANGED <<phase, signalled, stopVars, http, workVars>>

-------------------------------------------------------------------------------
(* Stop                                                                    *)

InBudget == clock < StopTimeout

Signal ==
  /\ Alive /\ ~signalled
  /\ signalled' = TRUE
  /\ UNCHANGED <<phase, stopVars, pool, http, workVars>>

\* main looks at the signal when everything is started.
BeginStop ==
  /\ phase = "up" /\ up = Len(HookOrder) /\ signalled
  /\ phase' = "stopping"
  /\ UNCHANGED <<signalled, stopVars, pool, http, workVars>>

\* fx runs the stop hooks backwards, and no other once its context is over.
EnterHook ==
  LET h == HookOrder[up] IN
  /\ Stopping /\ InBudget /\ up > 0 /\ ~entered
  /\ entered' = TRUE /\ since' = clock
  /\ pool' = IF h = "pool" THEN "closing" ELSE pool
  /\ http' = IF h = "http" /\ http = "serving" THEN "draining" ELSE http
  /\ UNCHANGED <<phase, signalled, up, clock, workVars>>

\* Mutant: the hook only cancels.
HookDoneAtOnce(h) == h = "pool" => pool = "closed"

\* What the hook waits for.
HookDone(h) ==
  /\ h = "pool" => pool = "closed"
  /\ h = "http" => http \in {"stopped", "died"}
  /\ h \in Runners => loop[h] = "stopped"

LeaveHook ==
  /\ Stopping /\ InBudget /\ up > 0 /\ entered
  /\ HookDone(HookOrder[up])
  /\ up' = up - 1 /\ entered' = FALSE
  /\ UNCHANGED <<phase, signalled, since, clock, pool, http, workVars>>

\* The exit status: zero only when an asked for stop has run to its end.
Exit ==
  /\ Stopping /\ InBudget /\ up = 0
  /\ phase' = IF phase = "stopping" THEN "clean" ELSE "failed"
  /\ UNCHANGED <<signalled, stopVars, pool, http, workVars>>

\* Mutant: the stop has no deadline.
NoExpiry == FALSE /\ UNCHANGED vars

\* Whatever the process was doing is gone with it.
Vanish(how) ==
  /\ phase' = how
  /\ up' = 0 /\ entered' = FALSE /\ since' = 0 /\ clock' = 0
  /\ pool' = "absent" /\ http' = "down"
  /\ slots' = [l \in Limited |-> 0]
  /\ job' = [j \in Jobs |-> "none"]
  /\ loop' = [k \in Runners |-> "off"]
  /\ UNCHANGED signalled

\* The context of Stop is over: Stop returns its error, and main exits.
Expire == Stopping /\ clock = StopTimeout /\ Vanish("failed")

Tick ==
  /\ Stopping /\ InBudget
  /\ clock' = clock + 1
  /\ UNCHANGED <<phase, signalled, up, entered, since, pool, http, workVars>>

Kill == Alive /\ Vanish("killed")

Stop == BeginStop \/ EnterHook \/ LeaveHook \/ Exit \/ Expire

-------------------------------------------------------------------------------
Next ==
  \/ Build \/ BuildFails \/ StartHook \/ ListenFails
  \/ \E j \in Jobs : Acquire(j) \/ Release(j) \/ Abort(j) \/ Again(j)
  \/ \E r \in Requests : Arrive(r) \/ Answer(r) \/ Panic(r)
  \/ \E k \in Runners : Poll(k) \/ Collect(k) \/ Settle(k) \/ Quit(k)
  \/ GiveUp
  \/ ServeFails \/ Drained \/ DrainTimesOut \/ PoolCloses
  \/ Signal \/ BeginStop \/ EnterHook \/ LeaveHook \/ Exit \/ Expire
  \/ Tick \/ Kill

Spec == Init /\ [][Next]_vars

\* The pool serves its waiters in turn and a handler has finitely many
\* statements (strong fairness); a statement returns, unless its job is a stuck
\* one; main and fx go on; time passes.  The runners need not be fair.
Fairness ==
  /\ \A r \in Requests : SF_vars(Acquire(r)) /\ SF_vars(Answer(r))
  /\ \A j \in Jobs \ Stuck : WF_vars(Release(j))
  /\ WF_vars(Start) /\ WF_vars(Stop) /\ WF_vars(Tick)

FairSpec == Spec /\ Fairness

-------------------------------------------------------------------------------
(* Properties                                                              *)

TypeOK ==
  /\ phase \in {"building", "up", "stopping", "rollback"} \cup Ended
  /\ signalled \in BOOLEAN
  /\ up \in 0..Len(HookOrder)
  /\ entered \in BOOLEAN
  /\ clock \in 0..StopTimeout /\ since \in 0..clock
  /\ pool \in {"absent", "open", "closing", "closed"}
  /\ http \in {"down", "serving", "draining", "stopped", "died"}
  /\ slots \in [Limited -> 0..ConcurrencyLimit]
  /\ job \in [Jobs -> {"none", "waiting", "holding", "over", "answered", "refused"}]
  /\ loop \in [Runners -> {"off", "idle", "busy", "settling", "stopped"}]
  /\ Cardinality(Holding) <= PoolSize

\* PostgreSQL is closed only when every runner has stopped, nothing the
\* consumer gave up is left and no request is being served, whatever timeout
\* fired before; only a server that had died by itself is not waited for
\* (app.go:94-103, 212-228, 265-281; plan.md AC 6 and 8).
ResourcesLast ==
  pool \in {"closing", "closed"} =>
    /\ \A k \in Runners : loop[k] \in {"off", "stopped"} /\ job[k] = "none"
    /\ http \in {"down", "stopped", "died"}
    /\ http # "died" => Inside = {}

\* The slots of a route are exactly its requests that are being served: none
\* is lost to a panic or given back twice (middleware.go:149-162).
SlotsHeld == \A l \in Limited : slots[l] = Cardinality(Served(l))

\* Once asked to, the process ends, though a statement may never return
\* (main.go:42-47, app.go:265-276).
StopEnds == (signalled /\ phase = "up") ~> phase \in Ended

\* A request that got in is answered unless the process ends: the requests and
\* runners that share the pool cannot starve each other (store.go:46-59).
AdmittedAnswered ==
  \A r \in Requests \ Stuck : r \in Inside ~> (r \notin Inside \/ phase \in Ended)

\* plan.md AC 213: one instance serves no more business requests than the limit.
WithinInstanceLimit ==
  Cardinality({r \in Inside : RouteOf[r] \in Limited}) <= ConcurrencyLimit
================================================================================
