------------------------- MODULE ServiceInstanceProofs -------------------------
(***************************************************************************)
(* The order of the stop, for every number of requests, connections and    *)
(* slots and all timeouts that TimeoutAssumptions allows.                  *)
(***************************************************************************)
EXTENDS ServiceInstance, FiniteSetTheorems, TLAPS

\* What the process has: TypeOK without the bound on connections.
Types ==
  /\ phase \in {"building", "up", "stopping", "rollback"} \cup Ended
  /\ up \in 0..6
  /\ entered \in BOOLEAN
  /\ clock \in 0..StopTimeout /\ since \in 0..clock
  /\ pool \in {"absent", "open", "closing", "closed"}
  /\ http \in {"down", "serving", "draining", "stopped", "died"}
  /\ job \in [Jobs -> {"none", "waiting", "holding", "over", "answered", "refused"}]
  /\ loop \in [Runners -> {"off", "idle", "busy", "settling", "stopped"}]

\* What lies behind the hooks that are up does not run.
Past ==
  Alive =>
    /\ \A k \in Runners : up < Position(k) => loop[k] \in {"off", "stopped"}
    /\ up < 3 => http \in {"down", "stopped", "died"}

\* Work is left behind only by a consumer, and only when time is up.
Rest ==
  \A k \in Runners :
    loop[k] # "busy" => job[k] = "none" \/ clock = StopTimeout

\* The same for HTTP.
Quiet ==
  /\ http = "down" => Inside = {}
  /\ http = "stopped" => Inside = {} \/ clock = StopTimeout

NotBefore ==
  /\ phase \in {"building", "up"} => clock = 0
  /\ pool \in {"closing", "closed"} => phase \notin {"building", "up"}

IInv == Types /\ Past /\ Rest /\ Quiet /\ NotBefore /\ ResourcesLast

-------------------------------------------------------------------------------
\* The places of the hooks.
LEMMA HookFacts ==
  /\ Len(HookOrder) = 6
  /\ HookOrder[1] = "pool" /\ HookOrder[2] = "auth" /\ HookOrder[3] = "http"
  /\ HookOrder[4] = "consumer" /\ HookOrder[5] = "outbox"
  /\ HookOrder[6] = "reference"
BY DEF HookOrder

LEMMA Positions ==
  /\ Position("consumer") = 4
  /\ Position("outbox") = 5
  /\ Position("reference") = 6
<1>1. \A h : (\E i \in 1..6 : HookOrder[i] = h) =>
        Position(h) \in 1..6 /\ HookOrder[Position(h)] = h
  BY HookFacts DEF Position
<1>2. \A i \in 1..6 : i \in {1, 2, 3, 4, 5, 6}
  OBVIOUS
<1>3. Position("consumer") = 4
  BY <1>1, <1>2, HookFacts
<1>4. Position("outbox") = 5
  BY <1>1, <1>2, HookFacts
<1>5. Position("reference") = 6
  BY <1>1, <1>2, HookFacts
<1> QED BY <1>3, <1>4, <1>5

-------------------------------------------------------------------------------
\* The parameters are numbers.
LEMMA Numbers ==
  /\ ConcurrencyLimit \in Nat \ {0} /\ PoolSize \in Nat \ {0}
  /\ StopTimeout \in Nat \ {0} /\ DrainTimeout \in Nat /\ ShutdownGrace \in Nat
BY InstanceAssumptions

\* A process that does nothing.
LEMMA Blank ==
  ASSUME job = [j \in Jobs |-> "none"]
  PROVE  Inside = {} /\ \A k \in Runners : job[k] = "none"
BY DEF Inside, Active, Jobs

LEMMA InitHolds == Init => IInv
<1> SUFFICES ASSUME Init PROVE IInv
  OBVIOUS
<1>1. Types
  <2>1. 0 \in 0..6 /\ 0 \in 0..StopTimeout /\ 0 \in 0..0
    BY Numbers
  <2> QED BY <2>1 DEF Init, Types, Ended
<1>2. Past
  BY DEF Init, Past
<1>3. Rest /\ Quiet
  BY Blank DEF Init, Rest, Quiet
<1>4. NotBefore /\ ResourcesLast
  BY DEF Init, NotBefore, ResourcesLast
<1> QED BY <1>1, <1>2, <1>3, <1>4 DEF IInv

\* A job of the living process goes from one state to another.
LEMMA JobMoves ==
  ASSUME IInv, NEW j \in Jobs, Active(j),
         Acquire(j) \/ Release(j) \/ Abort(j) \/ Again(j)
  PROVE  IInv'
<1>1. Working /\ loop' = loop
  BY DEF Acquire, Release, Abort, Again
<1>2. PICK s \in {"waiting", "holding", "over"} : job' = [job EXCEPT ![j] = s]
  BY DEF Acquire, Release, Abort, Again, SetJob
<1>3. Types'
  BY <1>1, <1>2 DEF IInv, Types, Working, stopVars
<1>4. \A i \in Jobs : Active(i)' <=> Active(i)
  BY <1>2 DEF Active, IInv, Types
<1>5. Inside' = Inside
  BY <1>4 DEF Inside, Jobs
<1>6. Past' /\ Quiet' /\ NotBefore'
  BY <1>1, <1>5 DEF IInv, Past, Quiet, NotBefore, Working, stopVars, Alive
<1>7. \A k \in Runners : job[k] = "none" => job'[k] = "none"
  BY <1>2 DEF Active, IInv, Types, Jobs
<1>8. Rest'
  BY <1>1, <1>7 DEF IInv, Rest, Working, stopVars
<1>9. ResourcesLast'
  BY <1>1, <1>5, <1>7 DEF IInv, ResourcesLast, Working
<1> QED BY <1>3, <1>6, <1>8, <1>9 DEF IInv

\* A request enters, or is answered.
LEMMA RequestMoves ==
  ASSUME IInv, NEW r \in Requests, Arrive(r) \/ Answer(r) \/ Panic(r)
  PROVE  IInv'
<1>1. Working /\ loop' = loop
  BY DEF Arrive, Answer, Panic
<1>2. PICK s \in {"waiting", "answered", "refused"} : job' = [job EXCEPT ![r] = s]
  BY DEF Arrive, Answer, Panic, SetJob
<1>3. Types'
  BY <1>1, <1>2 DEF IInv, Types, Working, stopVars
<1>4. http = "serving" \/ Inside' \subseteq Inside
  BY <1>2 DEF Arrive, Answer, Panic, SetJob, Inside, Active, Jobs, IInv, Types
<1>5. Past' /\ Quiet' /\ NotBefore'
  BY <1>1, <1>4 DEF IInv, Past, Quiet, NotBefore, Working, stopVars, Alive
<1>6. \A k \in Runners : job'[k] = job[k]
  BY <1>2, InstanceAssumptions DEF Jobs, IInv, Types
<1>7. Rest'
  BY <1>1, <1>6 DEF IInv, Rest, Working, stopVars
<1>8. ResourcesLast'
  BY <1>1, <1>4, <1>6 DEF IInv, ResourcesLast, Working
<1> QED BY <1>3, <1>5, <1>7, <1>8 DEF IInv

\* A runner's loop goes on; in particular it stays away from a closed pool.
LEMMA RunnerMoves ==
  ASSUME IInv, NEW k \in Runners, Poll(k) \/ Collect(k) \/ Settle(k) \/ Quit(k)
  PROVE  IInv'
<1>1. Working /\ loop[k] \in {"idle", "busy", "settling"}
  BY DEF Poll, Collect, Settle, Quit
<1>2. PICK s \in {"idle", "busy", "settling", "stopped"} : loop' = [loop EXCEPT ![k] = s]
  BY DEF Poll, Collect, Settle, Quit, SetLoop
<1>3. \/ job' = job
      \/ job' = [job EXCEPT ![k] = "waiting"] /\ loop'[k] = "busy"
      \/ job' = [job EXCEPT ![k] = "none"]
  BY DEF Poll, Collect, Settle, Quit, SetLoop, SetJob, IInv, Types
<1>4. Types'
  BY <1>1, <1>2, <1>3 DEF IInv, Types, Working, stopVars, Jobs
<1>5. Inside' = Inside
  BY <1>3, InstanceAssumptions DEF Inside, Active, Jobs, IInv, Types
<1>6. Past'
  BY <1>1, <1>2 DEF IInv, Past, Working, stopVars, Alive, Types
<1>7. Quiet' /\ NotBefore'
  BY <1>1, <1>5 DEF IInv, Quiet, NotBefore, Working, stopVars
<1>8. Rest'
  <2> SUFFICES ASSUME NEW i \in Runners, loop'[i] # "busy"
               PROVE  job'[i] = "none" \/ clock' = StopTimeout
    BY DEF Rest
  <2>1. CASE i = k
    BY <1>1, <2>1, InstanceAssumptions
       DEF Poll, Collect, Settle, Quit, SetLoop, SetJob, IInv, Types, Rest,
           Working, stopVars, Jobs
  <2>2. CASE i # k
    BY <1>1, <1>2, <1>3, <2>2 DEF IInv, Types, Rest, Working, stopVars, Jobs
  <2> QED BY <2>1, <2>2
<1>9. ResourcesLast'
  BY <1>1 DEF IInv, ResourcesLast, Working
<1> QED BY <1>4, <1>6, <1>7, <1>8, <1>9 DEF IInv

\* The consumer can give up only at the very end, by TimeoutAssumptions.
LEMMA GiveUpMoves == IInv /\ GiveUp => IInv'
<1> SUFFICES ASSUME IInv, GiveUp PROVE IInv'
  OBVIOUS
<1>1. Working /\ job' = job /\ loop["consumer"] = "busy"
  BY DEF GiveUp
<1>2. loop' = [loop EXCEPT !["consumer"] = "settling"]
  BY DEF GiveUp, SetLoop
<1>3. clock = StopTimeout
  BY Numbers, TimeoutAssumptions DEF GiveUp, IInv, Types
<1>4. Inside' = Inside
  BY <1>1 DEF Inside, Active
<1>5. Types' /\ Past'
  BY <1>1, <1>2 DEF IInv, Types, Past, Working, stopVars, Alive, Runners
<1>6. Rest' /\ Quiet' /\ NotBefore'
  BY <1>1, <1>3, <1>4 DEF IInv, Rest, Quiet, NotBefore, Working, stopVars
<1>7. ResourcesLast'
  BY <1>1 DEF IInv, ResourcesLast, Working, Runners
<1> QED BY <1>5, <1>6, <1>7 DEF IInv

\* fx and main: the process starts, fails to, or gets a signal.
LEMMA StartMoves ==
  ASSUME IInv, Build \/ BuildFails \/ StartHook \/ ListenFails \/ Signal \/ BeginStop
  PROVE  IInv'
<1>1. job' = job /\ Inside' = Inside /\ UNCHANGED <<entered, since, clock>>
  BY DEF Build, BuildFails, StartHook, ListenFails, Signal, BeginStop, workVars,
         stopVars, Inside, Active
<1>2. \/ Alive /\ pool \notin {"closing", "closed"}
     \/ UNCHANGED <<up, phase, pool, http, loop>>
  BY DEF Build, BuildFails, StartHook, ListenFails, Signal, BeginStop, workVars,
         stopVars, IInv, NotBefore, Alive, Ended
<1>3. CASE Signal
  BY <1>1, <1>3 DEF Signal, workVars, stopVars, IInv, Types, Past, Rest, Quiet,
     NotBefore, ResourcesLast, Alive
<1>4. CASE Build \/ BuildFails \/ ListenFails \/ BeginStop
  <2>1. /\ UNCHANGED <<up, http, loop>> /\ Alive
        /\ phase' \in {"up", "failed", "rollback", "stopping"}
        /\ phase' = "up" => clock = 0
        /\ pool' \in {pool, "open"}
    BY <1>4 DEF Build, BuildFails, ListenFails, BeginStop, workVars, stopVars,
       Alive, Ended, IInv, NotBefore
  <2>2. pool' \notin {"closing", "closed"}
    BY <1>4 DEF Build, BuildFails, ListenFails, BeginStop, IInv, NotBefore
  <2>3. Types' /\ Past' /\ Rest' /\ Quiet'
    BY <1>1, <2>1 DEF IInv, Types, Past, Rest, Quiet, Alive, Ended
  <2>4. NotBefore' /\ ResourcesLast'
    BY <1>1, <2>1, <2>2 DEF NotBefore, ResourcesLast
  <2> QED BY <2>3, <2>4 DEF IInv
<1>5. CASE StartHook
  <2> DEFINE h == HookOrder[up + 1]
  <2>1. /\ phase = "up" /\ up \in 0..5 /\ up' = up + 1
        /\ UNCHANGED <<phase, pool>>
    BY <1>5, HookFacts DEF StartHook, IInv, Types
  <2>2. \/ h = "http" /\ up = 2 /\ http' = "serving" /\ loop' = loop
        \/ /\ h \in Runners /\ up = Position(h) - 1 /\ http' = http
           /\ loop' = [loop EXCEPT ![h] = "idle"]
        \/ up < 2 /\ http' = http /\ loop' = loop
    <3>1. up \in {0, 1, 2, 3, 4, 5}
      BY <2>1
    <3> QED BY <3>1, <1>5, HookFacts, Positions DEF StartHook, Runners
  <2>3. Types'
    BY <1>1, <2>1, <2>2 DEF IInv, Types
  <2>4. Past'
    BY <1>1, <2>1, <2>2, Positions DEF IInv, Types, Past, Alive, Runners
  <2>5. Rest'
    <3> SUFFICES ASSUME NEW k \in Runners, loop'[k] # "busy"
                 PROVE  job[k] = "none" \/ clock = StopTimeout
      BY <1>1 DEF Rest
    <3>1. CASE loop[k] # "busy"
      BY <3>1 DEF IInv, Rest
    <3>2. CASE loop[k] = "busy"
      BY <2>1, <2>2, <3>2, Positions DEF IInv, Types, Past, Alive, Ended, Runners
    <3> QED BY <3>1, <3>2
  <2>6. Quiet' /\ NotBefore' /\ ResourcesLast'
    BY <1>1, <2>1, <2>2 DEF IInv, Quiet, NotBefore, ResourcesLast
  <2> QED BY <2>3, <2>4, <2>5, <2>6 DEF IInv
<1> QED BY <1>3, <1>4, <1>5

\* The server's goroutine and the pool.
LEMMA ServerMoves ==
  ASSUME IInv, ServeFails \/ Drained \/ DrainTimesOut \/ PoolCloses
  PROVE  IInv'
<1>1. UNCHANGED <<phase, up, entered, since, clock, job, loop>> /\ Inside' = Inside
  BY DEF ServeFails, Drained, DrainTimesOut, PoolCloses, SetHttp, workVars,
         stopVars, Inside, Active
<1>2. CASE PoolCloses
  BY <1>1, <1>2 DEF PoolCloses, IInv, Types, Past, Rest, Quiet, NotBefore,
     ResourcesLast, Alive
<1>3. CASE ServeFails \/ Drained \/ DrainTimesOut
  <2>1. /\ pool' = pool /\ http \in {"serving", "draining"}
        /\ \/ http' = "died"
           \/ http' = "stopped" /\ (Inside = {} \/ clock = StopTimeout)
    BY <1>3, Numbers, TimeoutAssumptions
       DEF ServeFails, Drained, DrainTimesOut, SetHttp, IInv, Types
  <2>2. Types' /\ Past' /\ Rest' /\ Quiet' /\ NotBefore'
    BY <1>1, <2>1 DEF IInv, Types, Past, Rest, Quiet, NotBefore, Alive
  <2>3. ResourcesLast'
    BY <1>1, <2>1 DEF IInv, ResourcesLast
  <2> QED BY <2>2, <2>3 DEF IInv
<1> QED BY <1>2, <1>3

\* A stop hook begins: nothing that lies behind it runs, and nothing was left
\* behind, because there is time left.
LEMMA HookBegins == IInv /\ EnterHook => IInv'
<1> SUFFICES ASSUME IInv, EnterHook PROVE IInv'
  OBVIOUS
<1>1. /\ UNCHANGED <<phase, up, clock, job, loop>> /\ Inside' = Inside
      /\ entered' = TRUE /\ since' = clock
      /\ Stopping /\ clock # StopTimeout /\ up \in 1..6
  BY Numbers DEF EnterHook, InBudget, workVars, Inside, Active, IInv, Types
<1>2. \/ pool' = pool
      \/ pool' = "closing" /\ up = 1 /\ http' = http
  <2>1. up \in {1, 2, 3, 4, 5, 6}
    BY <1>1
  <2> QED BY <2>1, HookFacts DEF EnterHook
<1>3. \/ http' = http
      \/ http = "serving" /\ http' = "draining"
  BY DEF EnterHook
<1>4. Types' /\ Past' /\ Rest' /\ Quiet'
  BY <1>1, <1>2, <1>3 DEF IInv, Types, Past, Rest, Quiet, Alive
<1>5. NotBefore'
  BY <1>1, <1>2 DEF IInv, NotBefore, Stopping
<1>6. ResourcesLast'
  <2>1. CASE pool' = pool
    BY <1>1, <1>3, <2>1 DEF IInv, ResourcesLast
  <2>2. CASE up = 1 /\ http' = http
    <3>1. \A k \in Runners : loop[k] \in {"off", "stopped"} /\ job[k] = "none"
      BY <1>1, <2>2, Positions DEF IInv, Past, Rest, Alive, Stopping, Ended, Runners
    <3>2. http \in {"down", "stopped", "died"} /\ (http # "died" => Inside = {})
      BY <1>1, <2>2 DEF IInv, Past, Quiet, Alive, Stopping, Ended
    <3> QED BY <1>1, <2>2, <3>1, <3>2 DEF ResourcesLast
  <2> QED BY <1>2, <2>1, <2>2
<1> QED BY <1>4, <1>5, <1>6 DEF IInv

\* A stop hook ends only when what it stops has.
LEMMA HookEnds == IInv /\ LeaveHook => IInv'
<1> SUFFICES ASSUME IInv, LeaveHook PROVE IInv'
  OBVIOUS
<1>1. /\ UNCHANGED <<phase, since, clock, pool, http, job, loop>> /\ Inside' = Inside
      /\ entered' = FALSE /\ up' = up - 1 /\ up \in 1..6
      /\ HookDone(HookOrder[up])
  BY DEF LeaveHook, workVars, Inside, Active, IInv, Types
<1>2. /\ \A k \in Runners : up = Position(k) => loop[k] = "stopped"
      /\ up = 3 => http \in {"stopped", "died"}
  BY <1>1, HookFacts, Positions DEF HookDone, Runners
<1>3. Types' /\ Rest' /\ Quiet' /\ NotBefore' /\ ResourcesLast'
  <2>1. up' \in 0..6
    BY <1>1
  <2>2. Types' /\ Rest'
    BY <1>1, <2>1 DEF IInv, Types, Rest
  <2>3. Quiet' /\ NotBefore'
    BY <1>1 DEF IInv, Quiet, NotBefore
  <2>4. ResourcesLast'
    BY <1>1 DEF IInv, ResourcesLast
  <2> QED BY <2>2, <2>3, <2>4
<1>4. Past'
  BY <1>1, <1>2, Positions DEF IInv, Types, Past, Alive, Runners
<1> QED BY <1>3, <1>4 DEF IInv

\* The process ends, by itself or killed, and time passes.
LEMMA EndMoves ==
  ASSUME IInv, Exit \/ Expire \/ Kill \/ Tick
  PROVE  IInv'
<1>1. CASE Expire \/ Kill
  <2>1. /\ up' = 0 /\ entered' = FALSE /\ since' = 0 /\ clock' = 0
        /\ pool' = "absent" /\ http' = "down" /\ phase' \in {"failed", "killed"}
        /\ job' = [j \in Jobs |-> "none"] /\ loop' = [k \in Runners |-> "off"]
    BY <1>1 DEF Expire, Kill, Vanish
  <2>2. 0 \in 0..6 /\ 0 \in 0..StopTimeout /\ 0 \in 0..0
    BY Numbers
  <2>3. Types'
    BY <2>1, <2>2 DEF Types, Ended
  <2>4. Inside' = {}
    BY <2>1 DEF Inside, Active, Jobs
  <2>5. Past' /\ Rest' /\ Quiet' /\ NotBefore' /\ ResourcesLast'
    BY <2>1, <2>4 DEF Past, Rest, Quiet, NotBefore, ResourcesLast, Alive, Ended, Jobs
  <2> QED BY <2>3, <2>5 DEF IInv
<1>2. CASE Exit
  <2>1. /\ UNCHANGED <<up, entered, since, clock, pool, http, job, loop>>
        /\ Inside' = Inside /\ phase' \in {"clean", "failed"}
    BY <1>2 DEF Exit, stopVars, workVars, Inside, Active
  <2> QED BY <2>1 DEF IInv, Types, Past, Rest, Quiet, NotBefore, ResourcesLast,
                      Alive, Ended
<1>3. CASE Tick
  <2>1. /\ UNCHANGED <<phase, up, entered, since, pool, http, job, loop>>
        /\ Inside' = Inside /\ clock' = clock + 1 /\ clock < StopTimeout
        /\ phase \in {"stopping", "rollback"}
    BY <1>3 DEF Tick, InBudget, Stopping, workVars, Inside, Active
  <2>2. Types'
    <3>1. clock \in Nat /\ since \in 0..clock
      BY Numbers DEF IInv, Types
    <3>2. clock' \in 0..StopTimeout /\ since' \in 0..clock'
      BY <2>1, <3>1, Numbers
    <3> QED BY <2>1, <3>2 DEF IInv, Types, Ended
  <2>3. clock # StopTimeout
    BY <2>1, Numbers DEF IInv, Types
  <2>4. Past' /\ Quiet' /\ NotBefore' /\ ResourcesLast' /\ Rest'
    BY <2>1, <2>3 DEF IInv, Past, Quiet, NotBefore, ResourcesLast, Alive, Rest
  <2> QED BY <2>2, <2>4 DEF IInv
<1> QED BY <1>1, <1>2, <1>3

LEMMA StepHolds == IInv /\ [Next]_vars => IInv'
<1> SUFFICES ASSUME IInv, [Next]_vars PROVE IInv'
  OBVIOUS
<1>1. ASSUME NEW j \in Jobs, Acquire(j) \/ Release(j) \/ Abort(j) \/ Again(j)
      PROVE  IInv'
  <2>1. Active(j)
    BY <1>1 DEF Acquire, Release, Abort, Again, Active
  <2> QED BY <1>1, <2>1, JobMoves
<1>2. ASSUME NEW r \in Requests, Arrive(r) \/ Answer(r) \/ Panic(r)
      PROVE  IInv'
  BY <1>2, RequestMoves
<1>3. ASSUME NEW k \in Runners, Poll(k) \/ Collect(k) \/ Settle(k) \/ Quit(k)
      PROVE  IInv'
  BY <1>3, RunnerMoves
<1>4. CASE GiveUp
  BY <1>4, GiveUpMoves
<1>5. CASE Build \/ BuildFails \/ StartHook \/ ListenFails \/ Signal \/ BeginStop
  BY <1>5, StartMoves
<1>6. CASE ServeFails \/ Drained \/ DrainTimesOut \/ PoolCloses
  BY <1>6, ServerMoves
<1>7. CASE EnterHook \/ LeaveHook
  BY <1>7, HookBegins, HookEnds
<1>8. CASE Exit \/ Expire \/ Kill \/ Tick
  BY <1>8, EndMoves
<1>9. CASE UNCHANGED vars
  BY <1>9 DEF vars, stopVars, workVars, IInv, Types, Past, Rest, Quiet,
              NotBefore, ResourcesLast, Alive, Inside, Active
<1> QED BY <1>1, <1>2, <1>3, <1>4, <1>5, <1>6, <1>7, <1>8, <1>9 DEF Next

\* Neither a timeout nor a failed start lets the pool close under work that
\* goes on (app.go:94-103, 212-228, 265-281).
THEOREM ResourcesLastHolds == Spec => []ResourcesLast
<1>1. IInv => ResourcesLast
  BY DEF IInv
<1> QED BY <1>1, InitHolds, StepHolds, PTL DEF Spec

-------------------------------------------------------------------------------
(* Slots and connections                                                   *)

\* The slots taken are the requests served, finitely many, and the connections
\* out are within the pool.
Counted ==
  /\ signalled \in BOOLEAN
  /\ slots \in [Limited -> 0..ConcurrencyLimit]
  /\ \A l \in Limited : IsFiniteSet(Served(l)) /\ slots[l] = Cardinality(Served(l))
  /\ IsFiniteSet(Holding) /\ Cardinality(Holding) <= PoolSize

\* A step that serves nobody else and lets nobody else have a connection.
LEMMA SameCounts ==
  ASSUME Counted, slots' = slots, signalled' \in BOOLEAN,
         \A l \in Limited : Served(l)' = Served(l), Holding' = Holding
  PROVE  Counted'
BY DEF Counted

\* No work at all.
LEMMA NoWork ==
  ASSUME slots = [l \in Limited |-> 0], job = [j \in Jobs |-> "none"],
         signalled \in BOOLEAN
  PROVE  Counted
<1>1. \A l \in Limited : Served(l) = {}
  BY Blank DEF Served
<1>2. Holding = {}
  BY DEF Holding
<1> QED BY <1>1, <1>2, FS_EmptySet, Numbers DEF Counted

LEMMA CountedInit == Init => Counted
BY NoWork DEF Init

\* A connection is given back, if it was out.
LEMMA GivesBack ==
  ASSUME Counted, NEW j, Holding' = Holding \ {j}
  PROVE  IsFiniteSet(Holding') /\ Cardinality(Holding') <= PoolSize
<1>1. IsFiniteSet(Holding') /\ Cardinality(Holding') <= Cardinality(Holding)
  BY FS_RemoveElement, FS_CardinalityType DEF Counted
<1>2. Cardinality(Holding) \in Nat /\ Cardinality(Holding') \in Nat
  BY <1>1, FS_CardinalityType DEF Counted
<1> QED BY <1>1, <1>2, Numbers DEF Counted

LEMMA JobCounts ==
  ASSUME IInv, Counted, NEW j \in Jobs, Active(j),
         Acquire(j) \/ Release(j) \/ Abort(j) \/ Again(j)
  PROVE  Counted'
<1>1. slots' = slots /\ signalled' = signalled
  BY DEF Acquire, Release, Abort, Again, Working
<1>2. PICK s \in {"waiting", "holding", "over"} : job' = [job EXCEPT ![j] = s]
  BY DEF Acquire, Release, Abort, Again, SetJob
<1>3. \A l \in Limited : Served(l)' = Served(l)
  BY <1>2 DEF Served, Inside, Active, IInv, Types, Jobs
<1>4. IsFiniteSet(Holding') /\ Cardinality(Holding') <= PoolSize
  <2>1. CASE Acquire(j)
    <3>1. Holding' = Holding \cup {j} /\ Cardinality(Holding) < PoolSize
      BY <2>1 DEF Acquire, SetJob, Holding, IInv, Types
    <3>2. /\ IsFiniteSet(Holding')
          /\ Cardinality(Holding') \in {Cardinality(Holding), Cardinality(Holding) + 1}
      BY <3>1, FS_AddElement DEF Counted
    <3>3. Cardinality(Holding) \in Nat
      BY FS_CardinalityType DEF Counted
    <3> QED BY <3>1, <3>2, <3>3, Numbers
  <2>2. CASE Release(j) \/ Abort(j) \/ Again(j)
    <3>1. Holding' = Holding \ {j}
      BY <2>2 DEF Release, Abort, Again, SetJob, Holding, IInv, Types
    <3> QED BY <3>1, GivesBack
  <2> QED BY <2>1, <2>2
<1> QED BY <1>1, <1>3, <1>4 DEF Counted

LEMMA RunnerCounts ==
  ASSUME IInv, Counted, NEW k \in Runners,
         Poll(k) \/ Collect(k) \/ Settle(k) \/ Quit(k)
  PROVE  Counted'
<1>1. slots' = slots /\ signalled' = signalled
  BY DEF Poll, Collect, Settle, Quit, Working
<1>2. \/ job' = job
      \/ \E s \in {"waiting", "none"} : job' = [job EXCEPT ![k] = s]
  BY DEF Poll, Collect, Settle, Quit, SetJob
<1>3. \A l \in Limited : Served(l)' = Served(l)
  BY <1>2, InstanceAssumptions DEF Served, Inside, Active, IInv, Types, Jobs
<1>4. Holding' = Holding \/ Holding' = Holding \ {k}
  BY <1>2 DEF Holding, IInv, Types, Jobs
<1> QED BY <1>1, <1>3, <1>4, GivesBack DEF Counted

\* A request takes a free slot of its route.
LEMMA ArriveCounts ==
  ASSUME IInv, Counted, NEW r \in Requests, Arrive(r)
  PROVE  Counted'
<1>1. signalled' = signalled /\ job[r] = "none"
  BY DEF Arrive, Working
<1>2. PICK s \in {"waiting", "refused"} : job' = [job EXCEPT ![r] = s]
  BY DEF Arrive, SetJob
<1>3. Holding' = Holding
  BY <1>1, <1>2 DEF Holding, IInv, Types, Jobs
<1>4. CASE slots' = slots /\ s = "refused"
  <2>1. \A l \in Limited : Served(l)' = Served(l)
    BY <1>1, <1>2, <1>4 DEF Served, Inside, Active, IInv, Types, Jobs
  <2> QED BY <1>1, <1>3, <1>4, <2>1, SameCounts DEF Counted
<1>5. CASE ~Full(RouteOf[r]) /\ MoveSlots(RouteOf[r], 1) /\ s = "waiting"
  <2>1. ASSUME NEW l \in Limited
        PROVE  /\ IsFiniteSet(Served(l)')
               /\ slots'[l] = Cardinality(Served(l)')
               /\ slots'[l] \in 0..ConcurrencyLimit
    <3>1. slots[l] \in 0..ConcurrencyLimit /\ ConcurrencyLimit \in Nat
      BY Numbers DEF Counted
    <3>2. CASE l = RouteOf[r]
      <4>1. Served(l)' = Served(l) \cup {r} /\ r \notin Served(l)
        BY <1>1, <1>2, <1>5, <3>2 DEF Served, Inside, Active, IInv, Types, Jobs
      <4>2. slots'[l] = slots[l] + 1 /\ slots[l] # ConcurrencyLimit
        BY <1>5, <3>2 DEF MoveSlots, Full
      <4>3. /\ IsFiniteSet(Served(l)')
            /\ Cardinality(Served(l)') = Cardinality(Served(l)) + 1
        BY <4>1, FS_AddElement DEF Counted
      <4> QED BY <3>1, <4>2, <4>3 DEF Counted
    <3>3. CASE l # RouteOf[r]
      <4>1. Served(l)' = Served(l) /\ slots'[l] = slots[l]
        BY <1>2, <1>5, <3>3 DEF MoveSlots, Served, Inside, Active, IInv, Types, Jobs
      <4> QED BY <3>1, <4>1 DEF Counted
    <3> QED BY <3>2, <3>3
  <2>2. slots' \in [Limited -> 0..ConcurrencyLimit]
    BY <1>5, <2>1 DEF MoveSlots
  <2> QED BY <1>1, <1>3, <2>1, <2>2 DEF Counted
<1>6. \/ s = "refused" /\ slots' = slots
      \/ s = "waiting" /\ ~Full(RouteOf[r]) /\ MoveSlots(RouteOf[r], 1)
  <2>1. job'[r] = s
    BY <1>2 DEF IInv, Types, Jobs
  <2>2. \/ ~Full(RouteOf[r]) /\ MoveSlots(RouteOf[r], 1) /\ job'[r] = "waiting"
        \/ slots' = slots /\ job'[r] = "refused"
    BY DEF Arrive, SetJob, IInv, Types, Jobs
  <2> QED BY <2>1, <2>2
<1> QED BY <1>4, <1>5, <1>6

\* A request that is answered, or panics, gives back its slot.
LEMMA AnswerCounts ==
  ASSUME IInv, Counted, NEW r \in Requests, Answer(r) \/ Panic(r)
  PROVE  Counted'
<1>1. /\ signalled' = signalled /\ Active(r)
      /\ job' = [job EXCEPT ![r] = "answered"]
      /\ MoveSlots(RouteOf[r], -1)
  BY DEF Answer, Panic, Working, SetJob, Active
<1>2. Holding' = Holding \ {r}
  BY <1>1 DEF Holding, IInv, Types, Jobs
<1>3. ASSUME NEW l \in Limited
      PROVE  /\ IsFiniteSet(Served(l)')
             /\ slots'[l] = Cardinality(Served(l)')
             /\ slots'[l] \in 0..ConcurrencyLimit
  <2>1. slots[l] \in 0..ConcurrencyLimit /\ ConcurrencyLimit \in Nat
    BY Numbers DEF Counted
  <2>2. CASE l = RouteOf[r]
    <3>1. Served(l)' = Served(l) \ {r} /\ r \in Served(l)
      BY <1>1, <2>2 DEF Served, Inside, Active, IInv, Types, Jobs
    <3>2. slots'[l] = slots[l] - 1
      BY <1>1, <2>2, <2>1 DEF MoveSlots
    <3>3. /\ IsFiniteSet(Served(l)')
          /\ Cardinality(Served(l)') = Cardinality(Served(l)) - 1
      BY <3>1, FS_RemoveElement DEF Counted
    <3>4. Cardinality(Served(l)') \in Nat
      BY <3>3, FS_CardinalityType
    <3> QED BY <2>1, <3>2, <3>3, <3>4 DEF Counted
  <2>3. CASE l # RouteOf[r]
    <3>1. Served(l)' = Served(l) /\ slots'[l] = slots[l]
      BY <1>1, <2>3 DEF MoveSlots, Served, Inside, Active, IInv, Types, Jobs
    <3> QED BY <2>1, <3>1 DEF Counted
  <2> QED BY <2>2, <2>3
<1>4. slots' \in [Limited -> 0..ConcurrencyLimit]
  BY <1>1, <1>3 DEF MoveSlots
<1> QED BY <1>1, <1>2, <1>3, <1>4, GivesBack DEF Counted

\* Everything else leaves requests and connections alone, or ends the process.
LEMMA OtherCounts ==
  ASSUME Counted, UNCHANGED <<slots, job>>, signalled' \in BOOLEAN
  PROVE  Counted'
<1>1. (\A l \in Limited : Served(l)' = Served(l)) /\ Holding' = Holding
  BY DEF Served, Inside, Active, Holding
<1> QED BY <1>1, SameCounts

LEMMA CountedStep == IInv /\ Counted /\ [Next]_vars => Counted'
<1> SUFFICES ASSUME IInv, Counted, [Next]_vars PROVE Counted'
  OBVIOUS
<1>1. ASSUME NEW j \in Jobs, Acquire(j) \/ Release(j) \/ Abort(j) \/ Again(j)
      PROVE  Counted'
  <2>1. Active(j)
    BY <1>1 DEF Acquire, Release, Abort, Again, Active
  <2> QED BY <1>1, <2>1, JobCounts
<1>2. ASSUME NEW r \in Requests, Arrive(r) \/ Answer(r) \/ Panic(r)
      PROVE  Counted'
  BY <1>2, ArriveCounts, AnswerCounts
<1>3. ASSUME NEW k \in Runners, Poll(k) \/ Collect(k) \/ Settle(k) \/ Quit(k)
      PROVE  Counted'
  BY <1>3, RunnerCounts
<1>4. CASE \/ GiveUp \/ ServeFails \/ Drained \/ DrainTimesOut \/ PoolCloses
           \/ UNCHANGED vars
  <2>1. UNCHANGED <<slots, job, signalled>>
    BY <1>4 DEF GiveUp, Working, ServeFails, Drained, DrainTimesOut, PoolCloses,
       SetHttp, workVars, vars
  <2> QED BY <2>1, OtherCounts DEF Counted
<1>5. CASE Build \/ BuildFails \/ StartHook \/ ListenFails \/ Signal \/ BeginStop
  <2>1. UNCHANGED <<slots, job>> /\ signalled' \in {signalled, TRUE}
    BY <1>5 DEF Build, BuildFails, StartHook, ListenFails, Signal, BeginStop, workVars
  <2> QED BY <2>1, OtherCounts DEF Counted
<1>6. CASE EnterHook \/ LeaveHook \/ Exit \/ Tick
  <2>1. UNCHANGED <<slots, job, signalled>>
    BY <1>6 DEF EnterHook, LeaveHook, Exit, Tick, workVars
  <2> QED BY <2>1, OtherCounts DEF Counted
<1>7. CASE Expire \/ Kill
  <2>1. /\ slots' = [l \in Limited |-> 0] /\ job' = [j \in Jobs |-> "none"]
        /\ signalled' = signalled
    BY <1>7 DEF Expire, Kill, Vanish
  <2>2. \A l \in Limited : Served(l)' = {}
    BY <2>1 DEF Served, Inside, Active, Jobs
  <2>3. Holding' = {}
    BY <2>1 DEF Holding
  <2>4. slots' \in [Limited -> 0..ConcurrencyLimit]
    BY <2>1, Numbers
  <2>5. \A l \in Limited : slots'[l] = 0
    BY <2>1
  <2>6. \A l \in Limited :
          IsFiniteSet(Served(l)') /\ slots'[l] = Cardinality(Served(l)')
    BY <2>2, <2>5, FS_EmptySet
  <2>7. IsFiniteSet(Holding') /\ Cardinality(Holding') <= PoolSize
    BY <2>3, FS_EmptySet, Numbers
  <2> QED BY <2>1, <2>4, <2>6, <2>7 DEF Counted
<1> QED BY <1>1, <1>2, <1>3, <1>4, <1>5, <1>6, <1>7 DEF Next

LEMMA CountedHolds == Spec => [](IInv /\ Counted)
BY InitHolds, StepHolds, CountedInit, CountedStep, PTL DEF Spec

\* The semaphore of a route counts the requests it serves: no panic, shutdown
\* or answer loses a slot or gives one back twice (middleware.go:149-162).
THEOREM SlotsHeldHolds == Spec => []SlotsHeld
<1>1. Counted => SlotsHeld
  BY DEF Counted, SlotsHeld
<1> QED BY <1>1, CountedHolds, PTL

\* The process is well typed; in particular no route serves more requests than
\* its limit and no more connections are out than the pool has.
THEOREM TypesHold == Spec => []TypeOK
<1>1. IInv /\ Counted => TypeOK
  BY HookFacts DEF IInv, Types, Counted, TypeOK
<1> QED BY <1>1, CountedHolds, PTL

================================================================================
