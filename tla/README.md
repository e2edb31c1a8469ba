# Distributed wager processing: models and proofs

This directory holds TLA+ models of the wager service in this repository (`cmd/service`,
`internal/`), the TLC configurations that check them and the proofs TLAPS checks about them.
Everything is translated from the Go and SQL sources; the documents under `.specs/`,
`ARCHITECTURE.md` and `STATE.md` are used only where a run compares them with the code.

## The system

Providers submit bets, wins, losses, refunds and rollbacks, over HTTP or through the FIFO queue
`wager-transactions.fifo`. Several instances share one PostgreSQL database. An accepted command
becomes a `wager_transactions` row and, if it moves money, changes one wallet under its row lock
and appends to the wallet's ledger. A command that refers to a transaction that is not there yet
waits (`PENDING_REFERENCE`) and is resolved later by a background worker, or expires. Everything that
happens is told as events, which go through an outbox table to `wager-events.fifo`.

| part | state it keeps | operations | talks to |
| --- | --- | --- | --- |
| domain (`internal/domain`) | transaction state, wallet balance and version, ledger entry | credit, debit, transitions, money arithmetic | called by the use cases |
| resolution (`application/resolve.go`, `projection.go`) | none | classify, digest | called by the use cases |
| submit use cases (`application/service.go`) | none of their own: one database transaction per call | OpenWallet, SubmitWagerTransaction, SubmitWagerFromInbox, ResolvePendingReference | store |
| store (`adapters/postgres`, `migrations`) | wallets, wager_transactions, wallet_ledger_entries, reversal_claims, inbox_deliveries, outbox_events | insert, lock, update, claim, lookup | PostgreSQL |
| queue consumer (`adapters/sqs/consumer`) | received batch, renewal, cancelled context | poll, process, renew, delete, release, back off | queue, SubmitWagerFromInbox |
| reference worker (`adapters/worker`) | claimed batch; leases and schedule are columns | claim, resolve, reschedule | store, ResolvePendingReference |
| outbox publisher (`adapters/outbox`) | claimed batch; leases and attempts are columns | claim, publish, confirm, reschedule | store, event queue |
| HTTP (`adapters/http`) | admission semaphores | decode, authenticate, map errors | use cases |
| assembly (`adapters/app`) | which runners are up | start, ordered stop | all of them |
| queries (`pagination.go`, `reconciliation.go`) | none | ledger page, reconcile | store |

What is hard here, and what must hold:

* **Submissions race.** The same command may arrive twice at the same moment, over both ways in, and
  pass both identity lookups before either row exists. One identity must get one transaction,
  both callers a true answer, and lost races must be retried without deadlock.
* **Wallets are read, then written.** `SaveBalance` is a plain `UPDATE`; only the row lock
  prevents a lost movement. The ledger must stay a chain that ends in the balance.
* **References arrive late and out of order**, live on other wallets whose locks the use case does not hold,
  and may be compensated only once although several reversals run at once.
* **Everything may be repeated**: broker redelivery, client retry, two workers with one transaction,
  a publisher whose lease ran out. Outcomes are written once and never change.
* **Instances crash and stop** between commit and delete, between publish and confirm, in the middle
  of a batch. Nothing may be lost; duplicates must be bounded to what a crash or timeout forces.
* **Something must go on**: waiting transactions end, events are published, healthy messages are
  handled, unhandleable ones leave the queue.

`PROJECT.json` lists each hazard at its line with the properties that cover it.

## Modules

| module | models |
| --- | --- |
| `Resolution` | the decision rules: validity of a command, its digest, what an accepted transaction does given the one it refers to |
| `WagerLedger` | the tables, and the abstract specification: each accepted command, replay and resolution is one atomic step |
| `WagerService` | the use cases statement by statement over READ COMMITTED transactions with row, unique-index and foreign-key locks; refines `WagerLedger` |
| `WagerServiceMC` | instances: scenarios of commands for TLC |
| `WagerLedgerProofs` | proofs about `WagerLedger` |
| `WagerServiceProofs` | the proof that `WagerService` implements `WagerLedger`, and of what callers are told |
| `EventDelivery` | abstract promise of the outbox: an event is stored, accepted by the queue, then published |
| `OutboxRelay` | publishers, claims with lease and claim number, backoff, FIFO deduplication; refines `EventDelivery` |
| `OutboxRelayMC`, `OutboxRelayProofs` | its instances and proofs |
| `ReferenceSchedule`, `ReferenceScheduleProofs` | reference workers: which waiting transaction is resolved when; leases without a claim number, batches, backoff, deadline |
| `LedgerHistory`, `LedgerHistoryProofs` | one wallet read while it moves: ledger pages by cursor, reconciliation, instants written by instances whose clocks may differ |
| `IngressConsumer`, `IngressConsumerMC`, `IngressConsumerProofs` | the queue consumers with the broker, redrive, renewal, shutdown and crashes |
| `Recursion` | what the proofs use about induction and recursive functions, from well-foundedness of the naturals |
| `ServiceInstance`, `ServiceInstanceMC`, `ServiceInstanceProofs` | one process: construction, start and stop hooks, HTTP admission, the runners and the connection pool they share with the requests |

### WagerLedger and WagerService

A *request* is one call of a submit use case; since each attempt makes a fresh transaction id
and persists at most one row, the request also names its row. `state`, `code`, `observed`,
`refTxn` are columns of `wager_transactions`; `owner`, `balance`, `version` those of `wallets`;
`ledger`, `claims`, `events`, `inbox` the other tables. A row that has not been committed is
`ABSENT`; there is no `PENDING` state between transactions because `InsertRow` and the outcome
commit together. `late` is the set of transactions whose 24 hour deadline has passed, and `corrupt`
the rows that no longer rehydrate (damage from outside the service).

In `WagerService` a process (request or worker) has a program counter, one step per statement that
can block or whose place in the order matters:

| step | code |
| --- | --- |
| `Start`, `BeginDelivery` | `SubmitWagerTransaction`, `SubmitWagerFromInbox` up to `Inbox.Begin` |
| `LookupKey`, `LookupExternal` | the two identity lookups of `submitWithinTx` |
| `LockWallet`, `InsertRow` | `Wallets.LockByID`, `Transactions.Insert` |
| `Resolve`, `CommitSubmit` | `loadReference` and `planOperation`; `executePlan` and the commit |
| `Pick`, `LockRow`, `LockWalletOfRow`, `CommitResolve` | `ClaimDueReferences` and `ResolvePendingReference` |
| `ConcurrentWrite` | a lost unique-index race, serialization failure or deadlock abort, with the retry of `service.go:184-202` |
| `Fail`, `BreakDeadlock` | a failing statement, cancelled call or crash; PostgreSQL's deadlock detector |

Writes take effect at the commit step: under READ COMMITTED other transactions see nothing before,
and what they would wait for is in `Blockers` (wallet lock, row lock, an uncommitted index entry,
an uncommitted inbox row, the foreign key to a locked wallet). `LedgerSpec` as a property of `WagerService`
says that all of this has the same effect as atomic steps. The one deliberate gap in the abstract
specification is in `Permitted`: a reference that lives on another wallet is not covered by the lock,
so the service may treat it as missing although it has just been committed.

### OutboxRelay

Times are relative to now (`wait`, `lease`, `age`), so that states that differ only by the
date are one. A publisher's pass is `Claim` (`ClaimDueEvents`), then per record `Publish` and
`Confirm`, or `Reschedule` on a failed send, `GiveUp` on a database error, cancelled pass or
crash. `attempts`, incremented by the claim and compared by confirm and reschedule, is the fencing token. `Take` is
the event queue with its five minute deduplication window. Records are sent in any order because
`UPDATE ... RETURNING` promises none.

### ReferenceSchedule

`state` and the schedule columns of `wager_transactions` (`wait`, `lease`, `attempts`, `remaining` for
`nextAttemptAt`, `claimedUntil`, `referenceAttempts` and `referenceDeadline`, again relative to now) with workers that go
`Claim` (`ClaimDueReferences`), then per transaction `Lock` (`LockByID`) and `Resolve` (the rest of
`ResolvePendingReference`). What a resolution does to the books is `WagerService`; here it ends the
transaction or reschedules it, depending on whether its reference has come to a result (`found`) or
its deadline is over. Unlike the outbox, neither the resolution nor the reschedule compares a claim: the row lock and
the state read under it have to do. `Claim` commits the leases before the rows are scanned, so that one row
that does not rehydrate (`corrupt`) loses the whole batch.

### LedgerHistory

`wallet` and `ledger` are the rows of one wallet, the ledger in commit order; `pc`, `stamp` and `view` the call each
instance makes: `Open`, `CommitOpen` (`OpenWallet`, which reads the clock before its transaction), `Lock`, `CommitMove` (the
submit use cases, which read it under the wallet lock). `ReadBalance` and `ReadEntries` are the two statements of
`ReconcileRead`, `FirstPage` and `NextPage` a client that follows `LedgerPage`'s cursor. The clock of instance `i` shows
`now + skew[i]`. An entry's id only matters between entries of one instant, which come from different instances; their order is
then arbitrary. `Ordered` is the order of both queries. `Report` adds the entries up in it as `ReconcileWallet` does: each sum must fit an
int64 (`Fits`; `MaxMoney` is its maximum, and -`MaxMoney` - 1 its minimum), otherwise there is no report.

### IngressConsumer

`place`, `inFlight` and `receives` are the broker; `done` the committed deliveries; `pc`, `todo`,
`outcome`, `renewing`, `stopping` each consumer. The use case is taken for what `WagerService`
shows: a delivery commits once, a later one is a duplicate. There is no clock: a message's visibility
may lapse whenever no renewal holds it, and such a lapse while a consumer still has the message
counts as a fault, as failed calls, stops and crashes do.

### ServiceInstance

`phase` is how far `main` has come; `up` counts the hooks that are started, in the order in which fx appends
them (`HookOrder`: the HTTP handler needs the pool, then the authenticator, and the runners are registered
after it). fx stops them backwards under one context: `EnterHook` and `LeaveHook` are the beginning and the return of a stop
hook, both only while `clock < StopTimeout`, and `Expire` is the context of `Stop` running out, whatever hook is waiting.
`ListenFails` starts the same walk backwards with the hooks started so far; its budget, in the code the start timeout of
the same 30 s, is taken to be `StopTimeout` too. `job` is what a request's handler or a runner's current work is doing with the pool;
`slots` the semaphores `RateLimit` makes, one per route in `Limited`; `http` and `pool` the server and the pool;
`loop` the runners' `Run`. The consumer is the one runner that can leave its work behind (`GiveUp`, after its own grace).

What a job does to the books is the business of the other modules. Here a statement takes a connection (`Acquire`),
gives it back (`Release`), and may be followed by another one (`Again`), so that a job never has two. Jobs in `Stuck`
have a statement that may never return.

## Runs

| run | question | bounds |
| --- | --- | --- |
| `WagerServiceSafety` | do the books stay right in every interleaving, and is every execution one of the atomic specification; does the inbox ever remember a message without its result; do reversals take back what their reference moved; do rejections stay justified; are answers true; are outcomes and events written once | 3 requests from eight scenarios of commands, two of which may share a message id or a corrupt reference; 2 wallets, 2 workers for waiting chains and 1 otherwise, money 0..5, two tries, any call may fail |
| `WagerServiceLiveness` | does every call return and every waiting transaction end | three lines of commands, 1 worker, two tries |
| `WagerServiceOverflow` | *violation*: a waiting credit that does not fit never expires | one line |
| `OutboxRelay` | are claims exclusive, stale ones inert, is each duplicate paid for by a fault; refinement; is every committed event published | 3 events in two commits, 2 publishers, batch 2, lease 2, backoff 1..2, up to 3 faults, events and faults together 4 (`MaxWork`) |
| `OutboxRelayOrder` | *violation*: events of one wallet overtake each other | 3 events of 1 wallet, 2 faults |
| `ReferenceSchedule` | do workers stay apart but for as many as there were faults, are retries spread as the backoff has it but for as many, does every waiting transaction end | 2 transactions, 2 workers, batch 2, lease 2, backoff 1..2 and half of it as jitter, deadline 5, 2 faults or damaged rows |
| `ReferenceScheduleDamaged` | *violation*: the neighbours of a damaged row never expire | the same with deadline 2, where the one fault is the damage |
| `LedgerHistory` | is a walk through the ledger complete, is it the history unless clocks disorder it, how far do a row's instants go back, do reconciliations agree | 2 instances with clocks up to 2 apart, 3 entries, page size 1, balances up to 2 |
| `IngressConsumer` | is only durable work deleted, are healthy messages handled and the others dead-lettered | 3 messages, 2 wallets, 2 consumers, batch 2, 3 receives, 2 faults |
| `IngressConsumerStop` | *violation*: a stop leaves part of the batch in flight | 2 messages |
| `ServiceInstance` | are resources closed last whatever fails, are slots exact, does an asked for stop end, are admitted requests answered | 2 requests on one route with one slot, 3 runners, 2 connections, timeouts 2, a consumer statement that may never return |
| `ServiceInstanceLimit` | *violation*: an instance serves more business requests than its limit | 2 requests on two routes, limit 1 |

Why these bounds are enough to meet the interesting cases: two requests race for one identity or
one wallet while the third is the reference or the dependent of one of them; money 0..5
with bets of 2 reaches insufficient funds, the exact balance and overflow, and a win that is spent before its rollback; two publishers or
workers are what a lease and a fence distinguish; with one fault a lease lapses in the hands of
its publisher while the other takes the row, with a second one the row changes hands again, and with three failed sends the backoff of the outbox reaches its cap.
`MaxWork` trades events for faults: three events with one fault, two with two, one with three. In `ReferenceSchedule` the deadline of 5 leaves room for three attempts, so that
the backoff reaches its cap. `MaxTries` is 2 instead of three, and 1 where no run asks about retries: a call may lose, start over and lose for the last time; the retry loop has no state but its counter.
In `ServiceInstance` one slot is the smallest full route, two connections are fewer than the five jobs, and a stuck
consumer takes one of them; a timeout of 2 leaves room for a hook to begin late, after time has passed in an earlier one.
In `IngressConsumer` the number of faults is below `MaxReceive`, which is what `ValidHandled`
promises something about; beyond it, dead-lettering a healthy message is the redrive policy's design.

`CHECK_DEADLOCK FALSE` is used where the system comes to rest: all calls answered and nothing
waiting (`WagerService`), all messages deleted or dead-lettered (`IngressConsumer`), the process ended (`ServiceInstance`). In `OutboxRelay` and
`ReferenceSchedule` time always goes on, `LedgerHistory` can always be read: there deadlock is checked.

### Fairness

* `WagerService`: strong fairness for the steps of a started call, because row locks are queues and serve
  waiters; strong fairness for picking each waiting transaction, because an unleased due row stays first in
  `ORDER BY nextAttemptAt`; weak fairness for time and for deadlock detection. Starting a call and
  opening a wallet are not fair: nobody has to.
* `OutboxRelay`: weak fairness for the steps of a pass, for polling and for time (`Run` polls on a ticker).
* `ReferenceSchedule`: weak fairness for polling, resolving and time; strong fairness for taking a row lock,
  for which PostgreSQL queues waiters. Acceptance, the arrival of a reference and faults are not fair.
* `IngressConsumer`: weak fairness for polling, processing, restart of a stopped instance, the
  lapse of visibility and redrive. Faults are never fair.
* `ServiceInstance`: strong fairness for a request's `Acquire` and `Answer`, because the pool serves its waiters in turn and
  a handler has finitely many statements; weak fairness for `Release` of jobs that are not in `Stuck`, for the steps of
  `main` and fx, and for time. The runners need not be fair for what is shown, and nobody has to send a request or a signal.

## Disagreements between code and documents

`PROJECT.json` "findings" quotes the lines. In short: a waiting WIN that would overflow its wallet is
never expired; events of one wallet are not always sent in order; one damaged waiting row keeps the rows of its batch from
ever expiring; a stopping consumer does not release the part of its
batch it has not reached; the limit of business requests is one per route, and three routes have none.

Two more disagreements are seen in the models but are stated by no run. A first, synchronous submission whose reference row does not
rehydrate ends `FAILED` (`service.go:435`; in `WagerService` a `CommitSubmit` with `corrupt` rows), although
`plan.md:54` and `ARCHITECTURE.md:35` reserve that state to asynchronous work. And AC 7 of `plan.md`, the release of unfinished queue work after 30
seconds, cannot happen before the process ends: the consumer's grace is as long as the whole stop timeout, and
its hook begins when the two workers have stopped, so that `Expire` is never later than `GiveUp`. The same equality
makes AC 8 hold: with a shorter grace `ResourcesLast` fails, because the consumer would leave a submission behind that
still has a connection. `TimeoutAssumptions` says so, and the proof uses it.

`LedgerHistory` marks a limit rather than a disagreement, for instances whose clocks differ. `Chronological` says how far the instants of a wallet row may go back then: by no
more than two clocks are apart. A wallet that one instance has opened and another, whose clock is behind, moves at once gets an
`updatedAt` before its `createdAt`; `RehydrateWallet` (`wallet.go:67`) refuses that row from then on, in every use case, and no
constraint of the table prevents it. In the same way a client may see a later entry before an earlier one, or pass the place where
an entry appears afterwards; `WalkIsHistory` says that nothing but a pair of entries that clocks have put in the wrong order (`Disordered`) makes
pages differ from the history. And a reconciliation that reads credits before the debits that made room for them adds up to more than an int64 holds
and fails (`reconciliation.go:78`), although the wallet is in order; `MaxMoney` is so small in the run that it happens there.
If the clocks agree none of this happens. `WalkComplete`, and that a report never shows a difference, do not depend on the clocks.

## Proofs

The proofs hold for every value of the constants that satisfies the modules' named assumptions.

**WagerLedger.** `LedgerTypes` is inductive as it stands (the interesting conjunct is
`balance \in 0..MaxMoney`, from the guards `Insufficient` and `Overflows`). `IdentityHolds`,
`InboxHolds`, `EventsHold` need types only. `ChainHolds` proves `LedgerChain` together with
`Grounded`, which says that a wallet that does not exist has an empty ledger and balance zero: without it
opening a wallet could start a second chain. `LedgerMatchesHolds` strengthens the property with
`NoneTwice` and `Posted`: entries belong to committed transactions and none has two, so
that a movement of an absent or waiting transaction is the first. `CompensatedOnceHolds` adds that
claims and processed reversals correspond (`RestsOn`, `Compensates`, `Alone`), so that the claim
lookup rules a second one out. `ReversalsUndoHolds` has to know which way the entry went that a reversal goes against: its invariant
`Undoing` says it of every entry by the kind of its transaction and of the reference (`Directed`, `Turns`), and `Posted` that this entry is there.
`RejectionsTrueHolds` needs that a claim is never without the processed reversal that took it (`Held`), and that the other grounds of a rejection
only build on what is final (`GroundsLast`). `TerminalHolds` is an action property; it follows from the guards
on `state` of the actions that write a row.

**WagerService.** `ServiceImplementsLedger` proves `Spec => LedgerSpec`: each commit is an `Accept`, `AcceptReplay` or
`ResolveWaiting` of the tables as they are when it happens, every other step leaves them. Its invariant `ServiceInv` states what each
process relies on between two statements. A request's row is not there yet, no committed row has its identity once the insert
succeeded, and its message has no inbox row (`RequestSound`); a worker's row still waits once it is locked (`WorkerSound`); two requests never hold the same
message or conflicting rows (`AllApart`, from the waits of `Blockers`); the view under the wallet lock is current (`ViewOf`). The delicate conjunct is
`Fits`: the decision taken at `Resolve` is still `Permitted` at the commit, although other transactions commit in between. `PermittedLasts` proves it: references on
the locked wallet keep their state and claims, because whoever writes them holds that lock, and a reference on another wallet is at fault whatever its state
(`ElsewhereAtFault`), or missing when it was looked up. A step of one process is then shown to leave the others what they rely on
(`Effect`, `Frame`, `OthersKept`), so that each action is proved for its own process only. The theorems about the tables
carry over (`ServiceKeepsTables`, `ServiceKeepsTerminal`); `AnswersHoldAlways` and `ConflictsAlwaysReal` follow from a case split on how a step
answers a call (`Answered`) and from `Frozen` rows.

**OutboxRelay.** The inductive invariant is `RelayTypes /\ OneHolder /\ InHand /\ Backed`: what a publisher
holds was claimed with a number that is still at most the row's `attempts` (`InHand`), and
an event a publisher is about to confirm has been accepted (`Backed`). From it follow `OneHolderHolds`, `LeaseFenceHolds` and
`DeliveryHolds`, the refinement of `EventDelivery`.

`SentOncePerFault` proves `DuplicatesCostFaults`, without the queue's deduplication window, by counting claims. Each copy of an event was sent under a claim of its own that nobody will send
under again (`Spent`), so there are no more copies than claims (`Claimed`); and every claim but the last came to its end with a fault: a lease lapsed in use, a call failed or an instance stopped.
The last one is free as long as it goes well (`GoesWell`: the event is published, or its lease runs and its publisher has it and does not put it off), hence `attempts <= 1 + faults` (`Paid`).
A lease that would lapse in use is a fault by definition of `Tick`.

`TypesHold` completes the type invariant with the times that `RelayTypes` leaves out (`MoreTypes`); it needs `BackoffBounded`, that the delay (which has no jitter in the outbox) is
positive and at most the longer of base and cap, after any number of claims.

**ReferenceSchedule.** `OneOwnerHolds` shows that of the workers that have a transaction one has the lease, and there is a fault for each of the others. A row has no claim number that would tell
whose its lease is; the inductive invariant counts instead (`Stale`, `Paid`): of those that have a row all but one, or all if the row is not leased, are stale, and no step adds more stale ones than faults (`StalePaid`).
A claim takes rows without a lease only, a resolution that clears a lease also takes its own worker out (`OneAtATime`: the row a worker has locked is no longer in its batch), and
a lease that would lapse in a worker's hands is a fault by definition of `Tick`.

`NoRetryStormHolds` counts time: a waiting transaction that has had n attempts more than faults has lived at least `TimeOf(n)`, the sum of the delays before each of its attempts. The invariant `Spread` is sharper: a stale owner's
fault has not had its attempt yet, so that only the faults beyond those of stale owners are deducted (`Regular`); and if
the next attempt is already scheduled, the transaction will have lived long enough for that one by then (`NextOnTime`). A claim keeps that because the rows it takes are due and
leased ones stay due until they are resolved (`LeasedDue`); a reschedule because the delay it sets is at least that of the attempt it has just counted.
`DelaysBounded` says of that delay, jitter included, that it is never below the base, never above the cap and the jitter on it, and from some attempt on any value from the cap to that (`backoff_test.go:24`); `BackoffBounded` is the lemma about the delay before jitter. `TypesHold` comes
from it and the same invariant `PaceInv`.

**ServiceInstance.** `ResourcesLastHolds` has to rule out that a timeout lets a hook return early. Its invariant `IInv` orders
the process by hook: the runner or server of a hook that is not yet started or already stopped is off or stopped (`Past`); a runner leaves
work behind, and a server requests, only when all time is up (`Rest`, `Quiet`, from `TimeoutAssumptions`), when no hook can return any more and
`Expire` is all that is left; and the pool is not closed before a stop begins (`NotBefore`). `SlotsHeldHolds` counts: an admission adds one request to a route's set and one to its semaphore, an answer or a panic removes both.
`TypesHold` needs that count, since a semaphore is not negative because a request that leaves is one of those counted.

**LedgerHistory.** `ChronologicalHolds` rests on three facts about the row lock and the clocks: the call that holds the lock has the row as it
is (`OneLocked`), what was read from a clock is not in the future (`ReadBefore`), and the times at which clocks showed the row's instants are in order: creation, last change, what
the holder of the lock has read (`InOrder`, with `TimeOf` for the time at which an instance's clock shows an instant). The instants themselves differ from these times by the clocks' skew, which is all they may go back by.

`ReconcilesHolds` has three parts. `CalculatedAppend` says of a ledger of any length that one more entry adds its signed amount to the sum `ReconcileWallet`
computes; so the balance is the sum in every committed state (`Balanced`), because a movement starts from the row it has locked, and in every snapshot (`Audited`).
`CalculatedAnyOrder` says that the sum does not depend on the order in which the query returns the entries; so what is reported is never a difference. And the sums on the way are the
balances that there were (`Summed`), which fit; if the clocks agree the query returns the entries in that order (`OrderedSum`), so that there is a report.
`WalkCompleteHolds` needs that the rows of a page are ordered at all: entries of one instance never share an instant, because the instance's clock is past the
entries it has committed and each call reads it anew (`Stamped`, `OwnOrder`), so that `Before` compares any two of them and `ORDER BY` has one result (`OrderedLists`, `OneList`). The invariant
of a walk, `WalkOrder`, is that what it has seen is sorted up to its cursor, and that each entry it knew of is among that or still after the cursor. Entries
that a slow clock puts before the cursor are new ones, which the walk did not know of. `WalkIsHistoryHolds` uses that the entries follow each other in the times at which the clocks showed their instants (`TrueOrder`):
if no two are `Disordered` the ledger itself is sorted (`UndisturbedOrder`), as it is if the clocks agree (`AgreedOrder`), what a page
reads is the rest of it, and what has been seen is its beginning (`WalkPrefix`).

**IngressConsumer.** `DeletedIsDurableHolds` needs that an outcome is called durable only after the commit (`Committed`) and
that a consumer with an outcome still has the message at the head of its batch (`AtWork`). `ReceivesCostFaultsHolds` is an
accounting: every receive of a healthy message but the one that somebody is working on has been paid for with a
fault (`Paid`), a consumer that is told to stop has had a fault after all its receives (`Owed`), and an outcome
that is not durable has a reason that is a fault, a stop or the message itself (`Reasons`). `TypesHold` follows from the
same invariant; since it is proved for every instance, the run `IngressConsumer` does not check `TypeOK` again.

**Recursion.** `Backoff` and `TimeOf` are recursive functions, and `Calculated` is a fold: what they compute is known only once such a function is shown to exist.
The library's induction theorems take an operator as a parameter and cannot be used here, but the well-foundedness of the naturals is a statement about sets.
`LeastElement`, `Induction` and `RecursionExists` come from it, and with them `BackoffBounded` (in both modules that have a backoff), `TimeOfEquations`, the existence of the fold
(`FoldExists`) and of the list that `ORDER BY` makes of a finite set (`ListExists`). `Ordered` in `LedgerHistory` is written as the sorted sequence of a set, rather than as the library's `SortSeq`, so that this
can be said of it.

Assumptions of these proofs that are about the model rather than the code: `None` and `NoTxn` are not rows, entries or transactions, and a ledger may have at least one entry.

Only model-checked: all liveness properties, because fairness and ENABLED are outside the prover's reach. These are `CallsEnd`, `WaitingEnds` (of `WagerService` and of
`ReferenceSchedule`), `AllPublished`, `ValidHandled`, `OthersDeadLettered`, `StopEnds` and `AdmittedAnswered`. Every safety invariant and action property of a passing run is proved.

## Not modelled

Parsing and formatting (amounts, envelopes, HTTP bodies), authentication, configuration, metrics, logs and the
migration command, the reads of single rows: they keep no state that other parts read. Clocks that differ are only in `LedgerHistory`: in `WagerService` a deadline is an
event, elsewhere all instances read one clock. In `ServiceInstance` requests keep no deadline of their own, and a start that runs out of time is not
distinguished from one that fails.

## Plan

1. Done: `Resolution`, `WagerLedger`, `WagerService` with proofs of the ledger and of the refinement; `EventDelivery`,
   `OutboxRelay`, `ReferenceSchedule`, `LedgerHistory`, `IngressConsumer` and `ServiceInstance` with proofs of their safety.
2. Done: proofs of every safety invariant, action property and refinement that a run checks, including those over recursive functions, folds and sorted pages.
3. What is left to TLC is liveness. A further step would model the HTTP interface's limits and headers and the validation of envelopes in more detail.
