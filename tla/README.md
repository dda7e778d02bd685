# Verification of the job scheduler

TLA+ specifications of the scheduler in this repository (Go package
`jobistemer`), the TLC configurations that check them on small instances, and
TLAPS proofs of their safety properties for instances of any size.

- [The system](#the-system): its parts, their state, what is hard about them
- [Modules](#modules): which module models what, and how
- [Runs](#runs): what is checked, on which bounds, under which fairness
- [Disagreements](#disagreements): what the documents say and the code does not do
- [Proofs](#proofs): what holds for all values of the constants
- [Limits](#limits): what is only model-checked, and what is not modelled
- [Plan](#plan)

## The system

A process (a *node*) registers jobs with a scheduler. A job has a ticker that
announces its scheduled times, a list of tasks, and policies. For each announced
time the node tries to create a *job occurrence* in a store that it shares with
other nodes; whoever creates the record executes the tasks and records the
result. On start a node first recovers the times that were missed while no node
was up.

| part | source | state | operations |
|---|---|---|---|
| scheduler | `scheduler/scheduler.go` | registered jobs, running flag, context, wait group of the watchers | RegisterJob, Start, watchJob, handleJobTrigger, performRecovery, Shutdown, UpdateJob |
| tickers | `ticker/{cron,iso8601,once}.go` | running, paused, run count, three channels, one loop goroutine | Start, Stop, Pause, Resume, the loop, GetOccurrencesBetween |
| worker pool | `concurrency/pool.go` | started flag, task channel, stop channel, workers | Start, Submit, Stop, the worker |
| executor | `executor/executor.go` | the occurrence in memory, task reports, contexts | ExecuteJobOccurrence, sequential and parallel groups, retries, attempts |
| recovery | `recovery/recovery.go` | none of its own | ApplyStrategy and four strategies, scheduleRecoveryRun |
| reaper | `recovery/reaper.go` | its goroutine | list stale records, overwrite them |
| storage | `storage/badger/badger.go` | records of jobs, tasks, occurrences, task runs, attempts | one transaction per operation; create fails if the record exists |
| update manager | `update/update.go` | none of its own | ApplyUpdate with three policies, DiffSchedules |
| identifiers | `id/id.go` | none | an ID is a hash of what it identifies |
| job model | `job.go`, `types.go` | job, task, configuration | AddTask, GetEffectiveConfig, IsRunning |
| metrics, examples | `metrics/`, `examples/` | counters | nothing else depends on them |

**Interactions.** The ticker's loop sends on a channel of capacity 10 without
blocking. One watcher per job receives, checks the overlap policy against the
store, creates the record, and hands a closure to the pool's `Submit`, which
blocks while the queue is full. A worker runs the closure: the executor writes
Running, runs the tasks, and writes the final status. Recovery does the same as a
watcher on the goroutine that called `Start`, before the pool is started, so the
pool executes its closures on that very goroutine. The reaper of any node
overwrites records that have been Running for too long. `Shutdown` stops the
tickers, cancels the context, waits for the watchers or a timeout, and stops the
pool and the reaper.

**What is hard.** Nodes race for the same record, and a crash can come between
any two writes. The overlap check, the reaper and the ticker's loop read in one
step and act in another. The pool's `Submit` looks at a flag under a lock and then
uses channels that `Stop` may have closed. Timeouts compete with the normal end:
`Shutdown`'s with the watchers, `ExecutionTimeout` and `TaskTimeout` with the
tasks and their retries. An update changes the stored definition of a job one
transaction after another, then the copy in memory and the ticker, while watchers,
`Start` and `Shutdown` go on. The complete list, with lines, is in `PROJECT.json` under
`hazards`.

**What makes it correct.** The tasks of an occurrence start at most once,
wherever; a record tells the truth about its run and is never taken back; what was
claimed is eventually run unless something failed or was stopped; the pool runs
what it accepted once, unless it is stopped first; a task's report agrees with its attempts and with the
records; a ticker announces every due time once, in order, and obeys its controls;
store and memory agree on a job whenever they agree on its version;
`Start`, `Stop` and `Shutdown` return, and nothing runs after them.

## Modules

```
PoolContract  <- implemented by -  WorkerPool  <- MCWorkerPool
                                   WorkerPool  <- WorkerPoolProofs
OccurrenceLedger <- implemented by - Scheduler <- MCScheduler
                                   Scheduler   <- SchedulerProofs <- SchedulerLifeProofs
                                                  SchedulerProofs <- SchedulerRefinement
                                   Executor    <- MCExecutor
                                   Executor    <- ExecutorProofs
                                   Ticker      <- TickerProofs
                                   JobUpdate   <- MCJobUpdate
                                   JobUpdate   <- JobUpdateProofs <- JobRecordProofs
```

`PROJECT.json`, under `map`, gives the source lines of every definition. An
operator commented "mutant of X" is a plausible bug of X; no specification uses
it, and substituting it for X must violate the property `PROJECT.json` pairs it
with.

### WorkerPool and PoolContract (`concurrency/pool.go`)

State: the fields of the pool, the contents of the task channel, where each worker
is, where the `Submit` call of each task is, and where a `Stop` call that holds the
lock is. `Submit` is two steps, the look at `started` under the lock and the
`select`, because the lock is released between them; `Stop` is three, the close of
the stop channel, the close of the task channel and the end of the wait, with the
lock held throughout. A select with several ready cases may take any of them. A
send on a closed channel, or a second close, ends the process (`panicked`).

`PoolContract` says the same without locks, channels or goroutines: a task is
offered, accepted or refused, started at most once, never more than `maxWorkers`
at a time, and surely started unless somebody closes the pool. That exception is
what the code provides; a test of the repository asks for more, and
`StopCompletesAccepted` (run `pool_v_stop`) shows that it does not get it.

### Scheduler and OccurrenceLedger (`scheduler`, `recovery`, `executor`, `storage`)

The life of an occurrence from the tick to the final record, on several nodes
with one store. Each node has the goroutine that calls `Start` and runs recovery,
one watcher and one ticker per job, the workers and the reaper. State: the
occurrence records (status, owner, start time) and job records; per node its
process (`life`), registered jobs, what recovery and reaper still have to do, the
pool's queue, the tickers' channels and positions, and where each goroutine is.

A store operation is one step, because it is one badger transaction; everything
the code does in two transactions is two steps: overlap check (`Trigger`) and
create (`CreateWins`, `CreateLoses`), the reaper's list (`ReapList`) and its
writes (`ReapWrite`), the executor's first write (`ExecStart`) and its last
(`ExecFinish`). `Crash` ends a process anywhere, with all its memory; `Fault` makes
a store operation fail. The task functions are between `ExecStart` and
`ExecFinish`; `Executor` refines that interval. The two close calls of
`pool.Stop` are one step here, since `WorkerPool` has them apart. What is in the
channel when the pool is stopped stays there. `Shutdown` signals the reaper and
does not wait for it: a reaper that has listed records may write them afterwards.

The clock counts schedule instants, and every job is due at each of them. A cron
ticker waits for the first instant after its start; a job in `CatchUp` has an
ISO 8601 ticker, which delivers its instants from the first one on, the past ones
at once. A tick that finds its channel full, or that `Trigger` turns down under
Skip, is lost; the history variable `dropped` keeps those of the process. `Active`
and `Paused` are the jobs with these flags: recovery looks at the first, the
watchers (`Watched`) at both. Recovery fails if the listing of a job takes more than
`ListLimit` rounds (`TooMany`), and `Start` with it.
An occurrence's identifier is the pair of job and time it is computed from.

`OccurrenceLedger` is what the nodes together promise: every occurrence is claimed
at most once, run at most once and only under its claim; what is lost stays lost.
The mapping `stage` reads it off records and goroutines.

### Executor (`executor/executor.go`, `job.go`)

One occurrence, from the Running write to the final one, in either mode. State:
the configuration; the errors of the three nested contexts (occurrence, group,
attempt); for each task where it is, its attempts and its final status; the
report; and the stored records of occurrence, task runs and attempts. Deadlines
pass at any moment (`TaskTimeout`, `ExecutionTimeout`), as does a shutdown; an
error of the store is ignored exactly where the code ignores it. Task functions
return nil or an error whenever they like. Durations, backoff included, are only
"some time"; hooks and metrics do not change this state and are left out.

### Ticker (`ticker/*.go`)

The loop of each of the three tickers and the four calls. State: the flags, the
buffers of both channels, the run count, and each loop goroutine with the instant
its timer waits for. What the loop takes from `pauseCh` it stores in a later step,
as in the code. `Start` may be called again after `Stop`, which gives a second
loop. The schedule is `First`, `First + Interval`, ...; cron looks for the first
instant after the clock, ISO 8601 counts its runs, once has one instant. The
three `GetOccurrencesBetween`, which find the same instants without the loop's
state, are operators next to it.

### JobUpdate (`update/update.go`, `UpdateJob` of the scheduler)

One job, its records in the store and its copy in the scheduler. State: the
version and the task records (with the revision that wrote them) on one side, the
copy's version and tasks on the other; for each caller of `ApplyUpdate` how far it
is and what its lists still hold; the life of the node as far as the tickers go;
the tickers the job has had with their channels; the watcher with the channel its
select waits on; the occurrence records and which of them a worker has.

Every store operation is a step and may fail: `ReadJob` (the two version checks),
`WriteJob`, `CreateTask`, `GetTask` followed by `DeleteTask` or `UpdateTask`.
The schedule is updated in separate steps as well: `ApplySchedule` reads the
clock, `ListOccurrences` reads the Pending records and picks those that the policy
cancels by that clock (graceful, finding none to come, lists again), and
`CancelOccurrence` writes them one by one, whatever they are by then. `UpdateCopy`
is the rest of `UpdateJob` under `jobsMu`. *Tools* are callers of the exported
`ApplyUpdate` other than the scheduler. `Start` is split where it releases
`jobsMu`, `Shutdown` where it has stopped the tickers: both set `running` only as
their last step. `Foreign` are task IDs that another job uses as well, because
`GetTask` searches the keys of all jobs. `overlap` and `swaps` are history
variables for the conditions of the properties.

## Runs

Every run of this table passes. Deadlock is not checked where the system may come
to rest (nobody has to call anything, and clock and crashes are bounded);
`Executor` is checked for deadlock, with a step for the state in which it has
returned.

| run | instance | checks |
|---|---|---|
| `pool` | 4 tasks, 1 worker (queue of 2), 2 starts | no task runs twice; an accepted task is queued exactly until a worker enters it; `Stop` leaves no worker; a panic needs a Submit racing with Stop or a second Start; `Submit` and `Stop` return; `PoolContract` is implemented, its promise to start accepted tasks while nobody closes the pool included |
| `sched_race` | 2 nodes, 1 cron job, 1 time, 2 processes per node | at most one run, one holder, nothing is orphaned without a failure, `OccurrenceLedger` is implemented |
| `sched_live` | 1 node, 1 job with an ISO 8601 ticker and policy Skip, 2 times, a channel of 1, 2 processes, 1 store fault, bounded window | no instant falls between recovery and ticker, except those that a full channel or Skip has cost; records are never revived, only stale ones are reaped; after a Shutdown without timeout no watcher, worker or recovery is at work and what is queued was never started, Submit panics only after a timeout; claimed occurrences start, stale records are reaped, Start and Shutdown return |
| `exec` | 2 tasks, at most 2 attempts, 1 fault, both modes, 16 configurations | report, attempts, records, cancellations and final status agree; every occurrence ends |
| `ticker` | all three kinds, 3 instants, window of 2, 2 starts, 3 other calls | ticks in order, every counted run sent or dropped exactly once, loop and `GetOccurrencesBetween` agree, a loop while running, the last accepted call wins, a loop that runs when Stop is called returns |
| `update` | the scheduler and one tool, 2 tasks, 1 ID shared with another job, 3 updates, 3 versions, 3 tickers, 1 time, 1 store fault | equal versions mean equal tasks, no update is passed over, an update cancels nothing that was due before it read the clock, the right ticker runs |

**Why the bounds are enough.** Four tasks and one worker fill the queue and block
a Submit while another is in a task; two starts give the restart on closed
channels; more workers are covered by the proofs. Two nodes and one time are a
race for one record; a cron job due at time 1 is listed by the recovery of a node
that starts then and announced by the ticker of a node that is already up, so
recovery competes with recovery and with a watcher; two processes per node give a
crash and a recovery after it. With one time nothing is ever stale in `sched_race`: the reaper acts in
`sched_live`, where the clock passes `StaleAfter`, so live and dead runs both become
stale. Two times and a channel of 1 make the replay of an ISO 8601 ticker overflow
there, and an instant that is due while recovery works is left to the ticker. No run
has a paused or inactive job or a schedule beyond `ListLimit`; the proofs have
both. The queue of the scheduler's pool does not
fill in these instances: that case is in `pool`, and in the proofs about
`Scheduler`. Two tasks, one retry and one
fault reach every pair of "one task fails while the other is ..."; the
configurations inherit and override each strategy and the retries. A ticker
channel of capacity 1 makes ticks drop; three calls are enough for Pause, Resume
and Stop in any order, or a Stop on either side of a restart. The three updates of
`update` add, remove and change tasks of one another and of the other job, with
and without a new ticker; three versions and two callers give two updates in a row
and two at once, with a third ticker for the second; one time is a tick before,
between or after them. `MaxTime`, `MaxBoots`, `MaxFaults`, `MaxStarts`,
`MaxTries`, `MaxCalls`, `MaxVersion` and `MaxTickers` bound what the code
leaves unbounded; the theorems under [Proofs](#proofs) hold for all their
values, so what the small instances could hide of the properties that pass concerns
liveness only. Reapers racing with another node, for instance, are in the proofs
and in no run. Symmetry (nodes, workers) is used in `sched_race` only, which has no
liveness property.

**Fairness.** Goroutines that can take a step do (weak fairness of each
goroutine), since the Go runtime schedules them, and a store transaction ends. The
functions handed to the pool return; of task functions `Executor` assumes only that
they return once their context has ended, which the executor cannot enforce. The
timers of timeouts and of the reaper fire. In `Ticker` a select does not overlook
for ever a case that is ready again and again (strong fairness of the stop and
pause cases): Go chooses among ready cases at random. Nobody is obliged to boot,
register, start, submit, pause, stop or crash anything. `update` checks no
liveness; `update_v_ticker` assumes weak fairness of the calls under way, the watcher,
the executions and the passing of time, so its counterexample is no mere stop.

## Disagreements

Each of these runs finds a behaviour of the code that contradicts a sentence of
the repository; `findings` in `PROJECT.json` quotes the sentence and its line.

| run | what the code does |
|---|---|
| `sched_v_reaper` | the reaper overwrites Completed with Failed_Stale, from a list it read before |
| `sched_v_skip` | under Skip two occurrences of a job overlap: one that is Pending in the queue does not count as running |
| `sched_v_pending` | an occurrence that was Pending when its process died is never run: recovery takes the record for a run |
| `pool_v_stop` | Stop returns with accepted tasks in the channel, although a test says they have been completed |
| `exec_v_parallel` | a parallel fail-fast job with a failed task is recorded Completed |
| `update_v_ticker` | after an update with a new ticker the job is never triggered again: its watcher waits on the channel of the stopped ticker |

Other surprises of the code are part of the models and show up as the conditions
of the properties that pass:

- `PanicNeedsRaceOrRestart`: a Submit that races with `Stop` sends on a closed
  channel, and a pool does not survive a restart. A pool that is closed does not run
  what waits in its queue; hence `Undisturbed` in `NoOrphans` and `PendingStarts`, and
  the queue in `ShutdownQuiesces`: a Shutdown that did not time out ("All jobs
  completed gracefully", `scheduler.go:348`) leaves claimed occurrences Pending, since
  it waits for the watchers only. The reaper, to which `README.md:747` of the
  repository leaves them, looks at Running records.
- `Watched` and `BeginStart`: the watchers pass over paused jobs and recovery does not
  (`scheduler.go:287`), so `Start` runs the missed occurrences of a paused job, against
  `README.md:47`.
- `NoGap` is about ISO 8601 tickers: with a cron ticker a time that becomes due
  between recovery and the start of the ticker is lost. `dropped` in it: the replay
  of an ISO 8601 ticker overflows its channel when the watcher is slow.
- `TooMany`: a listing counts an ISO 8601 schedule from its first instant on, so once
  a job is more than 10000 intervals old no scheduler that has it can start.
- `RegisterJob` needs the job's record to be absent, so a restarted process cannot
  register its job. The model has `DeleteJob`, an operation of the store, and the
  runs with two processes use it.
- `ExecStart` erases the owner of the record, since the executor's copy of the
  occurrence does not have it. Under Queue, `Skips` is false and nothing waits.
- `FailFastStops` is about the job's own strategy: in a sequential job a task's
  override does nothing; in a parallel one `CancelHasCause` allows the cancellation
  of a task whose own strategy is Continue.
- `stopped` in `RunningHasLoop` and `Restarted` in the other properties of the
  ticker: `Stop` closes a channel that no `Start` makes again, so after Stop and Start
  a cron or ISO 8601 ticker claims to run and loses its loop, against `README.md:70-72`,
  and a once ticker may tick twice. `LastCallWins` is about cron tickers, since the
  paused loop of an ISO 8601 ticker takes the message the wrong way round
  (`iso8601.go:92`): Resume leaves it paused, against `README.md:76`. `accepted` in it:
  a Resume that finds the last message still in `pauseCh` is ignored. An ISO 8601 ticker whose first instant lies before its
  window never ticks, since only ticks are counted.
- `overlap` in `StoreDescribesMemory` and `AcceptedIsCurrent`: the version is read
  in one transaction and written in another, so of two updates at once both are
  accepted, and the slower one can even take the version back.
- `StoreDescribesMemory` needs equal versions: an update that fails half way has
  already raised the stored one, so the scheduler refuses every later update, the
  rerun included. It leaves out `Foreign` tasks: removing one may delete the
  record of another job.
- `UpdatesSpareWhatIsDue`: records of occurrences to come do not exist, so the
  policies find only what became due since the clock was read. That is canceled even
  if a worker has begun it (`README.md:809`: "if they have not run yet"); what the old
  schedule had Pending before runs all the same, under each policy.
- `TickerFollowsLife`: an update between the end of Start's loop and
  `running = true` leaves the new ticker unstarted, and one during `Shutdown`
  starts a ticker that nobody stops.
- The stored configurations of job and tasks are empty after an update
  (`serializeConfig`), so `JobUpdate` does not have them.

## Proofs

Every safety invariant and action property that a passing run checks is also a
theorem, `Spec => []P` or `Spec => [][A]_vars`, for every value of the constants.
The assumptions are the ones stated where the constants are declared: finitely many
workers and at least one, disjoint names of goroutines, natural numbers for the
bounds, known policies. The bounds may be as large as one likes. Two theorems are
about refinement. One has a further hypothesis on the constants, given below:
`LoopTicksTheListing`. The inductive invariants were
checked by TLC on the instances of the runs before they were proved.

### WorkerPoolProofs

`TypeCorrect`, `TasksRunAtMostOnce`, `AcceptedTasksStayQueued`, `StopIsClean`,
`PanicHasACause`, `ContractIsKept`.

The inductive invariant is `TypeOK /\ PoolInv`. `Placed` ties the place of a task to
the number of times it was entered: a queued task is accepted and has not run, an
accepted task that has not run is queued, and the queue holds no task twice;
without the last part a task could be taken twice. `Counted` ties the number of
starts to the state of the channels, which is what a panic without race or restart
would contradict.

`ContractIsKept` is the safety part of `ImplementsContract`. The limit of
`PoolContract` on the tasks that run at once is about numbers, and the pool counts
nothing: the proof needs `Holding` (a worker holds a task exactly while it is busy,
and no two hold the same one), so the running tasks are an image of the busy
workers, and one worker in its select makes them fewer than all (`RoomForOne`).

### SchedulerProofs

`TypeCorrect`, `TasksStartAtMostOnce`, `ClaimsAreExclusive`,
`RecordsAreNeverRevived`.

The inductive invariant is `TypeOK /\ HasOcc /\ ClaimInv`. `AtMostOnce` alone is not
inductive: that a second run cannot begin needs that a claim has one holder
(`OneHolder`) and that a claim not yet started is Pending in the store
(`HeldIsPending`); that in turn needs that the store remembers runs
(`StoreRemembers`: a record is past Pending exactly if its tasks were started, and
reaper and executors only hold records of started occurrences). Most actions are
`Quiet`: they make no claim, start no run, drop claims at most and write final
records only of occurrences that ran; one lemma shows that quiet steps preserve the
invariant, so only the create, the hand-over to queue and worker, and the start of
the tasks need a proof of their own.

### SchedulerRefinement

`LedgerIsImplemented`. A quiet step only ends claims and runs (`QuietEnds`), since
the invariant rules out that it brings one about; the same few actions as before
remain, and each is one step of the ledger or none.

### SchedulerLifeProofs

`ShutdownLeavesNoRun`, `PanicOnlyAfterTimeout`, `ReaperSparesTheFresh`,
`NothingIsOrphaned`, `NothingFallsThrough`.

- `LifeInv` says for each stage of a node's life which of its goroutines are off
  and that the queue is empty until the pool is started: only the goroutine of Start
  schedules while the pool is down, only the watchers do afterwards, and Shutdown
  waits first for the watchers, then for the workers. `ShutdownQuiesces` speaks of the
  end of that chain only; that what is left in the queue was never started comes from
  `ClaimInv`. It says nothing of the reaper, which Shutdown does not wait for. The two stages after a timeout are the only ones in which the pool
  is closed and a watcher may be left, hence `PanicNeedsTimeout`.
- `ReapInv` says of what a reaper has *listed* what `OnlyStaleReaped` says of what
  it has written: it was stale, and start times do not change afterwards.
- `NoOrphans` is preserved by each action, given `ClaimInv` and `LifeInv`: an
  action that takes an occurrence from one goroutine gives it to another, to the
  queue or a final record, or is one of the failures `Undisturbed` names.
- `NothingFallsThrough` has no hypothesis on the capacity of the channel or on the
  policy: `NoGap` follows each instant from the ticker through the channel to the
  watcher and the record, and a step that loses one puts it into `dropped`. It needs
  that a ticker runs only once Start has finished (`TickNode`), and so begins where
  FirstInstant says.

### ExecutorProofs

`TypeCorrect`, `RetriesAreDisciplined`, `CancellationHasACause`, `FailFastIsFinal`,
`CompletedIsSuccess`, `AuditTrailIsTrue`, `ReportsAreComplete`.

The properties are about the end of an occurrence, so the inductive invariant says
what holds on the way: `RetryInv` how many attempts a task has had at each place of
`executeTask`; `AuditInv` which records it then has; `ReportInv` that the reports
are those of the tasks that handed one in, each once, and that no context ends
without a cause; `Settled` that tasks are at work only between the two writes of
the occurrence; `LoopInv` that in a sequential job the reports are a prefix of the
order, all that comes after the task at work is untouched, and all but the last
report let the loop go on; `OutcomeInv` what the returned error then says.
`FailFastStops` and `CompletedMeansSuccess` both come from `LoopInv`. That no task
has too many attempts is part of `TypeOK` and not inductive; it comes from
`RetryInv`.

### JobUpdateProofs

`UpdatesSpare`, `TickersAreStartedAndStopped`. The inductive invariant is
`Shape /\ Room /\ NotAhead /\ TickerInv`. `NotAhead` says that no record, buffered
tick or trigger is ahead of the clock, and that what a call has still to cancel lies
after the clock that call has read (`Later`). A policy finds only what has come since
(`OnlyLater`), and what is written is what was found (`CanceledIsLater`). `TickerInv` adds to
`TickerFollowsLife` what holds in the lives before the ones it speaks of (starting,
draining) and that a watcher exists only for an enabled job; `Room` is the bound on
tickers carried from the check of an update to its end. The steps of `ApplyUpdate`
are all `CallStep`s, which change calls and records only, and one lemma serves them.

### JobRecordProofs

`TypeCorrect`, `VersionsVouchForTasks`, `AcceptedUpdatesAreCurrent`. To the
invariant of `JobUpdateProofs` come `Versions` (the version a call has read, and
that nothing exists before the first version), `Lists` (what is left of a call's
lists is part of them, the added tasks come before the removed ones, and the task
`GetTask` found is the next of a list) and `OneByOne`: as long as no two calls
overlapped, at most one is under way; the copy is never ahead of the record; and
the records are those of the copy, changed by exactly as much of the call's lists as
is done (`Progress`, `RegisterProgress`). A call that fails half way leaves
records and copy apart, but then the versions differ, and no step makes them equal
again. For `TypeCorrect`, a channel holds its ticks in increasing order, so it is no
longer than the clock.

### TickerProofs

`TypeCorrect`, `TicksAreOrdered`, `RunsAreCounted`, `RunningTickersLoop`,
`LoopTicksTheListing`. The inductive invariant is
`TypeOK /\ TickInv /\ LeaveInv /\ CountInv`. `TickInv` says that what a loop waits for,
is about to send, or has sent is an instant of the schedule inside the window and,
once sent, not early; it holds of any number of loops. `CountInv` is about a ticker
that never had two: what is through are the instants `Due(0)` to
`Due(runCount - 1)`, less the one that is being sent, and the timer is set for the
next one. `LeaveInv` gives every exit of a loop its reason. Every step is one of five
kinds (`StepsOf`): outside the loops, quiet, arming the timer, the timer's ring,
handing over the tick. That cron's search finds the next instant of the schedule is
`NextAfterIsNext`, from the existence of a least natural number in a non-empty set.
`LoopTicksTheListing` supposes `StartsAfterZero`: the schedule begins after the
instant 0 at which the listing's interval begins, since a once ticker's
`GetOccurrencesBetween` leaves out both ends.

## Limits

Only model-checked: the liveness properties (`CallsReturn`, `PendingStarts`,
`StaleIsReaped`, `StartAndShutdownReturn`, `OccurrenceEnds`, `LastCallWins`,
`StopEndsLoops`) and the fairness part of `ImplementsContract`, since fairness and
`ENABLED` are out of the prover's reach; and the counterexamples of the
[disagreements](#disagreements).

Not modelled:

- `DiffSchedules`, which nothing calls; the order of the tasks after an update,
  which is that of a Go map; configurations, which an update stores empty; the
  data races of an update with the watcher and the executor on the fields of the
  job (the watcher reads the old ticker or the new one, never a mixture);
- the database itself: a store operation is atomic, durable when it returns, and
  may fail without effect;
- formatting and hashing of identifiers (an ID has a resolution of one second;
  times in the models are at least that far apart), JSON, time zones and daylight
  saving, the parsing of cron expressions;
- durations: timeouts and backoff pass at any moment;
- changes of a job's `Active` and `Paused` flags while a node is up (they are
  constants; pauses of a ticker are in `Ticker`);
- a second `Start` of the same `Scheduler` after `Shutdown`, whose parts
  (`WorkerPool`, `Ticker`) are modelled with their restarts; `RegisterJob` while
  `Start` is at work;
- a task function that panics, and a negative `MaxRetries`;
- metrics and the example program, which nothing depends on.

## Plan

Done, in order of importance: the pool; the scheduler with recovery, reaper and
store, its ledger and its proofs; the executor; the tickers with their listings;
updates; the proofs of all safety properties and of both refinements.

1. `DiffSchedules` and the one-second resolution of identifiers as pure operators.
2. The hazards in `PROJECT.json` that no property covers yet: the order of a
   job's tasks after an update, and a job whose registration failed half way.
