------------------------------- MODULE Scheduler -------------------------------
(***************************************************************************)
(* The life of a job occurrence, from the tick that announces it to its    *)
(* final record, on nodes that share one store:                            *)
(*                                                                         *)
(*   scheduler/scheduler.go   registration, start, watchers, shutdown      *)
(*   recovery/recovery.go     on-boot recovery of missed occurrences       *)
(*   recovery/reaper.go       the dead-man's switch                        *)
(*   executor/executor.go     the status writes around the tasks           *)
(*   storage/badger/badger.go the occurrence and job records               *)
(*                                                                         *)
(* Each node is a process with these goroutines: the caller of Start (the  *)
(* Starter, which runs recovery), one watcher per job, the pool's workers, *)
(* one ticker per job, and the reaper.  A store operation is one badger    *)
(* transaction, hence one step.  The pool is the one of module WorkerPool, *)
(* with its two close calls taken together.  The clock counts schedule     *)
(* instants: every job is due once at every time from 1 to MaxTime.        *)
(***************************************************************************)
EXTENDS Naturals, Sequences, FiniteSets

CONSTANTS
    Nodes,      \* scheduler processes sharing the store
    Jobs,       \* job definitions
    Workers,    \* the worker goroutines of a node's pool
    Starter,    \* the goroutine that calls Start
    NoNode,     \* an empty OwningNodeID
    NoOcc,      \* a goroutine that handles no occurrence
    ChanCap,    \* capacity of a ticker's channel
    StaleAfter, \* the reaper's threshold
    Lookback,   \* how far back recovery looks without a LastRunTime
    Overlap,    \* OverlapPolicy of each job
    Recovery,   \* RecoveryStrategy of each job
    WindowDuration, WindowOccurrences, \* BoundedWindow; 0 is "no limit"
    CatchUp,    \* the jobs on an ISO8601 ticker, which fires every instant
    Active, Paused, \* the jobs with these flags set
    ListLimit,  \* MaxOccurrenceIterations
    MaxTime,    \* bound on the clock
    MaxBoots,   \* bound on the processes a node runs one after another
    MaxFaults   \* bound on failing store operations

ASSUME ThreadsAssumption ==
    /\ IsFiniteSet(Workers) /\ Workers # {}
    /\ Starter \notin Workers \cup Jobs
    /\ Workers \cap Jobs = {}

ASSUME BoundsAssumption ==
    /\ ChanCap \in Nat /\ StaleAfter \in Nat /\ Lookback \in Nat
    /\ WindowDuration \in Nat /\ WindowOccurrences \in Nat
    /\ ListLimit \in Nat
    /\ MaxTime \in Nat /\ MaxBoots \in Nat /\ MaxFaults \in Nat

ASSUME PoliciesAssumption ==
    /\ Overlap \in [Jobs -> {"skip", "queue", "allow"}]
    /\ Recovery \in [Jobs -> {"all", "last", "missed", "window"}]
    /\ CatchUp \subseteq Jobs /\ Active \subseteq Jobs /\ Paused \subseteq Jobs

Times == 1 .. MaxTime

(* GenerateJobOccurrenceID is a function of the job and the scheduled time. *)
Occs == Jobs \X Times

ASSUME NoOccAssumption == NoOcc \notin Occs /\ NoNode \notin Nodes

Threads == Workers \cup Jobs \cup {Starter}
QueueCap == 2 * Cardinality(Workers)

Final == {"Completed", "Failed", "Failed_Stale"}
Statuses == {"Absent", "Pending", "Running"} \cup Final
Lives == {"down", "panicked", "new", "recovering", "running", "draining",
          "stopping", "stopped", "forcing", "forced"}
PCs == {"off", "idle", "create", "submit", "select", "exec", "tasks"}

VARIABLES
    now,      \* the clock
    status,   \* the occurrence records: Status, "Absent" if there is none,
    owner,    \*   OwningNodeID,
    since,    \*   and StartTime
    ran,      \* how often the tasks of an occurrence were started (history)
    jobRecs,  \* the job records of the store
    faults,   \* failed store operations so far
    life,     \* each node's process
    boots,    \* processes a node has run
    jobs,     \* s.jobs
    recJobs,  \* jobs performRecovery has still to look at
    missed,   \* occurrences the recovery strategy has still to schedule
    pc, cur,  \* goroutines, and the occurrence each one handles
    queue,    \* the buffer of the pool's channel
    ticks,    \* the buffer of each ticker's channel
    pos,      \* the time each ticker waits for; 0 when it does not run
    dropped,  \* the ticks a full channel or Skip has cost the process (history)
    reaper,   \* the reaper goroutine runs
    reap      \* what it has listed and not yet written

recordVars == <<status, owner, since, ran>>
storeVars == <<recordVars, jobRecs, faults>>
threadVars == <<pc, cur>>
startVars == <<jobs, recJobs, missed>>
tickVars == <<ticks, pos, dropped>>
reapVars == <<reaper, reap>>
vars == <<now, storeVars, life, boots, startVars, threadVars, queue, tickVars,
          reapVars>>

(* The types of the store and of the nodes' memory. *)
TypeOK ==
    /\ now \in 0 .. MaxTime
    /\ status \in [Occs -> Statuses]
    /\ owner \in [Occs -> Nodes \cup {NoNode}]
    /\ since \in [Occs -> 0 .. MaxTime]
    /\ ran \in [Occs -> Nat]
    /\ jobRecs \in SUBSET Jobs
    /\ faults \in 0 .. MaxFaults
    /\ life \in [Nodes -> Lives]
    /\ boots \in [Nodes -> 0 .. MaxBoots]
    /\ jobs \in [Nodes -> SUBSET Jobs]
    /\ recJobs \in [Nodes -> SUBSET Jobs]
    /\ missed \in [Nodes -> SUBSET Occs]
    /\ pc \in [Nodes -> [Threads -> PCs]]
    /\ cur \in [Nodes -> [Threads -> Occs \cup {NoOcc}]]
    /\ queue \in [Nodes -> Seq(Occs)]
    /\ ticks \in [Nodes -> [Jobs -> Seq(Times)]]
    /\ pos \in [Nodes -> [Jobs -> 0 .. MaxTime + 1]]
    /\ dropped \in [Nodes -> SUBSET Occs]
    /\ reaper \in [Nodes -> BOOLEAN]
    /\ reap \in [Nodes -> SUBSET Occs]

-------------------------------------------------------------------------------
(* What a node's life says of its shared objects. *)
Up(n) == life[n] \notin {"down", "panicked"}
Canceled(n) ==  \* s.ctx is done and the tickers' stop channels are closed
    life[n] \in {"draining", "stopping", "stopped", "forcing", "forced"}
PoolStarted(n) == life[n] \in {"running", "draining", "stopping", "forcing"}
PoolClosed(n) == life[n] \in {"stopping", "stopped", "forcing", "forced"}
PoolMuHeld(n) == life[n] \in {"stopping", "forcing"}

(* Goroutine th of node n goes to point p with occurrence o. *)
Goto(n, th, p, o) ==
    /\ pc' = [pc EXCEPT ![n][th] = p]
    /\ cur' = [cur EXCEPT ![n][th] = o]

Fault == faults < MaxFaults /\ faults' = faults + 1

-------------------------------------------------------------------------------
Init ==
    /\ now = 0
    /\ status = [o \in Occs |-> "Absent"]
    /\ owner = [o \in Occs |-> NoNode]
    /\ since = [o \in Occs |-> 0]
    /\ ran = [o \in Occs |-> 0]
    /\ jobRecs = {}
    /\ faults = 0
    /\ life = [n \in Nodes |-> "down"]
    /\ boots = [n \in Nodes |-> 0]
    /\ jobs = [n \in Nodes |-> {}]
    /\ recJobs = [n \in Nodes |-> {}]
    /\ missed = [n \in Nodes |-> {}]
    /\ pc = [n \in Nodes |-> [th \in Threads |-> "off"]]
    /\ cur = [n \in Nodes |-> [th \in Threads |-> NoOcc]]
    /\ queue = [n \in Nodes |-> <<>>]
    /\ ticks = [n \in Nodes |-> [j \in Jobs |-> <<>>]]
    /\ pos = [n \in Nodes |-> [j \in Jobs |-> 0]]
    /\ dropped = [n \in Nodes |-> {}]
    /\ reaper = [n \in Nodes |-> FALSE]
    /\ reap = [n \in Nodes |-> {}]

Advance ==
    /\ now < MaxTime
    /\ now' = now + 1
    /\ UNCHANGED <<storeVars, life, boots, startVars, threadVars, queue,
                   tickVars, reapVars>>

-------------------------------------------------------------------------------
(* The process: boot, registration, crash. *)

Boot(n) ==
    /\ ~Up(n)
    /\ boots[n] < MaxBoots
    /\ boots' = [boots EXCEPT ![n] = @ + 1]
    /\ life' = [life EXCEPT ![n] = "new"]
    /\ UNCHANGED <<now, storeVars, startVars, threadVars, queue, tickVars,
                   reapVars>>

(* RegisterJob: CreateJob refuses an ID that has a record.  jobsMu keeps it *)
(* out while Start runs recovery.                                           *)
RegisterJob(n, j) ==
    /\ Up(n)
    /\ life[n] # "recovering"
    /\ j \notin jobs[n]
    /\ j \notin jobRecs
    /\ jobRecs' = jobRecs \cup {j}
    /\ jobs' = [jobs EXCEPT ![n] = @ \cup {j}]
    /\ UNCHANGED <<now, recordVars, faults, life, boots, recJobs, missed,
                   threadVars, queue, tickVars, reapVars>>

(* RegisterJob when CreateTask fails: the job record stays. *)
RegisterJobFails(n, j) ==
    /\ Up(n)
    /\ life[n] # "recovering"
    /\ j \notin jobs[n]
    /\ j \notin jobRecs
    /\ Fault
    /\ jobRecs' = jobRecs \cup {j}
    /\ UNCHANGED <<now, recordVars, life, boots, startVars, threadVars, queue,
                   tickVars, reapVars>>

(* Somebody deletes the records of a job (storage.DeleteJob, DeleteTask): *)
(* without it no second process can register the job.                     *)
DeleteJob(j) ==
    /\ j \in jobRecs
    /\ jobRecs' = jobRecs \ {j}
    /\ UNCHANGED <<now, recordVars, faults, life, boots, startVars, threadVars,
                   queue, tickVars, reapVars>>

(* Everything a process holds in memory goes with it. *)
Die(n, how) ==
    /\ life' = [life EXCEPT ![n] = how]
    /\ jobs' = [jobs EXCEPT ![n] = {}]
    /\ recJobs' = [recJobs EXCEPT ![n] = {}]
    /\ missed' = [missed EXCEPT ![n] = {}]
    /\ pc' = [pc EXCEPT ![n] = [th \in Threads |-> "off"]]
    /\ cur' = [cur EXCEPT ![n] = [th \in Threads |-> NoOcc]]
    /\ queue' = [queue EXCEPT ![n] = <<>>]
    /\ ticks' = [ticks EXCEPT ![n] = [j \in Jobs |-> <<>>]]
    /\ pos' = [pos EXCEPT ![n] = [j \in Jobs |-> 0]]
    /\ dropped' = [dropped EXCEPT ![n] = {}]
    /\ reaper' = [reaper EXCEPT ![n] = FALSE]
    /\ reap' = [reap EXCEPT ![n] = {}]
    /\ UNCHANGED <<now, storeVars, boots>>

Crash(n) == Up(n) /\ Die(n, "down")

-------------------------------------------------------------------------------
(* Start: recovery, then reaper, pool, tickers and watchers. *)

BeginStart(n) ==
    /\ life[n] = "new"
    /\ life' = [life EXCEPT ![n] = "recovering"]
    /\ recJobs' = [recJobs EXCEPT ![n] = jobs[n] \cap Active]
    /\ Goto(n, Starter, "idle", NoOcc)
    /\ UNCHANGED <<now, storeVars, boots, jobs, missed, queue, tickVars,
                   reapVars>>

(* GetOccurrencesBetween(now - Lookback, now): a cron schedule leaves out   *)
(* the first instant, an ISO8601 schedule the last.  LastRunTime is never   *)
(* written, so the default applies at every boot.                           *)
MissedTimes(j) ==
    IF j \in CatchUp THEN {t \in Times : now <= t + Lookback /\ t < now}
                     ELSE {t \in Times : now < t + Lookback /\ t <= now}

(* The loop of GetOccurrencesBetween gives up after MaxOccurrenceIterations *)
(* rounds: cron counts from the start of the interval, ISO8601 from its     *)
(* very first instant, however long ago that was.                           *)
TooMany(j) ==
    Cardinality(IF j \in CatchUp THEN {t \in Times : t < now}
                                 ELSE MissedTimes(j)) > ListLimit

Latest(S) == {t \in S : \A u \in S : u <= t}

(* boundedWindow: first the duration, then the last WindowOccurrences. *)
InWindow(S) ==
    LET recent == {t \in S : WindowDuration > 0 => now < t + WindowDuration}
    IN {t \in recent :
          WindowOccurrences > 0 =>
            Cardinality({u \in recent : t < u}) < WindowOccurrences}

ApplyStrategy(j, S) ==
    CASE Recovery[j] = "last" -> Latest(S)
      [] Recovery[j] = "missed" -> {}
      [] Recovery[j] = "window" -> InWindow(S)
      [] OTHER -> S

(* performRecovery, one active job, paused or not: its record exists. *)
RecoverJob(n, j) ==
    /\ life[n] = "recovering"
    /\ pc[n][Starter] = "idle"
    /\ missed[n] = {}
    /\ j \in recJobs[n]
    /\ j \in jobRecs
    /\ ~TooMany(j)
    /\ recJobs' = [recJobs EXCEPT ![n] = @ \ {j}]
    /\ missed' = [missed EXCEPT ![n] = {j} \X ApplyStrategy(j, MissedTimes(j))]
    /\ UNCHANGED <<now, storeVars, life, boots, jobs, threadVars, queue,
                   tickVars, reapVars>>

(* performRecovery when GetJob or GetOccurrencesBetween fails: Start        *)
(* returns the error.                                                       *)
StartFails(n, j) ==
    /\ life[n] = "recovering"
    /\ pc[n][Starter] = "idle"
    /\ missed[n] = {}
    /\ j \in recJobs[n]
    /\ \/ j \notin jobRecs /\ UNCHANGED faults
       \/ j \in jobRecs /\ TooMany(j) /\ UNCHANGED faults
       \/ Fault
    /\ life' = [life EXCEPT ![n] = "new"]
    /\ recJobs' = [recJobs EXCEPT ![n] = {}]
    /\ Goto(n, Starter, "off", NoOcc)
    /\ UNCHANGED <<now, recordVars, jobRecs, boots, jobs, missed, queue,
                   tickVars, reapVars>>

(* executeAll: the next missed time, in chronological order. *)
RecoverNext(n) ==
    /\ life[n] = "recovering"
    /\ pc[n][Starter] = "idle"
    /\ \E o \in missed[n] :
          /\ \A p \in missed[n] : o[2] <= p[2]
          /\ missed' = [missed EXCEPT ![n] = @ \ {o}]
          /\ Goto(n, Starter, "create", o)
    /\ UNCHANGED <<now, storeVars, life, boots, jobs, recJobs, queue, tickVars,
                   reapVars>>

FromNow(j) == now + 1  \* mutant of FirstInstant: every ticker looks ahead

(* A cron ticker waits for the next instant, an ISO8601 ticker begins with  *)
(* its first one.                                                           *)
FirstInstant(j) == IF j \in CatchUp THEN 1 ELSE now + 1

(* The jobs Start starts a ticker and a watcher for. *)
Watched(n) == (jobs[n] \cap Active) \ Paused

(* The rest of Start: reaper, pool, tickers, watchers. *)
FinishStart(n) ==
    /\ life[n] = "recovering"
    /\ pc[n][Starter] = "idle"
    /\ recJobs[n] = {}
    /\ missed[n] = {}
    /\ life' = [life EXCEPT ![n] = "running"]
    /\ reaper' = [reaper EXCEPT ![n] = TRUE]
    /\ pc' = [pc EXCEPT ![n] = [th \in Threads |->
                IF th \in Workers \cup Watched(n) THEN "idle" ELSE "off"]]
    /\ pos' = [pos EXCEPT ![n] = [j \in Jobs |->
                IF j \in Watched(n) THEN FirstInstant(j) ELSE 0]]
    /\ UNCHANGED <<now, storeVars, boots, startVars, cur, queue, ticks, dropped,
                   reap>>

-------------------------------------------------------------------------------
(* Tickers and watchers. *)

SkipsOne(j, t) == now + 2  \* mutant of NextInstant: off by one

(* Cron computes the instant after t from the clock, ISO8601 from its count. *)
NextInstant(j, t) == IF j \in CatchUp THEN t + 1 ELSE now + 1

(* A ticker's timer fires; a full channel drops the tick. *)
Tick(n, j) ==
    /\ pos[n][j] \in 1 .. now
    /\ \/ /\ Len(ticks[n][j]) < ChanCap
          /\ ticks' = [ticks EXCEPT ![n][j] = Append(@, pos[n][j])]
          /\ UNCHANGED dropped
       \/ /\ Len(ticks[n][j]) >= ChanCap
          /\ dropped' = [dropped EXCEPT ![n] = @ \cup {<<j, pos[n][j]>>}]
          /\ UNCHANGED ticks
    /\ pos' = [pos EXCEPT ![n][j] = NextInstant(j, @)]
    /\ UNCHANGED <<now, storeVars, life, boots, startVars, threadVars, queue,
                   reapVars>>

(* A ticker sees its closed stop channel. *)
TickerExit(n, j) ==
    /\ Canceled(n)
    /\ pos[n][j] > 0
    /\ pos' = [pos EXCEPT ![n][j] = 0]
    /\ UNCHANGED <<now, storeVars, life, boots, startVars, threadVars, queue,
                   ticks, dropped, reapVars>>

(* job.IsRunning over ListRunningOccurrences. *)
IsRunning(j) == \E t \in Times : status[<<j, t>>] = "Running"

Skips(j) == Overlap[j] = "skip" /\ IsRunning(j)

(* watchJob receives a tick and handleJobTrigger checks the overlap policy; *)
(* a failing query drops the tick like a skip does.                         *)
Trigger(n, j) ==
    /\ pc[n][j] = "idle"
    /\ ticks[n][j] # <<>>
    /\ ticks' = [ticks EXCEPT ![n][j] = Tail(@)]
    /\ \/ /\ ~Skips(j)
          /\ Goto(n, j, "create", <<j, Head(ticks[n][j])>>)
          /\ UNCHANGED <<faults, dropped>>
       \/ /\ Skips(j)
          /\ dropped' = [dropped EXCEPT ![n] = @ \cup {<<j, Head(ticks[n][j])>>}]
          /\ UNCHANGED <<threadVars, faults>>
       \/ Fault /\ UNCHANGED <<threadVars, dropped>>
    /\ UNCHANGED <<now, recordVars, jobRecs, life, boots, startVars, queue, pos,
                   reapVars>>

WatcherExit(n, j) ==
    /\ pc[n][j] = "idle"
    /\ Canceled(n)
    /\ Goto(n, j, "off", NoOcc)
    /\ UNCHANGED <<now, storeVars, life, boots, startVars, queue, tickVars,
                   reapVars>>

(* The record CreateJobOccurrence writes for handleJobTrigger, or for       *)
(* scheduleRecoveryRun: only the watcher's carries the node.                *)
Record(n, th) ==
    /\ status' = [status EXCEPT ![cur[n][th]] = "Pending"]
    /\ owner' = [owner EXCEPT ![cur[n][th]] = IF th \in Jobs THEN n ELSE NoNode]
    /\ Goto(n, th, "submit", cur[n][th])
    /\ UNCHANGED <<now, since, ran, jobRecs, faults, life, boots, startVars,
                   queue, tickVars, reapVars>>

CreateBlind(n, th) ==  \* mutant of CreateWins: an upsert
    pc[n][th] = "create" /\ Record(n, th)

CreateAdopts(n, th) ==  \* mutant of CreateWins: takes over Pending records
    /\ pc[n][th] = "create"
    /\ status[cur[n][th]] \in {"Absent", "Pending"}
    /\ Record(n, th)

(* CreateJobOccurrence: one transaction that refuses an existing key. *)
CreateWins(n, th) ==
    /\ pc[n][th] = "create"
    /\ status[cur[n][th]] = "Absent"
    /\ Record(n, th)

CreateLoses(n, th) ==
    /\ pc[n][th] = "create"
    /\ \/ status[cur[n][th]] # "Absent" /\ UNCHANGED faults
       \/ Fault
    /\ Goto(n, th, "idle", NoOcc)
    /\ UNCHANGED <<now, recordVars, jobRecs, life, boots, startVars, queue,
                   tickVars, reapVars>>

-------------------------------------------------------------------------------
(* The pool (see WorkerPool). *)

(* Submit: a pool that is not started runs the occurrence on the caller. *)
Submit(n, th) ==
    /\ pc[n][th] = "submit"
    /\ ~PoolMuHeld(n)
    /\ Goto(n, th, IF PoolStarted(n) THEN "select" ELSE "exec", cur[n][th])
    /\ UNCHANGED <<now, storeVars, life, boots, startVars, queue, tickVars,
                   reapVars>>

SubmitSend(n, th) ==
    /\ pc[n][th] = "select"
    /\ ~PoolClosed(n)
    /\ Len(queue[n]) < QueueCap
    /\ queue' = [queue EXCEPT ![n] = Append(@, cur[n][th])]
    /\ Goto(n, th, "idle", NoOcc)
    /\ UNCHANGED <<now, storeVars, life, boots, startVars, tickVars, reapVars>>

SubmitRefused(n, th) ==
    /\ pc[n][th] = "select"
    /\ PoolClosed(n)
    /\ Goto(n, th, "idle", NoOcc)
    /\ UNCHANGED <<now, storeVars, life, boots, startVars, queue, tickVars,
                   reapVars>>

SubmitPanic(n, th) ==
    /\ pc[n][th] = "select"
    /\ PoolClosed(n)
    /\ Die(n, "panicked")

TakeKeepsHead(n, w) ==  \* mutant of Take: the occurrence stays queued
    /\ pc[n][w] = "idle"
    /\ queue[n] # <<>>
    /\ Goto(n, w, "exec", Head(queue[n]))
    /\ UNCHANGED <<now, storeVars, life, boots, startVars, queue, tickVars,
                   reapVars>>

TakeOfTwo(n, w) ==  \* mutant of Take: off by one
    /\ pc[n][w] = "idle"
    /\ Len(queue[n]) > 1
    /\ queue' = [queue EXCEPT ![n] = Tail(@)]
    /\ Goto(n, w, "exec", Head(queue[n]))
    /\ UNCHANGED <<now, storeVars, life, boots, startVars, tickVars, reapVars>>

Take(n, w) ==
    /\ pc[n][w] = "idle"
    /\ queue[n] # <<>>
    /\ queue' = [queue EXCEPT ![n] = Tail(@)]
    /\ Goto(n, w, "exec", Head(queue[n]))
    /\ UNCHANGED <<now, storeVars, life, boots, startVars, tickVars, reapVars>>

WorkerExit(n, w) ==
    /\ pc[n][w] = "idle"
    /\ PoolClosed(n)
    /\ Goto(n, w, "off", NoOcc)
    /\ UNCHANGED <<now, storeVars, life, boots, startVars, queue, tickVars,
                   reapVars>>

-------------------------------------------------------------------------------
(* ExecuteJobOccurrence. *)

(* The record becomes Running.  The executor writes it from the in-memory   *)
(* occurrence, which has no OwningNodeID.                                   *)
ExecStart(n, th) ==
    LET o == cur[n][th] IN
    /\ pc[n][th] = "exec"
    /\ status' = [status EXCEPT ![o] = "Running"]
    /\ owner' = [owner EXCEPT ![o] = NoNode]
    /\ since' = [since EXCEPT ![o] = now]
    /\ ran' = [ran EXCEPT ![o] = @ + 1]
    /\ Goto(n, th, "tasks", o)
    /\ UNCHANGED <<now, jobRecs, faults, life, boots, startVars, queue,
                   tickVars, reapVars>>

(* The write fails: ExecuteJobOccurrence returns, nobody looks at the error. *)
ExecStartFails(n, th) ==
    /\ pc[n][th] = "exec"
    /\ Fault
    /\ Goto(n, th, "idle", NoOcc)
    /\ UNCHANGED <<now, recordVars, jobRecs, life, boots, startVars, queue,
                   tickVars, reapVars>>

ExecFinishForgets(n, th) ==  \* mutant of ExecFinish: no final write
    /\ pc[n][th] = "tasks"
    /\ Goto(n, th, "idle", NoOcc)
    /\ UNCHANGED <<now, storeVars, life, boots, startVars, queue, tickVars,
                   reapVars>>

(* The tasks are over; the final write is unconditional, and its error is   *)
(* ignored.                                                                 *)
ExecFinish(n, th) ==
    LET o == cur[n][th] IN
    /\ pc[n][th] = "tasks"
    /\ \/ /\ \E s \in {"Completed", "Failed"} : status' = [status EXCEPT ![o] = s]
          /\ owner' = [owner EXCEPT ![o] = NoNode]
          /\ UNCHANGED faults
       \/ Fault /\ UNCHANGED <<status, owner>>
    /\ Goto(n, th, "idle", NoOcc)
    /\ UNCHANGED <<now, since, ran, jobRecs, life, boots, startVars, queue,
                   tickVars, reapVars>>

-------------------------------------------------------------------------------
(* The reaper. *)

StaleInclusive(o) ==  \* mutant of Stale: off by one
    status[o] = "Running" /\ since[o] + StaleAfter <= now

StaleWithOwner(o) ==  \* mutant of Stale: asks for the owner nobody keeps
    status[o] = "Running" /\ since[o] + StaleAfter < now /\ owner[o] # NoNode

(* ListStaleOccurrences *)
Stale(o) == status[o] = "Running" /\ since[o] + StaleAfter < now

ReapList(n) ==
    /\ reaper[n]
    /\ reap[n] = {}
    /\ \E o \in Occs : Stale(o)
    /\ reap' = [reap EXCEPT ![n] = {o \in Occs : Stale(o)}]
    /\ UNCHANGED <<now, storeVars, life, boots, startVars, threadVars, queue,
                   tickVars, reaper>>

(* UpdateJobOccurrence of a listed record: it checks only that the key      *)
(* exists.  The error of a failing write is ignored.                        *)
ReapWrite(n, o) ==
    /\ o \in reap[n]
    /\ \/ status' = [status EXCEPT ![o] = "Failed_Stale"] /\ UNCHANGED faults
       \/ Fault /\ UNCHANGED status
    /\ reap' = [reap EXCEPT ![n] = @ \ {o}]
    /\ UNCHANGED <<now, owner, since, ran, jobRecs, life, boots, startVars,
                   threadVars, queue, tickVars, reaper>>

ReaperExit(n) ==
    /\ reaper[n]
    /\ reap[n] = {}
    /\ Canceled(n)
    /\ reaper' = [reaper EXCEPT ![n] = FALSE]
    /\ UNCHANGED <<now, storeVars, life, boots, startVars, threadVars, queue,
                   tickVars, reap>>

-------------------------------------------------------------------------------
(* Shutdown(timeout). *)

(* Tickers stopped, context canceled. *)
Shutdown(n) ==
    /\ life[n] = "running"
    /\ life' = [life EXCEPT ![n] = "draining"]
    /\ UNCHANGED <<now, storeVars, boots, startVars, threadVars, queue,
                   tickVars, reapVars>>

WatchersOff(n) == \A j \in Jobs : pc[n][j] = "off"

DrainedAtOnce(n) ==  \* mutant of Drained: does not wait for the watchers
    /\ life[n] = "draining"
    /\ life' = [life EXCEPT ![n] = "stopping"]
    /\ UNCHANGED <<now, storeVars, boots, startVars, threadVars, queue,
                   tickVars, reapVars>>

(* The watchers are gone, or the timeout passes first; then pool.Stop. *)
Drained(n) ==
    /\ life[n] = "draining"
    /\ life' = [life EXCEPT ![n] = IF WatchersOff(n) THEN "stopping" ELSE "forcing"]
    /\ UNCHANGED <<now, storeVars, boots, startVars, threadVars, queue,
                   tickVars, reapVars>>

(* pool.Stop has returned; what is left in its channel stays there, and no  *)
(* worker takes it.  reaper.Stop adds nothing to the canceled context and   *)
(* waits for nobody.                                                        *)
Stopped(n) ==
    /\ life' = [life EXCEPT ![n] = IF @ = "stopping" THEN "stopped" ELSE "forced"]
    /\ UNCHANGED <<now, storeVars, boots, startVars, threadVars, queue,
                   tickVars, reapVars>>

WorkersOff(n) == \A w \in Workers : pc[n][w] = "off"

ReturnsEarly(n) ==  \* mutant of ShutdownReturns: does not wait
    PoolMuHeld(n) /\ Stopped(n)

ReturnsDrained(n) ==  \* mutant of ShutdownReturns: waits for the queue too
    PoolMuHeld(n) /\ WorkersOff(n) /\ queue[n] = <<>> /\ Stopped(n)

ShutdownReturns(n) == PoolMuHeld(n) /\ WorkersOff(n) /\ Stopped(n)

-------------------------------------------------------------------------------
Process(n) ==
    \/ Boot(n) \/ Crash(n) \/ BeginStart(n) \/ Shutdown(n) \/ Drained(n)
    \/ ShutdownReturns(n)
    \/ \E j \in Jobs : RegisterJob(n, j) \/ RegisterJobFails(n, j)

Recover(n) ==
    \/ RecoverNext(n) \/ FinishStart(n)
    \/ \E j \in Jobs : RecoverJob(n, j) \/ StartFails(n, j)

Ticker(n, j) == Tick(n, j) \/ TickerExit(n, j)

Schedule(n, th) ==  \* a goroutine that schedules occurrences
    \/ CreateWins(n, th) \/ CreateLoses(n, th)
    \/ Submit(n, th) \/ SubmitSend(n, th)
    \/ SubmitRefused(n, th) \/ SubmitPanic(n, th)

Execute(n, th) == ExecStart(n, th) \/ ExecStartFails(n, th) \/ ExecFinish(n, th)

Watcher(n, j) == Trigger(n, j) \/ WatcherExit(n, j)
Worker(n, w) == Take(n, w) \/ WorkerExit(n, w)
Reaper(n) == ReapList(n) \/ ReaperExit(n) \/ \E o \in Occs : ReapWrite(n, o)

NodeStep(n) ==
    \/ Process(n) \/ Recover(n) \/ Reaper(n)
    \/ \E j \in Jobs : Ticker(n, j) \/ Watcher(n, j)
    \/ \E w \in Workers : Worker(n, w)
    \/ \E th \in Threads : Schedule(n, th) \/ Execute(n, th)

Next ==
    \/ Advance
    \/ \E j \in Jobs : DeleteJob(j)
    \/ \E n \in Nodes : NodeStep(n)

Spec == Init /\ [][Next]_vars

(* Goroutines that can run do, and a store transaction ends.  The actions of *)
(* a job's tasks return: executeAttempt waits for them, and their contexts   *)
(* carry the job's ExecutionTimeout.  The reaper's time.Ticker keeps firing. *)
(* Nobody is obliged to boot, register, start, shut down or crash a process. *)
Fairness ==
    \A n \in Nodes :
        /\ WF_vars(Recover(n))
        /\ WF_vars(Drained(n)) /\ WF_vars(ShutdownReturns(n))
        /\ WF_vars(Reaper(n))
        /\ \A j \in Jobs : WF_vars(Ticker(n, j)) /\ WF_vars(Watcher(n, j))
        /\ \A w \in Workers : WF_vars(Worker(n, w))
        /\ \A th \in Threads : WF_vars(Schedule(n, th)) /\ WF_vars(Execute(n, th))

FairSpec == Spec /\ Fairness

-------------------------------------------------------------------------------
(* The occurrence a goroutine or a queue has claimed and not finished. *)
Claimed == {"submit", "select", "exec", "tasks"}
Holds(n, th, o) == pc[n][th] \in Claimed /\ cur[n][th] = o
InQueue(n, o) == \E i \in 1 .. Len(queue[n]) : queue[n][i] = o
Held(o) == \E n \in Nodes : InQueue(n, o) \/ \E th \in Threads : Holds(n, th, o)

(* An occurrence's tasks are started at most once, whatever nodes race for  *)
(* it, however often processes crash, reboot and recover, and whatever the  *)
(* reaper does: the deterministic ID and the create-if-absent of            *)
(* CreateJobOccurrence are the only protection (README "Winner Takes All"). *)
AtMostOnce == \A o \in Occs : ran[o] <= 1

(* Nobody holds an occurrence that has no record or whose tasks another     *)
(* goroutine may still start: a claimed occurrence has one holder, in one   *)
(* place, on one node.                                                      *)
OneHolder ==
    /\ \A n, m \in Nodes, a, b \in Threads, o \in Occs :
          Holds(n, a, o) /\ Holds(m, b, o) => n = m /\ a = b
    /\ \A n, m \in Nodes, a \in Threads, o \in Occs :
          ~(Holds(n, a, o) /\ InQueue(m, o))
    /\ \A n, m \in Nodes, o \in Occs :
          InQueue(n, o) /\ InQueue(m, o) => n = m
    /\ \A n \in Nodes : \A i, k \in 1 .. Len(queue[n]) :
          queue[n][i] = queue[n][k] => i = k

(* Before its tasks are started a held occurrence is Pending in the store,  *)
(* and without a record there is neither a holder nor a run: the memory of  *)
(* the goroutines and the store agree.                                      *)
HeldIsPending ==
    /\ \A o \in Occs : status[o] = "Absent" => ran[o] = 0 /\ ~Held(o)
    /\ \A o \in Occs, n \in Nodes :
          InQueue(n, o) => status[o] = "Pending" /\ ran[o] = 0
    /\ \A o \in Occs, n \in Nodes, th \in Threads :
          Holds(n, th, o) /\ pc[n][th] # "tasks" =>
              status[o] = "Pending" /\ ran[o] = 0

(* A node that never crashed, exited or began to stop its pool. *)
Undisturbed(n) ==
    \/ boots[n] = 0
    \/ boots[n] = 1 /\ life[n] \in {"new", "recovering", "running", "draining"}

(* An occurrence that is Pending or Running in the store is in the hands of *)
(* a live goroutine or in a pool's queue, as long as no store operation     *)
(* failed and no process crashed or stopped its pool: only those lose one.  *)
NoOrphans ==
    faults = 0 /\ (\A n \in Nodes : Undisturbed(n)) =>
        \A o \in Occs : status[o] \in {"Pending", "Running"} => Held(o)

(* A record that is final stays final, and a Pending one can only become    *)
(* Running: no late watcher, recovery or executor revives an occurrence.    *)
NeverRevived ==
    [][\A o \in Occs :
          /\ status[o] \in Final => status'[o] \in Final
          /\ status[o] = "Pending" => status'[o] \in {"Pending", "Running"}
          /\ status[o] # "Absent" => status'[o] # "Absent"]_vars

(* A record marked Failed_Stale was started more than the threshold ago,    *)
(* although the reaper writes from a list it read earlier.                  *)
OnlyStaleReaped ==
    \A o \in Occs : status[o] = "Failed_Stale" => since[o] + StaleAfter < now

(* When Shutdown returns without having timed out, no goroutine of the node *)
(* runs an occurrence or will start one, and what its pool left in the      *)
(* channel is still Pending and was never started, here or elsewhere.  The  *)
(* reaper is not waited for: it may still write the records it has listed.  *)
ShutdownQuiesces ==
    \A n \in Nodes : life[n] = "stopped" =>
        /\ \A th \in Threads : pc[n][th] = "off"
        /\ \A o \in Occs :
              InQueue(n, o) => status[o] = "Pending" /\ ran[o] = 0

(* The process panics in Submit only when Shutdown timed out. *)
PanicNeedsTimeout ==
    [][\A n \in Nodes :
          life[n] # "panicked" /\ life'[n] = "panicked" =>
              life[n] \in {"forcing", "forced"}]_vars

(* A time is on record, or on its way from the ticker to the store, or was  *)
(* given up: the ticker's channel was full, or Skip found a running one.    *)
OnItsWay(n, j, t) ==
    \/ status[<<j, t>>] # "Absent"
    \/ pos[n][j] <= t
    \/ \E i \in 1 .. Len(ticks[n][j]) : ticks[n][j][i] = t
    \/ pc[n][j] = "create" /\ cur[n][j] = <<j, t>>
    \/ <<j, t>> \in dropped[n]

(* No time of a watched job on an ISO8601 ticker falls between what         *)
(* performRecovery listed and what the ticker announces: unless the store   *)
(* failed, the only times nobody takes up are those the ticker found no     *)
(* room for, as when it replays a long past at once, and those Skip turned  *)
(* down.  A cron ticker starts from the clock and has gaps besides.         *)
NoGap ==
    \A n \in Nodes, j \in CatchUp :
        faults = 0 /\ life[n] = "running" /\ pos[n][j] > 0 =>
            \A t \in Times : OnItsWay(n, j, t)

(* A claimed occurrence is started unless a process or the store failed.    *)
PendingStarts ==
    \A o \in Occs : status[o] = "Pending" ~>
        \/ status[o] # "Pending"
        \/ faults > 0
        \/ \E n \in Nodes : ~Undisturbed(n)

(* The dead-man's switch: while some node stays up, a record that is stale  *)
(* does not stay Running, whoever left it behind.                           *)
StaleIsReaped ==
    <>[](\E n \in Nodes : life[n] = "running") =>
        \A o \in Occs :
            status[o] = "Running" /\ since[o] + StaleAfter < now
                ~> status[o] # "Running"

(* Start and Shutdown return: recovery executes what it finds on the        *)
(* caller's goroutine and ends, although the clock goes on and store        *)
(* operations fail; watchers and workers leave, whether or not Shutdown's   *)
(* timeout passes first, and the lock pool.Stop holds blocks nobody for     *)
(* good.                                                                    *)
StartAndShutdownReturn ==
    \A n \in Nodes :
        /\ life[n] = "recovering" ~> life[n] # "recovering"
        /\ life[n] = "draining" ~> ~Up(n) \/ life[n] \in {"stopped", "forced"}

-------------------------------------------------------------------------------
(* How far an occurrence has come, as OccurrenceLedger counts it. *)
Executing(o) ==
    \E n \in Nodes, th \in Threads : pc[n][th] = "tasks" /\ cur[n][th] = o

stage ==
    [o \in Occs |->
        IF status[o] = "Absent" THEN "free"
        ELSE IF ran[o] > 0 THEN (IF Executing(o) THEN "running" ELSE "over")
        ELSE IF Held(o) THEN "claimed" ELSE "lost"]

Ledger == INSTANCE OccurrenceLedger

(* The schedulers implement the ledger: one claim and one run per           *)
(* occurrence, across nodes, crashes, recovery and reaper.                  *)
ImplementsLedger == Ledger!Spec

-------------------------------------------------------------------------------
(* What the repository says of the program and the program does not do.     *)

(* recovery/reaper.go: "Atomically update to Failed_Stale"; README.md:      *)
(* "WHERE ID=? AND Status='Running'".  The final status a run was given     *)
(* stays.                                                                   *)
FinalIsFinal ==
    [][\A o \in Occs : status[o] \in {"Completed", "Failed"} =>
          status'[o] = status[o]]_vars

(* copilot-instructions.md: "Prevents self-overlapping runs via persistent  *)
(* state tracking"; README.md promises serial execution under Queue too.    *)
NoSelfOverlap ==
    \A j \in Jobs : Overlap[j] # "allow" =>
        \A t, u \in Times :
            Executing(<<j, t>>) /\ Executing(<<j, u>>) => t = u

(* README.md: ExecuteAll "Runs *all* missed occurrences in chronological    *)
(* order".  Once a lone node is up, no occurrence it should have recovered  *)
(* lies Pending with nobody to run it.                                      *)
RecoveryLeavesNoPending ==
    \A n \in Nodes, j \in Jobs :
        Nodes = {n} /\ life[n] = "running" /\ pos[n][j] > 0 =>
            \A t \in Times : status[<<j, t>>] = "Pending" => Held(<<j, t>>)
===============================================================================
