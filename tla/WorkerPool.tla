------------------------------ MODULE WorkerPool ------------------------------
(***************************************************************************)
(* concurrency/pool.go: the pool that bounds how many job occurrences run  *)
(* at once.  A buffered channel carries tasks from the goroutines that     *)
(* call Submit to a fixed set of worker goroutines; Stop closes a stop     *)
(* channel and the task channel and waits for the workers.                 *)
(*                                                                         *)
(* Every task has one caller, the goroutine that submits it.  Start and    *)
(* Stop may be called again and again, in any order, by anybody.           *)
(***************************************************************************)
EXTENDS Naturals, Sequences, FiniteSets

CONSTANTS
    Tasks,      \* the closures handed to Submit, each one once
    Workers,    \* worker goroutines; Cardinality(Workers) is maxWorkers
    NoTask,     \* a worker that holds no task
    MaxStarts   \* bound on the calls of Start that take effect

ASSUME WorkersAssumption == IsFiniteSet(Workers) /\ Workers # {}
ASSUME TasksAssumption == NoTask \notin Tasks
ASSUME MaxStartsAssumption == MaxStarts \in Nat

(* The capacity NewWorkerPool gives taskQueue: "buffer to avoid blocking". *)
QueueCap == 2 * Cardinality(Workers)

VARIABLES
    started,     \* p.started, guarded by p.mu
    stopper,     \* where the Stop call that holds p.mu is
    stopClosed,  \* p.stopCh is closed
    queueClosed, \* p.taskQueue is closed
    queue,       \* the buffer of p.taskQueue
    wpc,         \* worker goroutines: not spawned, in the select, in task()
    wtask,       \* the task a worker runs
    caller,      \* where the Submit call of each task is
    runs,        \* how often each task has been entered
    starts,      \* calls of Start that spawned the workers
    panicked     \* a goroutine panicked: the process is gone

poolVars == <<started, stopper, stopClosed, queueClosed, starts>>
workVars == <<wpc, wtask>>
vars == <<poolVars, queue, workVars, caller, runs, panicked>>

WorkerStates == {"off", "select", "busy"}
CallerStates == {"idle", "select", "inline", "ran", "accepted", "refused"}
Stoppers == {"idle", "closing", "waiting"}

(* The pool's types; the buffer of taskQueue never exceeds its capacity.   *)
TypeOK ==
    /\ started \in BOOLEAN
    /\ stopper \in Stoppers
    /\ stopClosed \in BOOLEAN
    /\ queueClosed \in BOOLEAN
    /\ queue \in Seq(Tasks)
    /\ Len(queue) <= QueueCap
    /\ wpc \in [Workers -> WorkerStates]
    /\ wtask \in [Workers -> Tasks \cup {NoTask}]
    /\ caller \in [Tasks -> CallerStates]
    /\ runs \in [Tasks -> Nat]
    /\ starts \in 0 .. MaxStarts
    /\ panicked \in BOOLEAN

(* p.mu is free: Stop holds it from its first line to its last, also while *)
(* it waits for the workers; Start and the first lines of Submit hold it   *)
(* only for the length of one step.                                        *)
MuFree == stopper = "idle"

(* What the queue holds of a task. *)
Queued(t) == \E i \in 1 .. Len(queue) : queue[i] = t

-------------------------------------------------------------------------------
Init ==
    /\ started = FALSE
    /\ stopper = "idle"
    /\ stopClosed = FALSE
    /\ queueClosed = FALSE
    /\ queue = <<>>
    /\ wpc = [w \in Workers |-> "off"]
    /\ wtask = [w \in Workers |-> NoTask]
    /\ caller = [t \in Tasks |-> "idle"]
    /\ runs = [t \in Tasks |-> 0]
    /\ starts = 0
    /\ panicked = FALSE

(* Start: the workers of the previous Start are gone, Stop waited for them. *)
Start ==
    /\ ~panicked
    /\ MuFree
    /\ ~started
    /\ starts < MaxStarts
    /\ started' = TRUE
    /\ starts' = starts + 1
    /\ wpc' = [w \in Workers |-> "select"]
    /\ UNCHANGED <<stopper, stopClosed, queueClosed, queue, wtask, caller,
                   runs, panicked>>

(* Submit up to its select: the pool is started. *)
SubmitBegin(t) ==
    /\ ~panicked
    /\ MuFree
    /\ started
    /\ caller[t] = "idle"
    /\ caller' = [caller EXCEPT ![t] = "select"]
    /\ UNCHANGED <<poolVars, queue, workVars, runs, panicked>>

(* Submit on a pool that is not started runs the task on the caller. *)
SubmitInline(t) ==
    /\ ~panicked
    /\ MuFree
    /\ ~started
    /\ caller[t] = "idle"
    /\ caller' = [caller EXCEPT ![t] = "inline"]
    /\ runs' = [runs EXCEPT ![t] = @ + 1]
    /\ UNCHANGED <<poolVars, queue, workVars, panicked>>

InlineDone(t) ==
    /\ ~panicked
    /\ caller[t] = "inline"
    /\ caller' = [caller EXCEPT ![t] = "ran"]
    /\ UNCHANGED <<poolVars, queue, workVars, runs, panicked>>

SubmitSendUnbounded(t) ==  \* mutant of SubmitSend: no capacity
    /\ ~panicked
    /\ caller[t] = "select"
    /\ ~queueClosed
    /\ queue' = Append(queue, t)
    /\ caller' = [caller EXCEPT ![t] = "accepted"]
    /\ UNCHANGED <<poolVars, workVars, runs, panicked>>

SubmitSendDrops(t) ==  \* mutant of SubmitSend: a select with a default case
    /\ ~panicked
    /\ caller[t] = "select"
    /\ ~queueClosed
    /\ queue' = IF Len(queue) < QueueCap THEN Append(queue, t) ELSE queue
    /\ caller' = [caller EXCEPT ![t] = "accepted"]
    /\ UNCHANGED <<poolVars, workVars, runs, panicked>>

(* The select of Submit: a send the buffer has room for. *)
SubmitSend(t) ==
    /\ ~panicked
    /\ caller[t] = "select"
    /\ ~queueClosed
    /\ Len(queue) < QueueCap
    /\ queue' = Append(queue, t)
    /\ caller' = [caller EXCEPT ![t] = "accepted"]
    /\ UNCHANGED <<poolVars, workVars, runs, panicked>>

SubmitRefusedWhenFull(t) ==  \* mutant of SubmitRefused: full is closed
    /\ ~panicked
    /\ caller[t] = "select"
    /\ stopClosed \/ Len(queue) = QueueCap
    /\ caller' = [caller EXCEPT ![t] = "refused"]
    /\ UNCHANGED <<poolVars, queue, workVars, runs, panicked>>

(* The select of Submit: the stop channel is closed. *)
SubmitRefused(t) ==
    /\ ~panicked
    /\ caller[t] = "select"
    /\ stopClosed
    /\ caller' = [caller EXCEPT ![t] = "refused"]
    /\ UNCHANGED <<poolVars, queue, workVars, runs, panicked>>

(* The select of Submit looks at the send first: a send on a closed channel *)
(* is ready, and panics.                                                    *)
SubmitPanic(t) ==
    /\ ~panicked
    /\ caller[t] = "select"
    /\ queueClosed
    /\ panicked' = TRUE
    /\ UNCHANGED <<poolVars, queue, workVars, caller, runs>>

TakeKeepsHead(w) ==  \* mutant of Take: the task stays in the queue
    /\ ~panicked
    /\ wpc[w] = "select"
    /\ queue # <<>>
    /\ wpc' = [wpc EXCEPT ![w] = "busy"]
    /\ wtask' = [wtask EXCEPT ![w] = Head(queue)]
    /\ runs' = [runs EXCEPT ![Head(queue)] = @ + 1]
    /\ UNCHANGED <<poolVars, queue, caller, panicked>>

(* A worker's select receives a task; a closed channel still hands out what *)
(* its buffer holds.                                                        *)
Take(w) ==
    /\ ~panicked
    /\ wpc[w] = "select"
    /\ queue # <<>>
    /\ queue' = Tail(queue)
    /\ wpc' = [wpc EXCEPT ![w] = "busy"]
    /\ wtask' = [wtask EXCEPT ![w] = Head(queue)]
    /\ runs' = [runs EXCEPT ![Head(queue)] = @ + 1]
    /\ UNCHANGED <<poolVars, caller, panicked>>

FinishExits(w) ==  \* mutant of Finish: the worker serves a single task
    /\ ~panicked
    /\ wpc[w] = "busy"
    /\ wpc' = [wpc EXCEPT ![w] = "off"]
    /\ wtask' = [wtask EXCEPT ![w] = NoTask]
    /\ UNCHANGED <<poolVars, queue, caller, runs, panicked>>

Finish(w) ==
    /\ ~panicked
    /\ wpc[w] = "busy"
    /\ wpc' = [wpc EXCEPT ![w] = "select"]
    /\ wtask' = [wtask EXCEPT ![w] = NoTask]
    /\ UNCHANGED <<poolVars, queue, caller, runs, panicked>>

(* A worker returns on the stop channel, or on a closed and empty channel. *)
Exit(w) ==
    /\ ~panicked
    /\ wpc[w] = "select"
    /\ stopClosed \/ (queueClosed /\ queue = <<>>)
    /\ wpc' = [wpc EXCEPT ![w] = "off"]
    /\ UNCHANGED <<poolVars, queue, wtask, caller, runs, panicked>>

StopBeginUnchecked ==  \* mutant of StopBegin: started is not checked
    /\ ~panicked
    /\ MuFree
    /\ IF stopClosed
       THEN panicked' = TRUE /\ UNCHANGED <<stopper, stopClosed>>
       ELSE stopper' = "closing" /\ stopClosed' = TRUE /\ UNCHANGED panicked
    /\ UNCHANGED <<started, queueClosed, starts, queue, workVars, caller, runs>>

(* Stop: close(stopCh), which panics when an earlier Stop closed it. *)
StopBegin ==
    /\ ~panicked
    /\ MuFree
    /\ started
    /\ IF stopClosed
       THEN panicked' = TRUE /\ UNCHANGED <<stopper, stopClosed>>
       ELSE stopper' = "closing" /\ stopClosed' = TRUE /\ UNCHANGED panicked
    /\ UNCHANGED <<started, queueClosed, starts, queue, workVars, caller, runs>>

StopCloseQueue ==
    /\ ~panicked
    /\ stopper = "closing"
    /\ queueClosed' = TRUE
    /\ stopper' = "waiting"
    /\ UNCHANGED <<started, stopClosed, starts, queue, workVars, caller, runs,
                   panicked>>

StopReturnEarly ==  \* mutant of StopReturn: no p.wg.Wait()
    /\ ~panicked
    /\ stopper = "waiting"
    /\ stopper' = "idle"
    /\ started' = FALSE
    /\ UNCHANGED <<stopClosed, queueClosed, starts, queue, workVars, caller,
                   runs, panicked>>

(* p.wg.Wait() returns once every worker has. *)
StopReturn ==
    /\ ~panicked
    /\ stopper = "waiting"
    /\ \A w \in Workers : wpc[w] = "off"
    /\ stopper' = "idle"
    /\ started' = FALSE
    /\ UNCHANGED <<stopClosed, queueClosed, starts, queue, workVars, caller,
                   runs, panicked>>

Submitter(t) ==
    \/ SubmitBegin(t) \/ SubmitInline(t) \/ InlineDone(t)
    \/ SubmitSend(t) \/ SubmitRefused(t) \/ SubmitPanic(t)

Worker(w) == Take(w) \/ Finish(w) \/ Exit(w)

Stopper == StopBegin \/ StopCloseQueue \/ StopReturn

Next ==
    \/ Start \/ Stopper
    \/ \E t \in Tasks : Submitter(t)
    \/ \E w \in Workers : Worker(w)

Spec == Init /\ [][Next]_vars

(* The Go runtime runs every goroutine that can run and lets a select with *)
(* a ready case return; the closures handed to the pool return (an action  *)
(* that ignores its context is outside the pool's promise).  Nobody is     *)
(* obliged to call Start, Submit or Stop.                                  *)
SelectReturns(t) == SubmitSend(t) \/ SubmitRefused(t) \/ SubmitPanic(t)

Fairness ==
    /\ \A w \in Workers : WF_vars(Worker(w))
    /\ \A t \in Tasks : WF_vars(SelectReturns(t))
    /\ \A t \in Tasks : WF_vars(InlineDone(t))
    /\ WF_vars(StopCloseQueue \/ StopReturn)

FairSpec == Spec /\ Fairness

-------------------------------------------------------------------------------
(* Submit hands a task over at most once: no interleaving of senders,      *)
(* workers, Stop and a second Start enters a closure twice.                *)
RunsAtMostOnce == \A t \in Tasks : runs[t] <= 1

(* A task the pool took on is in the buffer until a worker enters it, and  *)
(* one it turned away is never entered: nothing vanishes between Submit's  *)
(* send and the worker's receive.  (After a Stop nobody may receive it:    *)
(* then it stays in the closed channel, see StopCompletesAccepted.)        *)
NothingVanishes ==
    \A t \in Tasks :
        /\ caller[t] = "accepted" => (runs[t] = 0 <=> Queued(t))
        /\ caller[t] \in {"idle", "select", "refused"} =>
              runs[t] = 0 /\ ~Queued(t)

(* When Stop has returned, no worker is left inside a task: "waits for all *)
(* workers to finish", whatever Start and Submit calls surround it.        *)
StopQuiesces == ~started => \A w \in Workers : wpc[w] = "off"

(* A caller that lets its Submit calls return before it calls Stop, and    *)
(* never starts the pool again, cannot make it panic, however often it     *)
(* calls Stop.                                                             *)
PanicNeedsRaceOrRestart ==
    panicked => starts > 1 \/ \E t \in Tasks : caller[t] = "select"

(* Submit "will block if the queue is full", but not for good, and Stop    *)
(* returns although it holds the lock while it waits for the workers.      *)
CallsReturn ==
    /\ \A t \in Tasks : caller[t] = "select" ~> (caller[t] # "select" \/ panicked)
    /\ stopper # "idle" ~> (stopper = "idle" \/ panicked)

-------------------------------------------------------------------------------
(* The promise of PoolContract, read off the pool's state. *)
phase ==
    [t \in Tasks |->
        CASE caller[t] = "idle" -> "new"
          [] caller[t] = "select" -> "offered"
          [] caller[t] = "inline" -> "inline"
          [] caller[t] = "ran" -> "over"
          [] caller[t] = "refused" -> "refused"
          [] OTHER -> IF Queued(t) THEN "waiting"
                      ELSE IF \E w \in Workers : wtask[w] = t THEN "running"
                      ELSE "over"]

Contract ==
    INSTANCE PoolContract
        WITH Slots <- Cardinality(Workers), open <- started, closed <- stopClosed

(* The pool keeps the contract of an open pool: it starts what it took on,  *)
(* never more than maxWorkers at once.  Nothing is said of what is waiting  *)
(* when Stop is called; that is the next property.                          *)
ImplementsContract == Contract!Spec

(* concurrency/pool_test.go:185: "After Stop(), all tasks should be         *)
(* completed", of tasks some of which wait in the queue when Stop is called. *)
StopCompletesAccepted ==
    ~started => \A t \in Tasks : caller[t] = "accepted" => runs[t] = 1
===============================================================================
