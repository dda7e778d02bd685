------------------------------- MODULE JobUpdate -------------------------------
(***************************************************************************)
(* Changing a job while it is scheduled: update/update.go, UpdateJob of    *)
(* scheduler/scheduler.go, and the job and task records of                 *)
(* storage/badger/badger.go.                                               *)
(*                                                                         *)
(* The definition of a job exists twice, as records in the store and as    *)
(* the copy in s.jobs.  ApplyUpdate changes the records, one transaction   *)
(* after another; UpdateJob calls it with jobsMu held and then changes the *)
(* copy and replaces the ticker.  Tools call ApplyUpdate directly.  Around *)
(* them Start and Shutdown start and stop the job's ticker, and a watcher  *)
(* turns ticks into occurrences.  A revision of a task is the number of    *)
(* the update that wrote its Name and Order; configurations are left out,  *)
(* since serializeConfig and serializeTaskConfig store none.               *)
(***************************************************************************)
EXTENDS Naturals, Sequences, FiniteSets

CONSTANTS
    Sched,      \* the caller that is the scheduler
    Tools,      \* other callers of ApplyUpdate
    Tasks,      \* task IDs
    Initial,    \* job.Tasks at registration
    Foreign,    \* task IDs that a job with a smaller key uses as well
    Updates,    \* the updates that are asked for
    Enabled,    \* job.Active && !job.Paused
    Horizon,    \* the seven days of the Windowed policy
    MaxVersion, \* bound on Version
    MaxTickers, \* bound on the tickers the job is given
    MaxTime,    \* bound on the clock
    MaxFaults   \* bound on failing store operations

JobUpdate == [AddedTasks : SUBSET Tasks, RemovedTaskIDs : SUBSET Tasks,
              UpdatedTasks : SUBSET Tasks, NewTicker : BOOLEAN]
Policies == {"immediate", "graceful", "windowed"}

Callers == {Sched} \cup Tools
Times == 1 .. MaxTime
Tickers == 1 .. MaxTickers
Keys == {"job", "other"} \X Tasks
Revs == 0 .. MaxVersion  \* 0: there is none

ASSUME UpdateAssumption ==
    /\ Sched \notin Tools
    /\ Initial \subseteq Tasks /\ Foreign \subseteq Tasks
    /\ Updates \subseteq JobUpdate
    /\ Enabled \in BOOLEAN
    /\ {Horizon, MaxTime, MaxFaults} \subseteq Nat
    /\ {MaxVersion, MaxTickers} \subseteq Nat \ {0}

VARIABLES
    now,      \* the clock
    version,  \* Version of the job record; 0: no record
    recs,     \* the revisions of the task records
    occ,      \* the Status of the occurrence records
    faults,   \* failed store operations
    copy,     \* s.jobs: Version (0: not registered) and revisions
    call,     \* each caller: where it is, and what it has still to do
    life,     \* the scheduler, in Start and Shutdown
    ticker,   \* job.Ticker
    ticking,  \* the tickers: "new", "on" or "off"
    ch,       \* the buffers of their channels
    watcher,  \* the watcher goroutine
    run,      \* the executions of the occurrences
    overlap,  \* history: a call began while another was under way
    swaps     \* history: the lives in which a ticker was replaced

storeVars == <<version, recs, occ, faults>>
tickVars == <<ticker, ticking, ch>>
runVars == <<watcher, run>>
vars == <<now, storeVars, copy, call, life, tickVars, runVars, overlap, swaps>>

NoUpdate == [AddedTasks |-> {}, RemovedTaskIDs |-> {}, UpdatedTasks |-> {},
             NewTicker |-> FALSE]

(* A call: "left" is what is left of the update's lists, "found" the key   *)
(* GetTask returned, "clock" the time applyScheduleUpdate read first and   *)
(* "doomed" the occurrences it has still to cancel.                        *)
PCs == {"idle", "register", "write", "tasks", "list", "immediate", "cancel", "copy"}
Call == [pc : PCs, base : Revs, update : JobUpdate, left : JobUpdate,
         found : Keys \cup {<<>>}, clock : 0 .. MaxTime, doomed : SUBSET Times]
Idle == [pc |-> "idle", base |-> 0, update |-> NoUpdate, left |-> NoUpdate,
         found |-> <<>>, clock |-> 0, doomed |-> {}]

Lives == {"new", "starting", "running", "draining", "stopped"}

(* The types; every ticker channel holds each instant once, in order. *)
TypeOK ==
    /\ now \in 0 .. MaxTime
    /\ version \in Revs
    /\ recs \in [Keys -> Revs]
    /\ occ \in [Times -> {"Absent", "Pending", "Running", "Canceled"}]
    /\ faults \in 0 .. MaxFaults
    /\ copy \in [version : Revs, revs : [Tasks -> Revs]]
    /\ call \in [Callers -> Call]
    /\ life \in Lives
    /\ ticker \in Tickers
    /\ ticking \in [Tickers -> {"new", "on", "off"}]
    /\ ch \in [Tickers -> Seq(Times)]
    /\ \A k \in Tickers : \A i, j \in 1 .. Len(ch[k]) : i < j => ch[k][i] < ch[k][j]
    /\ watcher \in [pc : {"off", "select", "handle"}, of : 0 .. MaxTickers,
                    at : 0 .. MaxTime]
    /\ run \in [Times -> {"none", "queued", "started"}]
    /\ overlap \in BOOLEAN
    /\ swaps \subseteq Lives

-------------------------------------------------------------------------------
Init ==
    /\ now = 0
    /\ version = 0
    /\ recs = [k \in Keys |-> IF k[1] = "other" /\ k[2] \in Foreign THEN 1 ELSE 0]
    /\ occ = [t \in Times |-> "Absent"]
    /\ faults = 0
    /\ copy = [version |-> 0, revs |-> [t \in Tasks |-> 0]]
    /\ call = [c \in Callers |-> Idle]
    /\ life = "new"
    /\ ticker = 1
    /\ ticking = [k \in Tickers |-> "new"]
    /\ ch = [k \in Tickers |-> <<>>]
    /\ watcher = [pc |-> "off", of |-> 0, at |-> 0]
    /\ run = [t \in Times |-> "none"]
    /\ overlap = FALSE
    /\ swaps = {}

(* jobsMu: UpdateJob and RegisterJob hold it to their end. *)
JobsMuFree == call[Sched].pc = "idle"

(* Caller c goes on; Returns ends its call. *)
Continues(c, new) == call' = [call EXCEPT ![c] = new]
Returns(c) == call' = [call EXCEPT ![c] = Idle]

-------------------------------------------------------------------------------
(* RegisterJob: CreateJob refuses a job that has a record. *)
RegisterJob ==
    /\ JobsMuFree
    /\ copy.version = 0
    /\ version = 0
    /\ version' = 1
    /\ Continues(Sched, [Idle EXCEPT !.pc = "register",
                                     !.left.AddedTasks = Initial])
    /\ UNCHANGED <<now, recs, occ, faults, copy, life, tickVars, runVars, overlap,
                   swaps>>

Registered ==
    /\ call[Sched].pc = "register"
    /\ call[Sched].left.AddedTasks = {}
    /\ copy' = [version |-> 1,
                revs |-> [t \in Tasks |-> IF t \in Initial THEN 1 ELSE 0]]
    /\ Returns(Sched)
    /\ UNCHANGED <<now, storeVars, life, tickVars, runVars, overlap, swaps>>

UncheckedVersion(c) ==  \* mutant of VersionMatches: the copy is not looked at
    c = Sched => copy.version # 0

(* UpdateJob expects the version of the copy; tools have no copy. *)
VersionMatches(c) == c = Sched => copy.version = version

(* The caller expects the record's version; anything else is refused and   *)
(* changes nothing.                                                        *)
ReadJob(c) ==
    /\ call[c].pc = "idle"
    /\ VersionMatches(c)
    /\ version \in 1 .. MaxVersion - 1
    /\ \E u \in Updates :
          /\ c = Sched /\ u.NewTicker => ticker < MaxTickers
          /\ Continues(c, [Idle EXCEPT !.pc = "write", !.base = version,
                                       !.update = u, !.left = u])
    /\ overlap' = (overlap \/ \E d \in Callers : call[d].pc # "idle")
    /\ UNCHANGED <<now, storeVars, copy, life, tickVars, runVars, swaps>>

(* UpdateJob of the store: the record as it was read, one version up. *)
WriteJob(c) ==
    /\ call[c].pc = "write"
    /\ version' = call[c].base + 1
    /\ Continues(c, [call[c] EXCEPT !.pc = "tasks"])
    /\ UNCHANGED <<now, recs, occ, faults, copy, life, tickVars, runVars, overlap,
                   swaps>>

(* CreateTask refuses a task that has a record; the call ends there. *)
CreateTask(c, t) ==
    /\ t \in call[c].left.AddedTasks
    /\ call[c].pc \in {"register", "tasks"}
    /\ IF recs[<<"job", t>>] = 0
       THEN /\ recs' = [recs EXCEPT ![<<"job", t>>] = call[c].base + 1]
            /\ Continues(c, [call[c] EXCEPT !.left.AddedTasks = @ \ {t}])
       ELSE Returns(c) /\ UNCHANGED recs
    /\ UNCHANGED <<now, version, occ, faults, copy, life, tickVars, runVars,
                   overlap, swaps>>

(* GetTask searches the task keys of all jobs for the ID, in key order. *)
Found(t) == {k \in Keys : /\ k[2] = t /\ recs[k] # 0
                          /\ k[1] = "job" => recs[<<"other", t>>] = 0}

(* The tasks to be removed come first, then those to be updated. *)
NextTasks(c) ==
    IF call[c].left.AddedTasks # {} THEN {}
    ELSE IF call[c].left.RemovedTaskIDs # {} THEN call[c].left.RemovedTaskIDs
    ELSE call[c].left.UpdatedTasks

GetTask(c, t) ==
    /\ call[c].pc = "tasks" /\ call[c].found = <<>>
    /\ t \in NextTasks(c)
    /\ \/ \E k \in Found(t) : Continues(c, [call[c] EXCEPT !.found = k])
       \/ Found(t) = {} /\ Returns(c)
    /\ UNCHANGED <<now, storeVars, copy, life, tickVars, runVars, overlap, swaps>>

(* DeleteTask, with the key of the record that was found. *)
DeleteTask(c) ==
    LET k == call[c].found IN
    /\ call[c].pc = "tasks" /\ k # <<>>
    /\ k[2] \in call[c].left.RemovedTaskIDs
    /\ recs' = [recs EXCEPT ![k] = 0]
    /\ Continues(c, [call[c] EXCEPT !.found = <<>>,
                                    !.left.RemovedTaskIDs = @ \ {k[2]}])
    /\ UNCHANGED <<now, version, occ, faults, copy, life, tickVars, runVars,
                   overlap, swaps>>

(* UpdateTask refuses if the record is gone since GetTask. *)
UpdateTask(c) ==
    LET k == call[c].found IN
    /\ call[c].pc = "tasks" /\ k # <<>>
    /\ call[c].left.RemovedTaskIDs = {}
    /\ IF recs[k] # 0
       THEN /\ recs' = [recs EXCEPT ![k] = call[c].base + 1]
            /\ Continues(c, [call[c] EXCEPT !.found = <<>>,
                                            !.left.UpdatedTasks = @ \ {k[2]}])
       ELSE Returns(c) /\ UNCHANGED recs
    /\ UNCHANGED <<now, version, occ, faults, copy, life, tickVars, runVars,
                   overlap, swaps>>

(* A call that still has a store operation to do. *)
AtStore(c) ==
    \/ call[c].pc = "write"
    \/ call[c].pc \in {"register", "tasks"} /\ call[c].left.AddedTasks # {}
    \/ call[c].pc = "tasks" /\ NextTasks(c) # {}
    \/ call[c].pc \in {"list", "immediate"}
    \/ call[c].pc = "cancel" /\ call[c].doomed # {}

(* Any of them may fail, and the call with it. *)
Fails(c) ==
    /\ AtStore(c)
    /\ faults < MaxFaults
    /\ faults' = faults + 1
    /\ Returns(c)
    /\ UNCHANGED <<now, version, recs, occ, copy, life, tickVars, runVars, overlap,
                   swaps>>

-------------------------------------------------------------------------------
(* The policies: which of the Pending occurrences S are canceled, for a    *)
(* caller whose clock said m.                                              *)

ListPendingOccurrences == {t \in Times : occ[t] = "Pending"}

Immediate(S, m) == {t \in S : t > m}

Windowed(S, m) == {t \in S : t > m /\ t < m + Horizon}

(* All but the first of those to come. *)
Graceful(S, m) == {t \in Immediate(S, m) : \E u \in Immediate(S, m) : u < t}

AllPending(policy, m) ==  \* mutant of Canceled: no comparison with the clock
    ListPendingOccurrences

Canceled(policy, m) ==
    CASE policy = "graceful" -> Graceful(ListPendingOccurrences, m)
      [] policy = "windowed" -> Windowed(ListPendingOccurrences, m)
      [] OTHER -> Immediate(ListPendingOccurrences, m)

ListsDone(c) ==
    call[c].pc = "tasks" /\ call[c].left.AddedTasks = {} /\ NextTasks(c) = {}

(* applyScheduleUpdate, if there is a new ticker: it reads the clock. *)
ApplySchedule(c) ==
    /\ ListsDone(c)
    /\ call[c].update.NewTicker
    /\ Continues(c, [call[c] EXCEPT !.pc = "list", !.clock = now])
    /\ UNCHANGED <<now, storeVars, copy, life, tickVars, runVars, overlap, swaps>>

(* Then it lists.  The graceful policy lists again, as the immediate one,  *)
(* if it finds nothing to come.                                            *)
ListOccurrences(c) ==
    LET m == call[c].clock IN
    /\ call[c].pc \in {"list", "immediate"}
    /\ \E policy \in IF call[c].pc = "list" THEN Policies ELSE {"immediate"} :
          IF policy = "graceful" /\ Immediate(ListPendingOccurrences, m) = {}
          THEN Continues(c, [call[c] EXCEPT !.pc = "immediate"])
          ELSE Continues(c, [call[c] EXCEPT !.pc = "cancel",
                                            !.doomed = Canceled(policy, m)])
    /\ UNCHANGED <<now, storeVars, copy, life, tickVars, runVars, overlap, swaps>>

(* And writes what it has listed, record by record in the order of their   *)
(* IDs, whatever the records say by now.                                   *)
CancelOccurrence(c, t) ==
    /\ call[c].pc = "cancel"
    /\ t \in call[c].doomed
    /\ occ' = [occ EXCEPT ![t] = "Canceled"]
    /\ Continues(c, [call[c] EXCEPT !.doomed = @ \ {t}])
    /\ UNCHANGED <<now, version, recs, faults, copy, life, tickVars, runVars,
                   overlap, swaps>>

(* ApplyUpdate returns; UpdateJob goes on. *)
Applied(c) ==
    /\ \/ ListsDone(c) /\ ~call[c].update.NewTicker
       \/ call[c].pc = "cancel" /\ call[c].doomed = {}
    /\ IF c = Sched THEN Continues(c, [call[c] EXCEPT !.pc = "copy", !.clock = 0])
                    ELSE Returns(c)
    /\ UNCHANGED <<now, storeVars, copy, life, tickVars, runVars, overlap, swaps>>

-------------------------------------------------------------------------------
(* The end of a call: ApplyUpdate has no error to report. *)

TasksUnremoved(u) ==  \* mutant of UpdatedCopy: RemovedTaskIDs is overlooked
    [t \in Tasks |->
        IF t \in u.AddedTasks \/ (t \in u.UpdatedTasks /\ copy.revs[t] # 0)
        THEN copy.version + 1 ELSE copy.revs[t]]

(* job.Tasks as UpdateJob rebuilds it. *)
UpdatedCopy(u) ==
    [t \in Tasks |->
        IF t \in u.RemovedTaskIDs THEN 0
        ELSE IF t \in u.AddedTasks \/ (t \in u.UpdatedTasks /\ copy.revs[t] # 0)
        THEN copy.version + 1 ELSE copy.revs[t]]

(* s.running: Start sets it as its last step, and so does Shutdown. *)
Running == life \in {"running", "draining"}

LeaveOldTicker ==  \* mutant of ReplaceTicker: the old ticker is not stopped
    /\ ticker' = ticker + 1
    /\ ticking' = [ticking EXCEPT ![ticker + 1] =
                      IF Enabled /\ Running THEN "on" ELSE "new"]
    /\ swaps' = swaps \cup {life}

(* The old ticker is stopped and the new one started, if s.running.  The   *)
(* watcher is not told.                                                    *)
ReplaceTicker ==
    /\ ticker' = ticker + 1
    /\ ticking' = [ticking EXCEPT ![ticker] = IF @ = "on" THEN "off" ELSE @,
                                  ![ticker + 1] = IF Enabled /\ Running
                                                  THEN "on" ELSE "new"]
    /\ swaps' = swaps \cup {life}

UpdateCopy ==
    /\ call[Sched].pc = "copy"
    /\ copy' = [version |-> copy.version + 1, revs |-> UpdatedCopy(call[Sched].update)]
    /\ IF call[Sched].update.NewTicker THEN ReplaceTicker
                                       ELSE UNCHANGED <<ticker, ticking, swaps>>
    /\ Returns(Sched)
    /\ UNCHANGED <<now, storeVars, life, ch, runVars, overlap>>

Caller(c) ==
    \/ WriteJob(c)
    \/ \E t \in Tasks : CreateTask(c, t) \/ GetTask(c, t)
    \/ DeleteTask(c)
    \/ UpdateTask(c)
    \/ ApplySchedule(c) \/ ListOccurrences(c) \/ Applied(c)
    \/ \E t \in Times : CancelOccurrence(c, t)
    \/ c = Sched /\ (Registered \/ UpdateCopy)
-------------------------------------------------------------------------------
(* Start, the part with jobsMu: the ticker and its watcher. *)
StartTickers ==
    /\ life = "new" /\ JobsMuFree
    /\ life' = "starting"
    /\ IF copy.version > 0 /\ Enabled
       THEN /\ ticking' = [ticking EXCEPT ![ticker] = "on"]
            /\ watcher' = [pc |-> "select", of |-> ticker, at |-> 0]
       ELSE UNCHANGED <<ticking, watcher>>
    /\ UNCHANGED <<now, storeVars, copy, call, ticker, ch, run, overlap, swaps>>

(* Start returns, or Shutdown does, after its waiting. *)
LifeEnds(from, to) ==
    /\ life = from
    /\ life' = to
    /\ UNCHANGED <<now, storeVars, copy, call, tickVars, runVars, overlap, swaps>>

StartReturns == LifeEnds("starting", "running")
ShutdownReturns == LifeEnds("draining", "stopped")

Shutdown ==
    /\ life = "running" /\ JobsMuFree
    /\ life' = "draining"
    /\ ticking' = [ticking EXCEPT ![ticker] = IF @ = "on" THEN "off" ELSE @]
    /\ UNCHANGED <<now, storeVars, copy, call, ticker, ch, runVars, overlap, swaps>>

AdvanceOffByOne ==  \* mutant of Advance: the tick names the instant before
    /\ now < MaxTime
    /\ now' = now + 1
    /\ ch' = [k \in Tickers |-> IF ticking[k] = "on" THEN Append(ch[k], now)
                                                    ELSE ch[k]]
    /\ UNCHANGED <<storeVars, copy, call, life, ticker, ticking, runVars, overlap,
                   swaps>>

(* The clock moves on and every ticker that runs sends a tick. *)
Advance ==
    /\ now < MaxTime
    /\ now' = now + 1
    /\ ch' = [k \in Tickers |-> IF ticking[k] = "on" THEN Append(ch[k], now + 1)
                                                    ELSE ch[k]]
    /\ UNCHANGED <<storeVars, copy, call, life, ticker, ticking, runVars, overlap,
                   swaps>>

(* watchJob: a tick from the channel it evaluated on entering the select. *)
Receive ==
    /\ watcher.pc = "select"
    /\ ch[watcher.of] # <<>>
    /\ watcher' = [watcher EXCEPT !.pc = "handle", !.at = Head(ch[watcher.of])]
    /\ ch' = [ch EXCEPT ![watcher.of] = Tail(@)]
    /\ UNCHANGED <<now, storeVars, copy, call, life, ticker, ticking, run, overlap,
                   swaps>>

(* handleJobTrigger; the next select evaluates job.Ticker anew. *)
Handle ==
    LET t == watcher.at IN
    /\ watcher.pc = "handle"
    /\ IF occ[t] = "Absent"
       THEN /\ occ' = [occ EXCEPT ![t] = "Pending"]
            /\ run' = [run EXCEPT ![t] = "queued"]
       ELSE UNCHANGED <<occ, run>>
    /\ watcher' = [pc |-> "select", of |-> ticker, at |-> 0]
    /\ UNCHANGED <<now, version, recs, faults, copy, call, life, tickVars, overlap,
                   swaps>>

WatcherExits ==
    /\ watcher.pc = "select"
    /\ life \in {"draining", "stopped"}
    /\ watcher' = [pc |-> "off", of |-> 0, at |-> 0]
    /\ UNCHANGED <<now, storeVars, copy, call, life, tickVars, run, overlap, swaps>>

(* ExecuteJobOccurrence begins by overwriting the record. *)
ExecStart(t) ==
    /\ run[t] = "queued"
    /\ run' = [run EXCEPT ![t] = "started"]
    /\ occ' = [occ EXCEPT ![t] = "Running"]
    /\ UNCHANGED <<now, version, recs, faults, copy, call, life, tickVars, watcher,
                   overlap, swaps>>

Watch == Receive \/ Handle \/ WatcherExits

Next ==
    \/ RegisterJob
    \/ \E c \in Callers : ReadJob(c) \/ Caller(c) \/ Fails(c)
    \/ StartTickers \/ StartReturns \/ Shutdown \/ ShutdownReturns
    \/ Advance
    \/ Watch
    \/ \E t \in Times : ExecStart(t)

Spec == Init /\ [][Next]_vars

(* Goroutines go on unless they block, and time passes.  Nobody has to     *)
(* call anything.                                                          *)
Fairness ==
    /\ \A c \in Callers : WF_vars(Caller(c))
    /\ WF_vars(StartReturns \/ ShutdownReturns)
    /\ WF_vars(Advance)
    /\ WF_vars(Watch)
    /\ \A t \in Times : WF_vars(ExecStart(t))

FairSpec == Spec /\ Fairness

-------------------------------------------------------------------------------
AllIdle == \A c \in Callers : call[c].pc = "idle"

(* When the scheduler and the store agree on the version of a job they     *)
(* agree on its tasks, whatever updates failed half way: ApplyUpdate       *)
(* raises the version first, so a half-done update shows.  Not so after    *)
(* overlapping updates, which can take the version back, nor for a task    *)
(* whose ID another job uses: GetTask finds that job's record.             *)
StoreDescribesMemory ==
    AllIdle /\ ~overlap /\ copy.version = version =>
        \A t \in Tasks \ Foreign : recs[<<"job", t>>] = copy.revs[t]

(* The version check of UpdateJob and that of ApplyUpdate together: when   *)
(* UpdateJob changes the copy, the new version is that of the record; an   *)
(* update that came in between through ApplyUpdate is never passed over,   *)
(* unless the calls overlapped.                                            *)
AcceptedIsCurrent ==
    [][copy'.version # copy.version => overlap \/ copy'.version = version']_vars

(* An update cancels no occurrence that was already due when it read its   *)
(* clock, under any policy and however late its writes come: whatever was  *)
(* claimed before keeps its record, even if it is listed as Pending.       *)
UpdatesSpareWhatIsDue ==
    [][\A t \in Times : occ'[t] = "Canceled" /\ occ[t] # "Canceled" =>
           \E c \in Callers : call[c].clock < t /\ t <= now]_vars

(* UpdateJob, Start and Shutdown leave one ticker running at most: the     *)
(* current one while a started job runs, none after Shutdown.  Excepted    *)
(* are a ticker replaced between Start's loop and running = true, which    *)
(* is not started, and one replaced during Shutdown, which is.             *)
TickerFollowsLife ==
    /\ \A k \in Tickers : ticking[k] = "on" => k = ticker
    /\ life = "running" /\ watcher.pc # "off" /\ "starting" \notin swaps
          => ticking[ticker] = "on"
    /\ life = "stopped" /\ "draining" \notin swaps => ticking[ticker] # "on"

-------------------------------------------------------------------------------
(* update/update.go:165: "New occurrences will be generated by the         *)
(* scheduler's ticker when it restarts with the new ticker".  A tick of    *)
(* the job's ticker becomes an occurrence, unless the node is shut down or *)
(* the ticker replaced again.                                              *)
NewTickerIsHeard ==
    \A k \in Tickers, t \in Times :
        /\ ticker = k /\ ch[k] # <<>> /\ Head(ch[k]) = t
        /\ life = "running" /\ watcher.pc # "off"
        ~> occ[t] # "Absent" \/ life # "running" \/ ticker # k
===============================================================================
