-------------------------- MODULE SchedulerLifeProofs --------------------------
(***************************************************************************)
(* Start, shutdown, reaper and tickers of Scheduler: what a node's life    *)
(* says of its goroutines, for any nodes, jobs, workers and policies.      *)
(***************************************************************************)
EXTENDS SchedulerProofs

(* Only the goroutine of Start schedules before the pool runs, only the    *)
(* watchers do after it; Shutdown waits for the goroutines in this order.  *)
NodeInv(n) ==
    /\ \A w \in Workers : pc[n][w] \in {"off", "idle", "exec", "tasks"}
    /\ pc[n][Starter] # "select"
    /\ life[n] # "recovering" => pc[n][Starter] = "off"
    /\ life[n] \in {"down", "panicked", "new", "recovering"} =>
          queue[n] = <<>> /\ \A th \in Workers \cup Jobs : pc[n][th] = "off"
    /\ life[n] \in {"stopping", "stopped"} => WatchersOff(n)
    /\ life[n] \in {"stopped", "forced"} => WorkersOff(n)
    /\ life[n] # "down" => boots[n] > 0

LifeInv == \A n \in Nodes : NodeInv(n)

(* What the reaper marks, or has listed to be marked, was stale then and   *)
(* is stale now.                                                           *)
ReapInv ==
    /\ OnlyStaleReaped
    /\ \A n \in Nodes : \A o \in reap[n] : since[o] + StaleAfter < now

-------------------------------------------------------------------------------
(* Nothing a node's life is told by changes on the other nodes. *)
Elsewhere(n) ==
    \A m \in Nodes \ {n} : /\ pc'[m] = pc[m] /\ queue'[m] = queue[m]
                           /\ life'[m] = life[m] /\ boots'[m] = boots[m]

LEMMA OneNode ==
    ASSUME LifeInv, NEW n \in Nodes, Elsewhere(n), NodeInv(n)'
    PROVE  LifeInv'
<1>1. ASSUME NEW m \in Nodes \ {n} PROVE NodeInv(m)'
  <2>1. NodeInv(m)
    BY DEF LifeInv
  <2> QED
    BY <2>1 DEF Elsewhere, NodeInv, WatchersOff, WorkersOff
<1> QED
  BY <1>1 DEF LifeInv

LEMMA SameLife ==
    ASSUME LifeInv, UNCHANGED <<pc, queue, life, boots>>
    PROVE  LifeInv'
BY DEF LifeInv, NodeInv, WatchersOff, WorkersOff

(* A goroutine that runs moves on. *)
LEMMA ThreadMoves ==
    ASSUME TypeOK, LifeInv, NEW n \in Nodes, NEW th \in Threads, NEW p, NEW o,
           Goto(n, th, p, o), pc[n][th] # "off", UNCHANGED <<life, boots>>,
           th \in Workers => p \in {"off", "idle", "exec", "tasks"},
           th = Starter => p \notin {"select", "off"},
           \A m \in Nodes \ {n} : queue'[m] = queue[m],
           \/ queue'[n] = queue[n]
           \/ life[n] \notin {"down", "panicked", "new", "recovering",
                              "stopped", "forced"}
    PROVE  LifeInv'
<1>1. /\ pc'[n][th] = p
      /\ \A m \in Nodes \ {n} : pc'[m] = pc[m]
      /\ \A a \in Threads \ {th} : pc'[n][a] = pc[n][a]
  BY DEF Goto, TypeOK
<1>2. Elsewhere(n)
  BY <1>1 DEF Elsewhere
<1>3. NodeInv(n)
  BY DEF LifeInv
<1>4. NodeInv(n)'
  <2>1. \A w \in Workers : pc'[n][w] \in {"off", "idle", "exec", "tasks"}
    BY <1>1, <1>3, ThreadTypes DEF NodeInv
  <2>2. /\ pc'[n][Starter] # "select"
        /\ life'[n] # "recovering" => pc'[n][Starter] = "off"
    BY <1>1, <1>3, ThreadTypes DEF NodeInv
  <2>3. life'[n] \in {"down", "panicked", "new", "recovering"} =>
            queue'[n] = <<>> /\ \A a \in Workers \cup Jobs : pc'[n][a] = "off"
    BY <1>1, <1>3, ThreadTypes, ThreadsAssumption DEF NodeInv, Threads
  <2>4. life'[n] \in {"stopping", "stopped"} => WatchersOff(n)'
    BY <1>1, <1>3, ThreadTypes, ThreadsAssumption DEF NodeInv, WatchersOff
  <2>5. life'[n] \in {"stopped", "forced"} => WorkersOff(n)'
    BY <1>1, <1>3, ThreadTypes, ThreadsAssumption DEF NodeInv, WorkersOff
  <2>6. life'[n] # "down" => boots'[n] > 0
    BY <1>3 DEF NodeInv
  <2> QED
    BY <2>1, <2>2, <2>3, <2>4, <2>5, <2>6 DEF NodeInv
<1> QED
  BY <1>2, <1>4, OneNode

LEMMA ProcessLife ==
    ASSUME TypeOK, LifeInv, NEW n \in Nodes, Process(n)
    PROVE  LifeInv'
<1> USE BoundsAssumption, ThreadTypes
        DEF storeVars, recordVars, startVars, threadVars, tickVars, reapVars
<1>0. NodeInv(n)
  BY DEF LifeInv
<1>1. CASE Boot(n)
  <2>1. Elsewhere(n) /\ NodeInv(n)'
    BY <1>0, <1>1 DEF Boot, Up, Elsewhere, TypeOK, NodeInv
  <2> QED
    BY <2>1, OneNode
<1>2. CASE Crash(n)
  <2>1. Elsewhere(n) /\ NodeInv(n)'
    BY <1>0, <1>2 DEF Crash, Die, Elsewhere, TypeOK, NodeInv
  <2> QED
    BY <2>1, OneNode
<1>3. CASE BeginStart(n)
  <2>1. Elsewhere(n)
    BY <1>3 DEF BeginStart, Goto, Elsewhere, TypeOK
  <2>2. NodeInv(n)'
    BY <1>0, <1>3, ThreadsAssumption DEF BeginStart, Goto, TypeOK, NodeInv
  <2> QED
    BY <2>1, <2>2, OneNode
<1>4. CASE Shutdown(n)
  <2>1. Elsewhere(n) /\ NodeInv(n)'
    BY <1>0, <1>4 DEF Shutdown, Elsewhere, TypeOK, NodeInv
  <2> QED
    BY <2>1, OneNode
<1>5. CASE Drained(n)
  <2>1. Elsewhere(n) /\ NodeInv(n)'
    BY <1>0, <1>5 DEF Drained, Elsewhere, TypeOK, NodeInv, WatchersOff
  <2> QED
    BY <2>1, OneNode
<1>6. CASE ShutdownReturns(n)
  <2>1. Elsewhere(n)
    BY <1>6 DEF ShutdownReturns, Stopped, Elsewhere, TypeOK
  <2>2. NodeInv(n)'
    BY <1>0, <1>6 DEF ShutdownReturns, Stopped, PoolMuHeld, TypeOK, NodeInv,
                      WatchersOff, WorkersOff
  <2> QED
    BY <2>1, <2>2, OneNode
<1>7. ASSUME NEW j \in Jobs, RegisterJob(n, j) \/ RegisterJobFails(n, j)
      PROVE  LifeInv'
  BY <1>7, SameLife DEF RegisterJob, RegisterJobFails
<1> QED
  BY <1>1, <1>2, <1>3, <1>4, <1>5, <1>6, <1>7 DEF Process

LEMMA RecoverLife ==
    ASSUME TypeOK, LifeInv, NEW n \in Nodes, Recover(n)
    PROVE  LifeInv'
<1> USE ThreadTypes
        DEF storeVars, recordVars, startVars, threadVars, tickVars, reapVars
<1>0. NodeInv(n)
  BY DEF LifeInv
<1>1. CASE RecoverNext(n)
  <2>1. PICK o : Goto(n, Starter, "create", o)
    BY <1>1 DEF RecoverNext
  <2> QED
    BY <1>1, <2>1, ThreadsAssumption, ThreadMoves DEF RecoverNext
<1>2. CASE FinishStart(n)
  <2>1. Elsewhere(n)
    BY <1>2 DEF FinishStart, Elsewhere, TypeOK
  <2>2. /\ life'[n] = "running" /\ queue'[n] = <<>> /\ boots'[n] > 0
        /\ \A w \in Workers : pc'[n][w] = "idle"
    BY <1>0, <1>2 DEF FinishStart, TypeOK, NodeInv
  <2>3. pc'[n][Starter] = "off"
    <3>1. Starter \notin Workers \cup Watched(n)
      BY ThreadsAssumption DEF Watched, TypeOK
    <3> QED
      BY <1>2, <3>1 DEF FinishStart, TypeOK
  <2> QED
    BY <2>1, <2>2, <2>3, OneNode DEF NodeInv
<1>3. ASSUME NEW j \in Jobs, RecoverJob(n, j)
      PROVE  LifeInv'
  BY <1>3, SameLife DEF RecoverJob
<1>4. ASSUME NEW j \in Jobs, StartFails(n, j)
      PROVE  LifeInv'
  <2>1. Elsewhere(n)
    BY <1>4 DEF StartFails, Goto, Elsewhere, TypeOK
  <2>2. NodeInv(n)'
    BY <1>0, <1>4, ThreadsAssumption DEF StartFails, Goto, TypeOK, NodeInv
  <2> QED
    BY <2>1, <2>2, OneNode
<1> QED
  BY <1>1, <1>2, <1>3, <1>4 DEF Recover

LEMMA WatchLife ==
    ASSUME TypeOK, LifeInv, NEW n \in Nodes, NEW j \in Jobs,
           Ticker(n, j) \/ Watcher(n, j)
    PROVE  LifeInv'
<1> USE ThreadTypes
        DEF storeVars, recordVars, startVars, threadVars, tickVars, reapVars
<1>1. CASE Ticker(n, j)
  BY <1>1, SameLife DEF Ticker, Tick, TickerExit
<1>2. CASE UNCHANGED threadVars /\ Trigger(n, j)
  BY <1>2, SameLife DEF Trigger
<1>3. ASSUME NEW p, NEW o, Goto(n, j, p, o), pc[n][j] = "idle",
             UNCHANGED <<life, boots, queue>>
      PROVE  LifeInv'
  BY <1>3, ThreadsAssumption, ThreadMoves
<1>4. CASE WatcherExit(n, j)
  BY <1>3, <1>4 DEF WatcherExit
<1>5. CASE Trigger(n, j)
  BY <1>2, <1>3, <1>5 DEF Trigger
<1> QED
  BY <1>1, <1>4, <1>5 DEF Watcher

LEMMA WorkerLife ==
    ASSUME TypeOK, LifeInv, NEW n \in Nodes, NEW w \in Workers, Worker(n, w)
    PROVE  LifeInv'
<1> USE ThreadTypes
        DEF storeVars, recordVars, startVars, threadVars, tickVars, reapVars
<1>0. pc[n][w] = "idle" /\ UNCHANGED <<life, boots>>
  BY DEF Worker, Take, WorkerExit
<1>1. life[n] \notin {"down", "panicked", "new", "recovering", "stopped", "forced"}
  BY <1>0 DEF LifeInv, NodeInv, WorkersOff
<1>2. PICK p, o : p \in {"exec", "off"} /\ Goto(n, w, p, o)
  BY DEF Worker, Take, WorkerExit
<1>3. \A m \in Nodes \ {n} : queue'[m] = queue[m]
  BY DEF Worker, Take, WorkerExit, TypeOK
<1> QED
  BY <1>0, <1>1, <1>2, <1>3, ThreadsAssumption, ThreadMoves

LEMMA ScheduleLife ==
    ASSUME TypeOK, LifeInv, NEW n \in Nodes, NEW th \in Threads, Schedule(n, th)
    PROVE  LifeInv'
<1> USE ThreadTypes
        DEF storeVars, recordVars, startVars, threadVars, tickVars, reapVars
<1>0. NodeInv(n)
  BY DEF LifeInv
<1>1. th \notin Workers
  BY <1>0 DEF NodeInv, Schedule, CreateWins, CreateLoses, Submit, SubmitSend,
              SubmitRefused, SubmitPanic
<1>2. ASSUME NEW p \in {"submit", "idle", "exec"}, NEW o, Goto(n, th, p, o),
             pc[n][th] # "off", UNCHANGED <<life, boots, queue>>
      PROVE  LifeInv'
  BY <1>1, <1>2, ThreadMoves
<1>3. CASE CreateWins(n, th) \/ CreateLoses(n, th) \/ SubmitRefused(n, th)
  BY <1>2, <1>3 DEF CreateWins, Record, CreateLoses, SubmitRefused
<1>4. CASE Submit(n, th)
  <2>1. CASE PoolStarted(n)
    <3>1. th # Starter
      BY <1>0, <1>4, <2>1 DEF NodeInv, Submit, PoolStarted
    <3> QED
      BY <1>1, <1>4, <3>1, ThreadMoves DEF Submit
  <2>2. CASE ~PoolStarted(n)
    BY <1>2, <1>4, <2>2 DEF Submit
  <2> QED
    BY <2>1, <2>2
<1>5. CASE SubmitSend(n, th)
  <2>1. pc[n][th] = "select" /\ ~PoolClosed(n) /\ Goto(n, th, "idle", NoOcc)
        /\ UNCHANGED <<life, boots>>
    BY <1>5 DEF SubmitSend
  <2>2. th # Starter /\ th \in Jobs
    BY <1>0, <1>1, <2>1 DEF NodeInv, Threads
  <2>3. life[n] \notin {"down", "panicked", "new", "recovering", "stopped", "forced"}
    BY <1>0, <2>1, <2>2 DEF NodeInv, PoolClosed
  <2>4. \A m \in Nodes \ {n} : queue'[m] = queue[m]
    BY <1>5 DEF SubmitSend, TypeOK
  <2> QED
    BY <1>1, <2>1, <2>2, <2>3, <2>4, ThreadMoves
<1>6. CASE SubmitPanic(n, th)
  <2>1. Elsewhere(n)
    BY <1>6 DEF SubmitPanic, Die, Elsewhere, TypeOK
  <2>2. NodeInv(n)'
    BY <1>0, <1>6 DEF SubmitPanic, PoolClosed, Die, TypeOK, NodeInv
  <2> QED
    BY <2>1, <2>2, OneNode
<1> QED
  BY <1>3, <1>4, <1>5, <1>6 DEF Schedule

LEMMA ExecuteLife ==
    ASSUME TypeOK, LifeInv, NEW n \in Nodes, NEW th \in Threads, Execute(n, th)
    PROVE  LifeInv'
<1> USE DEF storeVars, recordVars, startVars, threadVars, tickVars, reapVars
<1>1. pc[n][th] # "off" /\ UNCHANGED <<life, boots, queue>>
  BY DEF Execute, ExecStart, ExecStartFails, ExecFinish
<1>2. PICK p, o : p \in {"tasks", "idle"} /\ Goto(n, th, p, o)
  BY DEF Execute, ExecStart, ExecStartFails, ExecFinish
<1> QED
  BY <1>1, <1>2, ThreadMoves

LEMMA NextLife == TypeOK /\ LifeInv /\ [Next]_vars => LifeInv'
<1> SUFFICES ASSUME TypeOK, LifeInv, [Next]_vars PROVE LifeInv'
  OBVIOUS
<1> USE DEF storeVars, recordVars, startVars, threadVars, tickVars, reapVars
<1>1. CASE UNCHANGED vars \/ Advance \/ \E j \in Jobs : DeleteJob(j)
  BY <1>1, SameLife DEF vars, Advance, DeleteJob
<1>2. ASSUME NEW n \in Nodes, Reaper(n)
      PROVE  LifeInv'
  BY <1>2, SameLife DEF Reaper, ReapList, ReapWrite, ReaperExit
<1> QED
  BY <1>1, <1>2, ProcessLife, RecoverLife, WatchLife, WorkerLife, ScheduleLife,
     ExecuteLife DEF Next, NodeStep

LEMMA LifeInvariance == Spec => [](TypeOK /\ HasOcc /\ ClaimInv /\ LifeInv)
<1>1. Init => LifeInv
  BY ThreadTypes DEF Init, LifeInv, NodeInv, WatchersOff, WorkersOff
<1> QED
  BY <1>1, NextLife, Invariance, PTL DEF Spec

(* When Shutdown returns in time, no watcher, worker or recovery of the    *)
(* node is left that runs an occurrence or could start one, and what is    *)
(* still in the pool's channel is Pending and has never been started.      *)
THEOREM ShutdownLeavesNoRun == Spec => []ShutdownQuiesces
<1>1. ClaimInv /\ LifeInv => ShutdownQuiesces
  <2> SUFFICES ASSUME ClaimInv, LifeInv, NEW n \in Nodes, life[n] = "stopped"
               PROVE  /\ \A th \in Threads : pc[n][th] = "off"
                      /\ \A o \in Occs :
                            InQueue(n, o) => status[o] = "Pending" /\ ran[o] = 0
    BY DEF ShutdownQuiesces
  <2>1. \A th \in Threads : pc[n][th] = "off"
    BY DEF LifeInv, NodeInv, WatchersOff, WorkersOff, Threads
  <2>2. \A o \in Occs : InQueue(n, o) => status[o] = "Pending" /\ ran[o] = 0
    BY DEF ClaimInv, HeldIsPending
  <2> QED
    BY <2>1, <2>2
<1> QED
  BY <1>1, LifeInvariance, PTL

(* What a step may do to a process: Submit panics on the closed channel    *)
(* only after the watchers failed to leave in time.                        *)
PanicsLate ==
    \A n \in Nodes :
        life[n] # "panicked" /\ life'[n] = "panicked" =>
            life[n] \in {"forcing", "forced"}

LEMMA NextPanicsLate == TypeOK /\ LifeInv /\ Next => PanicsLate
<1> SUFFICES ASSUME TypeOK, LifeInv, Next, NEW n \in Nodes,
                    life[n] # "panicked", life'[n] = "panicked"
             PROVE  life[n] \in {"forcing", "forced"}
  BY DEF PanicsLate
<1> USE DEF storeVars, recordVars, startVars, threadVars, tickVars, reapVars
<1>1. PICK m \in Nodes, th \in Threads : SubmitPanic(m, th)
  <2>1. ASSUME NEW m \in Nodes, Process(m) \/ Recover(m) PROVE FALSE
    BY <2>1 DEF Process, Boot, Crash, Die, BeginStart, Shutdown, Drained,
       ShutdownReturns, Stopped, RegisterJob, RegisterJobFails, Recover,
       RecoverNext, FinishStart, RecoverJob, StartFails, TypeOK
  <2>2. ASSUME NEW m \in Nodes, NEW th \in Threads, Schedule(m, th)
        PROVE  SubmitPanic(m, th)
    BY <2>2 DEF Schedule, CreateWins, Record, CreateLoses, Submit, SubmitSend,
       SubmitRefused
  <2>3. ASSUME NEW m \in Nodes, Reaper(m) PROVE UNCHANGED life
    BY <2>3 DEF Reaper, ReapList, ReapWrite, ReaperExit
  <2>4. ASSUME NEW m \in Nodes, NEW j \in Jobs, Ticker(m, j) \/ Watcher(m, j)
        PROVE  UNCHANGED life
    BY <2>4 DEF Ticker, Tick, TickerExit, Watcher, Trigger, WatcherExit
  <2>5. ASSUME NEW m \in Nodes, NEW w \in Workers, Worker(m, w)
        PROVE  UNCHANGED life
    BY <2>5 DEF Worker, Take, WorkerExit
  <2>6. ASSUME NEW m \in Nodes, NEW th \in Threads, Execute(m, th)
        PROVE  UNCHANGED life
    BY <2>6 DEF Execute, ExecStart, ExecStartFails, ExecFinish
  <2>7. ~Advance /\ ~\E j \in Jobs : DeleteJob(j)
    BY DEF Advance, DeleteJob
  <2> QED
    BY <2>1, <2>2, <2>3, <2>4, <2>5, <2>6, <2>7 DEF Next, NodeStep
<1>2. m = n /\ pc[n][th] = "select" /\ PoolClosed(n)
  BY <1>1 DEF SubmitPanic, Die, TypeOK
<1>3. NodeInv(n)
  BY DEF LifeInv
<1>4. th \in Jobs
  BY <1>2, <1>3 DEF NodeInv, Threads
<1> QED
  BY <1>2, <1>3, <1>4 DEF NodeInv, WatchersOff, PoolClosed

(* A process panics in Submit only if Shutdown's timeout passed before the *)
(* watchers had left.                                                      *)
THEOREM PanicOnlyAfterTimeout == Spec => PanicNeedsTimeout
<1>1. TypeOK /\ LifeInv /\ [Next]_vars => [PanicsLate]_vars
  BY NextPanicsLate
<1>2. Spec => [][PanicsLate]_vars
  BY <1>1, LifeInvariance, PTL DEF Spec
<1> QED
  BY <1>2 DEF PanicNeedsTimeout, PanicsLate

-------------------------------------------------------------------------------
(* Only ExecStart sets a StartTime, and the clock does not run back. *)
LEMMA NextReap ==
    ASSUME TypeOK, TypeOK', HasOcc, ClaimInv, ReapInv, [Next]_vars
    PROVE  ReapInv'
<1> USE BoundsAssumption
        DEF storeVars, recordVars, startVars, threadVars, tickVars, reapVars
<1>1. ASSUME now' \in {now, now + 1}, since' = since,
             \A o \in Occs : status'[o] = "Failed_Stale" =>
                 status[o] = "Failed_Stale" \/ \E n \in Nodes : o \in reap[n],
             \A n \in Nodes : \A o \in reap'[n] : o \in reap[n] \/ Stale(o)
      PROVE  ReapInv'
  <2>1. \A o \in Occs :
            since[o] + StaleAfter < now => since'[o] + StaleAfter < now'
    BY <1>1 DEF TypeOK
  <2>2. \A o \in Occs :
            status'[o] = "Failed_Stale" => since[o] + StaleAfter < now
    BY <1>1 DEF ReapInv, OnlyStaleReaped
  <2>3. \A n \in Nodes : \A o \in reap'[n] : o \in Occs /\ since[o] + StaleAfter < now
    BY <1>1 DEF ReapInv, Stale, TypeOK
  <2> QED
    BY <2>1, <2>2, <2>3 DEF ReapInv, OnlyStaleReaped
<1>2. CASE UNCHANGED vars \/ Advance \/ \E j \in Jobs : DeleteJob(j)
  BY <1>1, <1>2 DEF vars, Advance, DeleteJob
<1>3. ASSUME NEW n \in Nodes, Process(n)
      PROVE  ReapInv'
  <2>1. UNCHANGED <<now, since, status>>
    BY <1>3 DEF Process, Boot, Crash, Die, BeginStart, Shutdown, Drained,
       ShutdownReturns, Stopped, RegisterJob, RegisterJobFails
  <2>2. \A m \in Nodes : reap'[m] = reap[m] \/ reap'[m] = {}
    <3>1. CASE Crash(n)
      BY <3>1 DEF Crash, Die, TypeOK
    <3>2. CASE ~Crash(n)
      <4>1. UNCHANGED reap
        BY <1>3, <3>2 DEF Process, Boot, BeginStart, Shutdown, Drained,
           ShutdownReturns, Stopped, RegisterJob, RegisterJobFails
      <4> QED
        BY <4>1
    <3> QED
      BY <3>1, <3>2
  <2> QED
    BY <1>1, <2>1, <2>2
<1>4. ASSUME NEW n \in Nodes, Recover(n)
      PROVE  ReapInv'
  <2>1. UNCHANGED <<now, since, status, reap>>
    BY <1>4 DEF Recover, RecoverNext, FinishStart, RecoverJob, StartFails
  <2> QED
    BY <1>1, <2>1
<1>5. ASSUME NEW n \in Nodes, NEW j \in Jobs, Ticker(n, j) \/ Watcher(n, j)
      PROVE  ReapInv'
  <2>1. UNCHANGED <<now, since, status, reap>>
    BY <1>5 DEF Ticker, Tick, TickerExit, Watcher, Trigger, WatcherExit
  <2> QED
    BY <1>1, <2>1
<1>6. ASSUME NEW n \in Nodes, NEW w \in Workers, Worker(n, w)
      PROVE  ReapInv'
  <2>1. UNCHANGED <<now, since, status, reap>>
    BY <1>6 DEF Worker, Take, WorkerExit
  <2> QED
    BY <1>1, <2>1
<1>7. ASSUME NEW n \in Nodes, Reaper(n)
      PROVE  ReapInv'
  <2>1. UNCHANGED <<now, since>>
    BY <1>7 DEF Reaper, ReapList, ReapWrite, ReaperExit
  <2>2. \A o \in Occs : status'[o] = "Failed_Stale" =>
            status[o] = "Failed_Stale" \/ o \in reap[n]
    BY <1>7 DEF Reaper, ReapList, ReapWrite, ReaperExit, TypeOK
  <2>3. \A m \in Nodes : \A o \in reap'[m] : o \in reap[m] \/ Stale(o)
    <3>1. CASE ReapList(n)
      BY <3>1 DEF ReapList, TypeOK
    <3>2. CASE ReaperExit(n)
      BY <3>2 DEF ReaperExit
    <3>3. ASSUME NEW x \in Occs, ReapWrite(n, x)
          PROVE  \A m \in Nodes : \A o \in reap'[m] : o \in reap[m]
      <4>1. reap' = [reap EXCEPT ![n] = @ \ {x}]
        BY <3>3 DEF ReapWrite
      <4> QED
        BY <4>1 DEF TypeOK
    <3> QED
      BY <1>7, <3>1, <3>2, <3>3 DEF Reaper
  <2> QED
    BY <1>1, <2>1, <2>2, <2>3
<1>8. ASSUME NEW n \in Nodes, NEW th \in Threads, Schedule(n, th)
      PROVE  ReapInv'
  <2>1. UNCHANGED <<now, since>>
    BY <1>8 DEF Schedule, CreateWins, Record, CreateLoses, Submit, SubmitSend,
       SubmitRefused, SubmitPanic, Die
  <2>2. \A o \in Occs : status'[o] = "Failed_Stale" => status[o] = "Failed_Stale"
    BY <1>8 DEF Schedule, CreateWins, Record, CreateLoses, Submit, SubmitSend,
       SubmitRefused, SubmitPanic, Die, TypeOK
  <2>3. \A m \in Nodes : reap'[m] = reap[m] \/ reap'[m] = {}
    BY <1>8, SMTT(30) DEF Schedule, CreateWins, Record, CreateLoses, Submit, SubmitSend,
       SubmitRefused, SubmitPanic, Die, TypeOK
  <2> QED
    BY <1>1, <2>1, <2>2, <2>3
<1>9. ASSUME NEW n \in Nodes, NEW th \in Threads,
             ExecStartFails(n, th) \/ ExecFinish(n, th)
      PROVE  ReapInv'
  <2>1. UNCHANGED <<now, since, reap>>
    BY <1>9 DEF ExecStartFails, ExecFinish
  <2>2. \A o \in Occs : status'[o] = "Failed_Stale" => status[o] = "Failed_Stale"
    BY <1>9 DEF ExecStartFails, ExecFinish, TypeOK
  <2> QED
    BY <1>1, <2>1, <2>2
<1>10. ASSUME NEW n \in Nodes, NEW th \in Threads, ExecStart(n, th)
       PROVE  ReapInv'
  <2> DEFINE c == cur[n][th]
  <2>1. /\ c \in Occs /\ Holds(n, th, c) /\ pc[n][th] = "exec"
        /\ status' = [status EXCEPT ![c] = "Running"]
        /\ since' = [since EXCEPT ![c] = now]
        /\ UNCHANGED <<now, reap>>
    BY <1>10 DEF ExecStart, HasOcc, Holds, Claimed
  <2>2. ran[c] = 0
    BY <2>1 DEF ClaimInv, HeldIsPending
  <2>3. \A m \in Nodes : c \notin reap[m]
    BY <2>1, <2>2 DEF ClaimInv, StoreRemembers
  <2>4. status'[c] = "Running"
    BY <2>1 DEF TypeOK
  <2>5. \A o \in Occs : o # c => status'[o] = status[o] /\ since'[o] = since[o]
    BY <2>1 DEF TypeOK
  <2>6. OnlyStaleReaped'
    BY <2>1, <2>4, <2>5 DEF ReapInv, OnlyStaleReaped
  <2>7. \A m \in Nodes : \A o \in reap[m] : o \in Occs
    BY DEF TypeOK
  <2> HIDE DEF c
  <2> QED
    BY <2>1, <2>3, <2>5, <2>6, <2>7 DEF ReapInv
<1> QED
  BY <1>2, <1>3, <1>4, <1>5, <1>6, <1>7, <1>8, <1>9, <1>10 DEF Next, NodeStep, Execute

(* The reaper marks Failed_Stale only what was started more than the       *)
(* threshold ago, although it writes from a list it read earlier and       *)
(* checks nothing when it writes.                                          *)
THEOREM ReaperSparesTheFresh == Spec => []OnlyStaleReaped
<1>1. Init => ReapInv
  BY DEF Init, ReapInv, OnlyStaleReaped
<1>2. Spec => []ReapInv
  BY <1>1, NextReap, Invariance, PTL DEF Spec
<1>3. ReapInv => OnlyStaleReaped
  BY DEF ReapInv
<1> QED
  BY <1>2, <1>3, PTL

-------------------------------------------------------------------------------
(* Faults are counted up, and a disturbed node stays disturbed. *)
LEMMA FaultsGrow ==
    ASSUME TypeOK, Next
    PROVE  faults' = faults \/ faults' = faults + 1
<1> USE DEF storeVars, recordVars, startVars, threadVars, tickVars, reapVars, Fault
<1>1. ASSUME NEW n \in Nodes, Process(n) \/ Recover(n)
      PROVE  faults' = faults \/ faults' = faults + 1
  BY <1>1 DEF Process, Boot, Crash, Die, BeginStart, Shutdown, Drained,
     ShutdownReturns, Stopped, RegisterJob, RegisterJobFails, Recover,
     RecoverNext, FinishStart, RecoverJob, StartFails
<1>2. ASSUME NEW n \in Nodes, Reaper(n)
      PROVE  faults' = faults \/ faults' = faults + 1
  BY <1>2 DEF Reaper, ReapList, ReapWrite, ReaperExit
<1>3. ASSUME NEW n \in Nodes, NEW j \in Jobs, Ticker(n, j) \/ Watcher(n, j)
      PROVE  faults' = faults \/ faults' = faults + 1
  BY <1>3 DEF Ticker, Tick, TickerExit, Watcher, Trigger, WatcherExit
<1>4. ASSUME NEW n \in Nodes, NEW w \in Workers, Worker(n, w)
      PROVE  faults' = faults
  BY <1>4 DEF Worker, Take, WorkerExit
<1>5. ASSUME NEW n \in Nodes, NEW th \in Threads, Schedule(n, th)
      PROVE  faults' = faults \/ faults' = faults + 1
  BY <1>5 DEF Schedule, CreateWins, Record, CreateLoses, Submit, SubmitSend,
     SubmitRefused, SubmitPanic, Die
<1>6. ASSUME NEW n \in Nodes, NEW th \in Threads, Execute(n, th)
      PROVE  faults' = faults \/ faults' = faults + 1
  BY <1>6 DEF Execute, ExecStart, ExecStartFails, ExecFinish
<1>7. CASE Advance \/ \E j \in Jobs : DeleteJob(j)
  BY <1>7 DEF Advance, DeleteJob
<1> QED
  BY <1>1, <1>2, <1>3, <1>4, <1>5, <1>6, <1>7 DEF Next, NodeStep

(* The steps of a process that disturb its node, and those that do not. *)
LEMMA StaysDisturbed ==
    ASSUME TypeOK, LifeInv, NEW n \in Nodes, Undisturbed(n)',
           \/ Process(n) \/ Recover(n)
           \/ \E th \in Threads : Schedule(n, th)
    PROVE  /\ Undisturbed(n) /\ ~PoolClosed(n)
           /\ ~Crash(n) /\ ~ShutdownReturns(n)
<1> USE BoundsAssumption
        DEF storeVars, recordVars, startVars, threadVars, tickVars, reapVars
<1>0. boots[n] \in Nat /\ (life[n] # "down" => boots[n] > 0)
  BY DEF LifeInv, NodeInv, TypeOK
<1>1. CASE UNCHANGED <<life, boots>>
  <2>1. Undisturbed(n)
    BY <1>1 DEF Undisturbed
  <2>2. ~PoolClosed(n)
    BY <1>0, <2>1 DEF Undisturbed, PoolClosed
  <2>3. ~Crash(n) /\ ~ShutdownReturns(n)
    BY <1>1 DEF Crash, Up, Die, ShutdownReturns, Stopped, PoolMuHeld, TypeOK
  <2> QED
    BY <2>1, <2>2, <2>3
<1>2. CASE Boot(n)
  BY <1>0, <1>2 DEF Boot, Up, TypeOK, Undisturbed, PoolClosed, Crash,
                    ShutdownReturns, PoolMuHeld
<1>3. CASE Crash(n) \/ \E th \in Threads : SubmitPanic(n, th)
  BY <1>0, <1>3 DEF Crash, Up, SubmitPanic, PoolClosed, Die, TypeOK, Undisturbed
<1>4. CASE BeginStart(n) \/ Shutdown(n) \/ FinishStart(n)
           \/ \E j \in Jobs : StartFails(n, j)
  BY <1>0, <1>4 DEF BeginStart, Shutdown, FinishStart, StartFails, TypeOK,
     Undisturbed, PoolClosed, Crash, Die, ShutdownReturns, PoolMuHeld
<1>5. CASE Drained(n) \/ ShutdownReturns(n)
  BY <1>0, <1>5 DEF Drained, ShutdownReturns, Stopped, PoolMuHeld, TypeOK,
     Undisturbed
<1> QED
  BY <1>1, <1>2, <1>3, <1>4, <1>5 DEF Process, RegisterJob, RegisterJobFails,
     Recover, RecoverNext, RecoverJob, Schedule, CreateWins, Record, CreateLoses,
     Submit, SubmitSend, SubmitRefused

(* A step after which every holder still holds what it held and no record  *)
(* becomes Pending or Running.                                             *)
Keeps ==
    /\ \A n \in Nodes, th \in Threads :
          pc[n][th] \in Claimed => pc'[n][th] \in Claimed /\ cur'[n][th] = cur[n][th]
    /\ queue' = queue
    /\ \A o \in Occs : status'[o] = status[o] \/ status'[o] \in Final

LEMMA KeepsHolders ==
    ASSUME Keeps, NEW o \in Occs, status'[o] \in {"Pending", "Running"},
           status[o] \in {"Pending", "Running"} => Held(o)
    PROVE  Held(o)'
<1>1. Held(o)
  BY DEF Keeps, Final
<1> QED
  BY <1>1 DEF Keeps, Held, Holds, InQueue

LEMMA NextOrphans ==
    ASSUME TypeOK, TypeOK', HasOcc, ClaimInv, LifeInv, NoOrphans, Next
    PROVE  NoOrphans'
<1> SUFFICES ASSUME faults' = 0, \A n \in Nodes : Undisturbed(n)',
                    NEW o \in Occs, status'[o] \in {"Pending", "Running"}
             PROVE  Held(o)'
  BY DEF NoOrphans
<1> USE ThreadTypes, BoundsAssumption
        DEF storeVars, recordVars, startVars, threadVars, tickVars, reapVars
<1>1. faults = 0
  <2>1. faults' = faults \/ faults' = faults + 1
    BY FaultsGrow
  <2>2. faults \in Nat
    BY DEF TypeOK
  <2> QED
    BY <2>1, <2>2
<1>2. ASSUME \A n \in Nodes : Undisturbed(n), Keeps
      PROVE  Held(o)'
  BY <1>1, <1>2, KeepsHolders DEF NoOrphans
<1>3. ASSUME UNCHANGED <<life, boots>>
      PROVE  \A n \in Nodes : Undisturbed(n)
  BY <1>3 DEF Undisturbed
<1>4. ASSUME NEW n \in Nodes,
             \/ Process(n) \/ Recover(n) \/ \E th \in Threads : Schedule(n, th)
      PROVE  /\ \A m \in Nodes : Undisturbed(m)
             /\ ~PoolClosed(n) /\ ~Crash(n) /\ ~ShutdownReturns(n)
  <2>1. \A m \in Nodes \ {n} : life'[m] = life[m] /\ boots'[m] = boots[m]
    BY <1>4, ZenonT(30) DEF Process, Boot, Crash, Die, BeginStart, Shutdown, Drained,
       ShutdownReturns, Stopped, RegisterJob, RegisterJobFails, Recover,
       RecoverNext, FinishStart, RecoverJob, StartFails, Schedule, CreateWins,
       Record, CreateLoses, Submit, SubmitSend, SubmitRefused, SubmitPanic, TypeOK
  <2>2. \A m \in Nodes \ {n} : Undisturbed(m)
    BY <2>1 DEF Undisturbed
  <2>3. /\ Undisturbed(n) /\ ~PoolClosed(n)
        /\ ~Crash(n) /\ ~ShutdownReturns(n)
    BY <1>4, StaysDisturbed
  <2> QED
    BY <2>2, <2>3
<1>5. CASE Advance \/ \E j \in Jobs : DeleteJob(j)
  <2>1. Keeps /\ UNCHANGED <<life, boots>>
    BY <1>5 DEF Advance, DeleteJob, Keeps
  <2> QED
    BY <1>2, <1>3, <2>1
<1>6. ASSUME NEW n \in Nodes, Process(n)
      PROVE  Held(o)'
  <2>1. CASE BeginStart(n)
    <3>1. pc[n][Starter] = "off" /\ Goto(n, Starter, "idle", NoOcc)
          /\ UNCHANGED <<status, queue>>
      BY <2>1 DEF BeginStart, LifeInv, NodeInv
    <3>2. Keeps
      BY <3>1, GotoEffect DEF Keeps, Claimed
    <3> QED
      BY <1>2, <1>4, <1>6, <3>2
  <2>2. CASE ~BeginStart(n)
    <3>1. Keeps
      BY <1>4, <1>6, <2>2 DEF Process, Boot, Shutdown, Drained, RegisterJob,
         RegisterJobFails, Keeps
    <3> QED
      BY <1>2, <1>4, <1>6, <3>1
  <2> QED
    BY <2>1, <2>2
<1>7. ASSUME NEW n \in Nodes, Recover(n)
      PROVE  Held(o)'
  <2>1. UNCHANGED <<status, queue>>
    BY <1>7 DEF Recover, RecoverNext, FinishStart, RecoverJob, StartFails
  <2>2. \A th \in Threads : pc[n][th] \in Claimed =>
            \E j \in Jobs : RecoverJob(n, j)
    BY <1>7 DEF Recover, RecoverNext, FinishStart, StartFails, LifeInv, NodeInv,
                Threads, Claimed
  <2>3. CASE \E j \in Jobs : RecoverJob(n, j)
    BY <1>2, <1>4, <1>7, <2>3 DEF RecoverJob, Keeps
  <2>4. CASE ~\E j \in Jobs : RecoverJob(n, j)
    <3>1. \A m \in Nodes \ {n} : pc'[m] = pc[m] /\ cur'[m] = cur[m]
      <4>1. CASE FinishStart(n)
        BY <4>1 DEF FinishStart, TypeOK
      <4>2. CASE RecoverNext(n)
        BY <4>2 DEF RecoverNext, Goto, TypeOK
      <4>3. CASE \E j \in Jobs : StartFails(n, j)
        BY <4>3 DEF StartFails, Goto, TypeOK
      <4> QED
        BY <1>7, <2>4, <4>1, <4>2, <4>3 DEF Recover
    <3>2. Keeps
      BY <2>1, <2>2, <2>4, <3>1 DEF Keeps
    <3> QED
      BY <1>2, <1>4, <1>7, <3>2
  <2> QED
    BY <2>3, <2>4
<1>8. ASSUME NEW n \in Nodes, Reaper(n)
      PROVE  Held(o)'
  <2>1. UNCHANGED <<pc, cur, queue, life, boots>>
    BY <1>8 DEF Reaper, ReapList, ReapWrite, ReaperExit
  <2>2. \A x \in Occs : status'[x] = status[x] \/ status'[x] \in Final
    BY <1>8 DEF Reaper, ReapList, ReapWrite, ReaperExit, TypeOK, Final
  <2> QED
    BY <1>2, <1>3, <2>1, <2>2 DEF Keeps
<1>9. ASSUME NEW n \in Nodes, NEW j \in Jobs, Ticker(n, j) \/ Watcher(n, j)
      PROVE  Held(o)'
  <2>1. UNCHANGED <<queue, life, boots, status>>
    BY <1>9 DEF Ticker, Tick, TickerExit, Watcher, Trigger, WatcherExit
  <2>2. \/ UNCHANGED <<pc, cur>>
        \/ pc[n][j] = "idle" /\ \E p, c : Goto(n, j, p, c)
    BY <1>9 DEF Ticker, Tick, TickerExit, Watcher, Trigger, WatcherExit
  <2>3. Keeps
    BY <2>1, <2>2, GotoEffect DEF Keeps, Claimed
  <2> QED
    BY <1>2, <1>3, <2>1, <2>3
<1>10. ASSUME NEW n \in Nodes, NEW w \in Workers, WorkerExit(n, w)
       PROVE  Held(o)'
  <2>1. /\ UNCHANGED <<queue, life, boots, status>>
        /\ pc[n][w] = "idle" /\ Goto(n, w, "off", NoOcc)
    BY <1>10 DEF WorkerExit
  <2>2. Keeps
    BY <2>1, GotoEffect DEF Keeps, Claimed
  <2> QED
    BY <1>2, <1>3, <2>1, <2>2
<1>11. ASSUME NEW n \in Nodes, NEW w \in Workers, Take(n, w)
       PROVE  Held(o)'
  <2> DEFINE h == Head(queue[n])
  <2>1. /\ UNCHANGED <<life, boots, status>> /\ pc[n][w] = "idle"
        /\ queue' = [queue EXCEPT ![n] = Tail(@)]
        /\ Goto(n, w, "exec", h)
        /\ queue[n] # <<>>
    BY <1>11 DEF Take
  <2>2. Held(o)
    BY <1>1, <1>3, <2>1 DEF NoOrphans
  <2>3. CASE o = h
    <3>1. Holds(n, w, o)'
      BY <2>1, <2>3, GotoEffect DEF Holds, Claimed
    <3> QED
      BY <3>1 DEF Held
  <2>4. CASE \E m \in Nodes, th \in Threads : Holds(m, th, o)
    <3>1. PICK m \in Nodes, th \in Threads : Holds(m, th, o)
      BY <2>4
    <3>2. pc'[m][th] = pc[m][th] /\ cur'[m][th] = cur[m][th]
      BY <2>1, <3>1, GotoEffect DEF Holds, Claimed
    <3>3. Holds(m, th, o)'
      BY <3>1, <3>2 DEF Holds
    <3> QED
      BY <3>3 DEF Held
  <2>5. ASSUME o # h, NEW m \in Nodes, InQueue(m, o)
        PROVE  InQueue(m, o)'
    <3>1. CASE m # n
      BY <2>1, <2>5, <3>1 DEF InQueue, TypeOK
    <3>2. CASE m = n
      <4>1. /\ Len(queue[n]) \in Nat \ {0} /\ h = queue[n][1]
            /\ Len(queue'[n]) = Len(queue[n]) - 1
            /\ \A i \in 1 .. Len(queue[n]) - 1 : queue'[n][i] = queue[n][i + 1]
        BY <2>1 DEF TypeOK
      <4>2. PICK i \in 1 .. Len(queue[n]) : queue[n][i] = o
        BY <2>5, <3>2 DEF InQueue
      <4>3. i # 1
        BY <2>5, <4>1, <4>2
      <4> HIDE DEF h
      <4>4. i - 1 \in 1 .. Len(queue[n]) - 1 /\ (i - 1) + 1 = i
        BY <4>1, <4>3
      <4>5. queue'[n][i - 1] = o /\ i - 1 \in 1 .. Len(queue'[n])
        BY <4>1, <4>2, <4>4
      <4> QED
        BY <3>2, <4>5 DEF InQueue
    <3> QED
      BY <3>1, <3>2
  <2> QED
    BY <2>2, <2>3, <2>4, <2>5 DEF Held
<1>12. ASSUME NEW n \in Nodes, NEW th \in Threads, Schedule(n, th)
       PROVE  Held(o)'
  <2>1. CASE CreateLoses(n, th) \/ Submit(n, th)
    <3>1. /\ UNCHANGED <<queue, status>> /\ pc[n][th] \in {"create", "submit"}
          /\ \/ pc[n][th] = "create" /\ Goto(n, th, "idle", NoOcc)
             \/ \E p \in {"select", "exec"} : Goto(n, th, p, cur[n][th])
      BY <2>1 DEF CreateLoses, Submit
    <3>2. Keeps
      BY <3>1, GotoEffect DEF Keeps, Claimed
    <3> QED
      BY <1>2, <1>4, <1>12, <3>2
  <2>2. CASE CreateWins(n, th)
    <3> DEFINE c == cur[n][th]
    <3>1. /\ status' = [status EXCEPT ![c] = "Pending"] /\ queue' = queue
          /\ Goto(n, th, "submit", c) /\ pc[n][th] = "create"
      BY <2>2 DEF CreateWins, Record
    <3>2. CASE o = c
      <4>1. Holds(n, th, o)'
        BY <3>1, <3>2, GotoEffect DEF Holds, Claimed
      <4> QED
        BY <4>1 DEF Held
    <3>3. CASE o # c
      <4>1. status'[o] = status[o]
        BY <3>1, <3>3 DEF TypeOK
      <4>2. Held(o)
        BY <1>1, <1>4, <1>12, <4>1 DEF NoOrphans
      <4>3. \A m \in Nodes, a \in Threads : Holds(m, a, o) => Holds(m, a, o)'
        BY <3>1, GotoEffect DEF Holds, Claimed
      <4>4. \A m \in Nodes : InQueue(m, o) => InQueue(m, o)'
        BY <3>1 DEF InQueue
      <4> QED
        BY <4>2, <4>3, <4>4 DEF Held
    <3> QED
      BY <3>2, <3>3
  <2>3. CASE SubmitSend(n, th)
    <3> DEFINE c == cur[n][th]
    <3>1. /\ status' = status /\ queue' = [queue EXCEPT ![n] = Append(@, c)]
          /\ Goto(n, th, "idle", NoOcc) /\ pc[n][th] = "select"
      BY <2>3 DEF SubmitSend
    <3>2. c \in Occs
      BY <3>1 DEF HasOcc
    <3>3. /\ Len(queue'[n]) = Len(queue[n]) + 1
          /\ queue'[n][Len(queue[n]) + 1] = c
          /\ \A i \in 1 .. Len(queue[n]) : queue'[n][i] = queue[n][i]
          /\ Len(queue[n]) \in Nat
      BY <3>1, <3>2, SMTT(30) DEF TypeOK
    <3>4. \A m \in Nodes : m # n => queue'[m] = queue[m]
      BY <3>1 DEF TypeOK
    <3>5. Held(o)
      BY <1>1, <1>4, <1>12, <3>1 DEF NoOrphans
    <3>6. \A m \in Nodes : InQueue(m, o) => InQueue(m, o)'
      <4>1. CASE InQueue(n, o)
        <5>1. PICK i \in 1 .. Len(queue[n]) : queue[n][i] = o
          BY <4>1 DEF InQueue
        <5>2. i \in 1 .. Len(queue'[n]) /\ queue'[n][i] = o
          BY <3>3, <5>1
        <5> QED
          BY <3>4, <5>2 DEF InQueue
      <4> QED
        BY <3>4, <4>1 DEF InQueue
    <3>7. \A m \in Nodes, a \in Threads :
              Holds(m, a, o) => Holds(m, a, o)' \/ (m = n /\ a = th /\ o = c)
      BY <3>1, GotoEffect DEF Holds, Claimed
    <3>8. o = c => InQueue(n, o)'
      BY <3>3 DEF InQueue
    <3> QED
      BY <3>5, <3>6, <3>7, <3>8 DEF Held
  <2>4. ~SubmitRefused(n, th) /\ ~SubmitPanic(n, th)
    BY <1>4, <1>12 DEF SubmitRefused, SubmitPanic
  <2> QED
    BY <1>12, <2>1, <2>2, <2>3, <2>4 DEF Schedule
<1>13. ASSUME NEW n \in Nodes, NEW th \in Threads, Execute(n, th)
       PROVE  Held(o)'
  <2> DEFINE c == cur[n][th]
  <2>1. /\ UNCHANGED <<life, boots, queue>> /\ pc[n][th] \in {"exec", "tasks"}
    BY <1>13 DEF Execute, ExecStart, ExecStartFails, ExecFinish
  <2>2. c \in Occs
    BY <2>1 DEF HasOcc
  <2>3. ~ExecStartFails(n, th)
    BY <1>1 DEF ExecStartFails, Fault, TypeOK
  <2>4. \A x \in Occs : x # c => status'[x] = status[x]
    BY <1>13, <2>3 DEF Execute, ExecStart, ExecFinish, TypeOK
  <2>5. PICK p \in {"tasks", "idle"}, x \in {c, NoOcc} : Goto(n, th, p, x)
    BY <1>13 DEF Execute, ExecStart, ExecStartFails, ExecFinish
  <2>6. CASE o # c
    <3>1. Held(o)
      BY <1>1, <1>3, <2>1, <2>4, <2>6 DEF NoOrphans
    <3>2. \A m \in Nodes, a \in Threads : Holds(m, a, o) => Holds(m, a, o)'
      BY <2>5, <2>6, GotoEffect DEF Holds
    <3>3. \A m \in Nodes : InQueue(m, o) => InQueue(m, o)'
      BY <2>1 DEF InQueue
    <3> QED
      BY <3>1, <3>2, <3>3 DEF Held
  <2>7. CASE o = c
    <3>1. ~ExecFinish(n, th)
      BY <1>1, <2>2, <2>7 DEF ExecFinish, Fault, TypeOK
    <3>2. Goto(n, th, "tasks", c)
      BY <1>13, <2>3, <3>1 DEF Execute, ExecStart
    <3>3. Holds(n, th, o)'
      BY <2>7, <3>2, GotoEffect DEF Holds, Claimed
    <3> QED
      BY <3>3 DEF Held
  <2> QED
    BY <2>6, <2>7
<1> QED
  BY <1>5, <1>6, <1>7, <1>8, <1>9, <1>10, <1>11, <1>12, <1>13
  DEF Next, NodeStep, Worker

(* As long as no store operation fails and no process crashes or stops its *)
(* pool, every occurrence that is Pending or Running in the store is in    *)
(* the hands of a goroutine or in a pool's queue.                          *)
THEOREM NothingIsOrphaned == Spec => []NoOrphans
<1> DEFINE I == TypeOK /\ HasOcc /\ ClaimInv /\ LifeInv
<1>1. Init => NoOrphans
  BY DEF Init, NoOrphans
<1>2. I /\ I' /\ NoOrphans /\ [Next]_vars => NoOrphans'
  <2>1. CASE UNCHANGED vars
    BY <2>1 DEF vars, storeVars, recordVars, threadVars, NoOrphans, Undisturbed,
                Held, Holds, InQueue
  <2> QED
    BY <2>1, NextOrphans
<1>3. Spec => []I
  BY LifeInvariance
<1> HIDE DEF I
<1> QED
  BY <1>1, <1>2, <1>3, PTL DEF Spec

-------------------------------------------------------------------------------
(***************************************************************************)
(* No gap between recovery and ticker: an instant the ticker has passed is *)
(* in its channel, with the watcher, on record, or was dropped because the *)
(* channel was full or Skip turned it down.                                *)
(***************************************************************************)

(* There is no ticker before Start has finished. *)
TickNode(n) ==
    \A j \in CatchUp :
        life[n] \in {"down", "panicked", "new", "recovering"} =>
            pos[n][j] = 0 /\ ticks[n][j] = <<>>

GapNode(n) ==
    \A j \in CatchUp :
        faults = 0 /\ life[n] = "running" /\ pos[n][j] > 0 =>
            \A t \in Times : OnItsWay(n, j, t)

GapInv == \A n \in Nodes : TickNode(n) /\ GapNode(n)

(* A step in which neither tickers nor watchers of the node move, except   *)
(* that a watcher may have written its record.                             *)
Steady(n) ==
    /\ life'[n] = life[n] /\ ticks'[n] = ticks[n] /\ pos'[n] = pos[n]
    /\ dropped'[n] = dropped[n]
    /\ \A j \in Jobs : pc[n][j] = "create" =>
          \/ pc'[n][j] = "create" /\ cur'[n][j] = cur[n][j]
          \/ status'[cur[n][j]] # "Absent"
          \/ faults' > 0

LEMMA SteadyKeeps ==
    ASSUME TypeOK, TypeOK', NotRevived, faults' = faults \/ faults' = faults + 1,
           NEW n \in Nodes, TickNode(n), GapNode(n), Steady(n)
    PROVE  TickNode(n)' /\ GapNode(n)'
<1>1. TickNode(n)'
  BY DEF TickNode, Steady
<1>2. ASSUME NEW j \in CatchUp, NEW t \in Times, faults' = 0, life'[n] = "running",
             pos'[n][j] > 0
      PROVE  OnItsWay(n, j, t)'
  <2>1. faults = 0
    BY <1>2 DEF TypeOK
  <2>2. OnItsWay(n, j, t)
    BY <1>2, <2>1 DEF GapNode, Steady
  <2>3. j \in Jobs /\ <<j, t>> \in Occs
    BY PoliciesAssumption DEF Occs
  <2>4. status[<<j, t>>] # "Absent" => status'[<<j, t>>] # "Absent"
    BY <2>3 DEF NotRevived
  <2> QED
    BY <1>2, <2>2, <2>3, <2>4 DEF OnItsWay, Steady
<1> QED
  BY <1>1, <1>2 DEF GapNode

(* A step of one node leaves the others steady. *)
LEMMA OthersSteady ==
    ASSUME TypeOK, NEW m \in Nodes, NodeStep(m), NEW n \in Nodes, n # m
    PROVE  Steady(n)
<1> USE ThreadTypes
        DEF storeVars, recordVars, startVars, threadVars, tickVars, reapVars, Goto
<1> SUFFICES /\ life'[n] = life[n] /\ ticks'[n] = ticks[n] /\ pos'[n] = pos[n]
             /\ pc'[n] = pc[n] /\ cur'[n] = cur[n]
             /\ dropped'[n] = dropped[n]
  BY DEF Steady
<1>1. CASE Process(m)
  BY <1>1 DEF Process, Boot, Crash, Die, BeginStart, Shutdown, Drained,
     ShutdownReturns, Stopped, RegisterJob, RegisterJobFails, TypeOK
<1>2. CASE Recover(m)
  BY <1>2 DEF Recover, RecoverNext, FinishStart, RecoverJob, StartFails, TypeOK
<1>3. CASE Reaper(m)
  BY <1>3 DEF Reaper, ReapList, ReapWrite, ReaperExit
<1>4. ASSUME NEW j \in Jobs, Ticker(m, j) \/ Watcher(m, j)
      PROVE  /\ life'[n] = life[n] /\ ticks'[n] = ticks[n] /\ pos'[n] = pos[n]
             /\ pc'[n] = pc[n] /\ cur'[n] = cur[n]
             /\ dropped'[n] = dropped[n]
  BY <1>4 DEF Ticker, Tick, TickerExit, Watcher, Trigger, WatcherExit, TypeOK
<1>5. ASSUME NEW w \in Workers, Worker(m, w)
      PROVE  /\ life'[n] = life[n] /\ ticks'[n] = ticks[n] /\ pos'[n] = pos[n]
             /\ pc'[n] = pc[n] /\ cur'[n] = cur[n]
             /\ dropped'[n] = dropped[n]
  BY <1>5 DEF Worker, Take, WorkerExit, TypeOK
<1>6. ASSUME NEW th \in Threads, Schedule(m, th)
      PROVE  /\ life'[n] = life[n] /\ ticks'[n] = ticks[n] /\ pos'[n] = pos[n]
             /\ pc'[n] = pc[n] /\ cur'[n] = cur[n]
             /\ dropped'[n] = dropped[n]
  BY <1>6 DEF Schedule, CreateWins, Record, CreateLoses, Submit, SubmitSend,
     SubmitRefused, SubmitPanic, Die, TypeOK
<1>7. ASSUME NEW th \in Threads, Execute(m, th)
      PROVE  /\ life'[n] = life[n] /\ ticks'[n] = ticks[n] /\ pos'[n] = pos[n]
             /\ pc'[n] = pc[n] /\ cur'[n] = cur[n]
             /\ dropped'[n] = dropped[n]
  BY <1>7 DEF Execute, ExecStart, ExecStartFails, ExecFinish, TypeOK
<1> QED
  BY <1>1, <1>2, <1>3, <1>4, <1>5, <1>6, <1>7 DEF NodeStep

(* A goroutine that is no watcher, or a watcher that is past its record.   *)
LEMMA GotoSteady ==
    ASSUME TypeOK, NEW n \in Nodes, NEW th \in Threads, NEW p, NEW o,
           Goto(n, th, p, o), UNCHANGED <<life, ticks, pos, dropped>>,
           \/ th \notin Jobs \/ pc[n][th] # "create"
           \/ status'[cur[n][th]] # "Absent" \/ faults' > 0
    PROVE  Steady(n)
BY ThreadTypes, GotoEffect DEF Steady

LEMMA NodeSteady ==
    ASSUME TypeOK, TypeOK', HasOcc, NEW n \in Nodes,
           \/ \E j \in Jobs : RegisterJob(n, j) \/ RegisterJobFails(n, j)
           \/ RecoverNext(n) \/ \E j \in Jobs : RecoverJob(n, j)
           \/ Reaper(n) \/ \E j \in Jobs : WatcherExit(n, j)
           \/ \E w \in Workers : Worker(n, w)
           \/ \E th \in Threads :
                 \/ Schedule(n, th) /\ ~SubmitPanic(n, th)
                 \/ Execute(n, th)
    PROVE  Steady(n)
<1> USE ThreadTypes, ThreadsAssumption, BoundsAssumption
        DEF storeVars, recordVars, startVars, threadVars, tickVars, reapVars
<1>1. CASE UNCHANGED <<life, tickVars, pc, cur>>
  BY <1>1 DEF Steady
<1>2. CASE RecoverNext(n)
  <2>1. PICK o : Goto(n, Starter, "create", o)
    BY <1>2 DEF RecoverNext
  <2> QED
    BY <1>2, <2>1, GotoSteady DEF RecoverNext
<1>3. ASSUME NEW j \in Jobs, WatcherExit(n, j)
      PROVE  Steady(n)
  BY <1>3, GotoSteady DEF WatcherExit
<1>4. ASSUME NEW w \in Workers, Worker(n, w)
      PROVE  Steady(n)
  BY <1>4, GotoSteady DEF Worker, Take, WorkerExit
<1>5. ASSUME NEW th \in Threads, Execute(n, th)
      PROVE  Steady(n)
  BY <1>5, GotoSteady DEF Execute, ExecStart, ExecStartFails, ExecFinish
<1>6. ASSUME NEW th \in Threads, Submit(n, th) \/ SubmitSend(n, th) \/ SubmitRefused(n, th)
      PROVE  Steady(n)
  BY <1>6, GotoSteady DEF Submit, SubmitSend, SubmitRefused
<1>7. ASSUME NEW th \in Threads, CreateWins(n, th)
      PROVE  Steady(n)
  <2>1. status'[cur[n][th]] # "Absent"
    BY <1>7 DEF CreateWins, Record, HasOcc, TypeOK
  <2> QED
    BY <1>7, <2>1, GotoSteady DEF CreateWins, Record
<1>8. ASSUME NEW th \in Threads, CreateLoses(n, th)
      PROVE  Steady(n)
  <2>1. status'[cur[n][th]] # "Absent" \/ faults' > 0
    BY <1>8 DEF CreateLoses, Fault, TypeOK
  <2> QED
    BY <1>8, <2>1, GotoSteady DEF CreateLoses
<1> QED
  BY <1>1, <1>2, <1>3, <1>4, <1>5, <1>6, <1>7, <1>8 DEF Schedule, RegisterJob,
     RegisterJobFails, RecoverJob, Reaper, ReapList, ReapWrite, ReaperExit

(* The node's life changes. *)
LEMMA LifeChangeKeepsGap ==
    ASSUME TypeOK, NEW n \in Nodes, TickNode(n),
           \/ Boot(n) \/ Crash(n) \/ BeginStart(n) \/ Shutdown(n) \/ Drained(n)
           \/ ShutdownReturns(n) \/ FinishStart(n)
           \/ \E j \in Jobs : StartFails(n, j)
           \/ \E th \in Threads : SubmitPanic(n, th)
    PROVE  TickNode(n)' /\ GapNode(n)'
<1> USE PoliciesAssumption
        DEF storeVars, recordVars, startVars, threadVars, tickVars, reapVars
<1>1. CASE FinishStart(n)
  <2>1. \A j \in CatchUp : pos'[n][j] \in {0, 1} /\ ticks'[n][j] = <<>>
    BY <1>1 DEF FinishStart, FirstInstant, TickNode, TypeOK
  <2>2. \A t \in Times : 1 <= t /\ 0 <= t
    BY BoundsAssumption DEF Times
  <2>3. GapNode(n)'
    BY <2>1, <2>2 DEF GapNode, OnItsWay
  <2>4. life'[n] = "running"
    BY <1>1 DEF FinishStart, TypeOK
  <2> QED
    BY <2>3, <2>4 DEF TickNode
<1>2. CASE Crash(n) \/ \E th \in Threads : SubmitPanic(n, th)
  <2>1. /\ life'[n] \in {"down", "panicked"}
        /\ \A j \in CatchUp : pos'[n][j] = 0 /\ ticks'[n][j] = <<>>
    BY <1>2 DEF Crash, SubmitPanic, Die, TypeOK
  <2> QED
    BY <2>1 DEF TickNode, GapNode
<1>3. CASE \/ Boot(n) \/ BeginStart(n) \/ Shutdown(n) \/ Drained(n)
           \/ ShutdownReturns(n) \/ \E j \in Jobs : StartFails(n, j)
  <2>1. /\ life'[n] # "running" /\ ticks' = ticks /\ pos' = pos
        /\ life'[n] \in {"down", "panicked", "new", "recovering"} =>
              life[n] \in {"down", "panicked", "new", "recovering"}
    BY <1>3 DEF Boot, Up, BeginStart, Shutdown, Drained, ShutdownReturns,
       PoolMuHeld, Stopped, StartFails, TypeOK
  <2> QED
    BY <2>1 DEF TickNode, GapNode
<1> QED
  BY <1>1, <1>2, <1>3

(* One ticker or watcher of the node moves. *)
LEMMA TickKeepsGap ==
    ASSUME TypeOK, NEW n \in Nodes, TickNode(n), GapNode(n),
           NEW j \in Jobs, Tick(n, j)
    PROVE  TickNode(n)' /\ GapNode(n)'
<1> USE PoliciesAssumption, BoundsAssumption
        DEF storeVars, recordVars, startVars, threadVars, reapVars
<1>1. /\ UNCHANGED <<life, faults, status, pc, cur>>
      /\ pos'[n][j] = NextInstant(j, pos[n][j])
      /\ \A k \in Jobs \ {j} : pos'[n][k] = pos[n][k]
      /\ pos[n][j] \in Times /\ pos[n][j] \in Nat
  BY DEF Tick, TypeOK, Times
<1>2. /\ ticks[n][j] \in Seq(Times) /\ Len(ticks[n][j]) \in Nat
      /\ Append(ticks[n][j], pos[n][j]) \in Seq(Times)
  BY <1>1 DEF TypeOK
<1>3. /\ \A k \in Jobs \ {j} : ticks'[n][k] = ticks[n][k]
      /\ dropped[n] \subseteq dropped'[n]
      /\ \/ ticks'[n][j] = Append(ticks[n][j], pos[n][j])
         \/ ticks'[n][j] = ticks[n][j] /\ <<j, pos[n][j]>> \in dropped'[n]
  <2>1. CASE /\ ticks' = [ticks EXCEPT ![n][j] = Append(@, pos[n][j])]
             /\ UNCHANGED dropped
    BY <2>1 DEF TypeOK
  <2>2. CASE /\ dropped' = [dropped EXCEPT ![n] = @ \cup {<<j, pos[n][j]>>}]
             /\ UNCHANGED ticks
    BY <2>2 DEF TypeOK
  <2> QED
    BY <2>1, <2>2 DEF Tick
<1>4. \A t \in Times :
          (\E i \in 1 .. Len(ticks[n][j]) : ticks[n][j][i] = t) =>
              \E i \in 1 .. Len(ticks'[n][j]) : ticks'[n][j][i] = t
  <2>1. CASE ticks'[n][j] = ticks[n][j]
    BY <2>1
  <2>2. CASE ticks'[n][j] = Append(ticks[n][j], pos[n][j])
    <3>1. /\ Len(ticks'[n][j]) = Len(ticks[n][j]) + 1
          /\ \A i \in 1 .. Len(ticks[n][j]) : ticks'[n][j][i] = ticks[n][j][i]
      BY <1>1, <1>2, <2>2
    <3>2. 1 .. Len(ticks[n][j]) \subseteq 1 .. Len(ticks'[n][j])
      BY <1>2, <3>1
    <3> QED
      BY <3>1, <3>2
  <2> QED
    BY <1>3, <2>1, <2>2
<1>5. \/ \E i \in 1 .. Len(ticks'[n][j]) : ticks'[n][j][i] = pos[n][j]
      \/ <<j, pos[n][j]>> \in dropped'[n]
  <2>1. CASE ticks'[n][j] = Append(ticks[n][j], pos[n][j])
    <3>1. /\ Len(ticks'[n][j]) = Len(ticks[n][j]) + 1
          /\ ticks'[n][j][Len(ticks[n][j]) + 1] = pos[n][j]
      BY <1>1, <1>2, <2>1
    <3>2. Len(ticks[n][j]) + 1 \in 1 .. Len(ticks'[n][j])
      BY <1>2, <3>1
    <3> QED
      BY <3>1, <3>2
  <2> QED
    BY <1>3, <2>1
<1>6. TickNode(n)'
  <2>1. j \in CatchUp => life[n] \notin {"down", "panicked", "new", "recovering"}
    BY <1>1 DEF TickNode, Times
  <2> QED
    BY <1>1, <1>3, <2>1 DEF TickNode
<1>7. ASSUME NEW k \in CatchUp, NEW t \in Times, faults' = 0,
             life'[n] = "running", pos'[n][k] > 0
      PROVE  OnItsWay(n, k, t)'
  <2>1. CASE k # j
    <3>1. /\ faults = 0 /\ life[n] = "running"
          /\ pos'[n][k] = pos[n][k] /\ ticks'[n][k] = ticks[n][k]
      BY <1>1, <1>3, <1>7, <2>1
    <3>2. OnItsWay(n, k, t)
      BY <1>7, <3>1 DEF GapNode
    <3> QED
      BY <1>1, <1>3, <3>1, <3>2 DEF OnItsWay
  <2>2. CASE k = j
    <3>1. OnItsWay(n, j, t) /\ pos'[n][j] = pos[n][j] + 1
      BY <1>1, <1>7, <2>2 DEF GapNode, NextInstant, Times
    <3>2. CASE pos[n][j] = t
      BY <1>5, <2>2, <3>2 DEF OnItsWay
    <3>3. CASE pos[n][j] <= t /\ pos[n][j] # t
      <4>1. pos'[n][j] <= t
        BY <1>1, <3>1, <3>3 DEF Times
      <4> QED
        BY <2>2, <4>1 DEF OnItsWay
    <3>4. CASE \E i \in 1 .. Len(ticks[n][j]) : ticks[n][j][i] = t
      BY <1>4, <2>2, <3>4 DEF OnItsWay
    <3>5. CASE \/ status[<<j, t>>] # "Absent" \/ <<j, t>> \in dropped[n]
               \/ pc[n][j] = "create" /\ cur[n][j] = <<j, t>>
      BY <1>1, <1>3, <2>2, <3>5 DEF OnItsWay
    <3> QED
      BY <3>1, <3>2, <3>3, <3>4, <3>5 DEF OnItsWay
  <2> QED
    BY <2>1, <2>2
<1> QED
  BY <1>6, <1>7 DEF GapNode

LEMMA TickerExitKeepsGap ==
    ASSUME TypeOK, NEW n \in Nodes, TickNode(n), GapNode(n),
           NEW j \in Jobs, TickerExit(n, j)
    PROVE  TickNode(n)' /\ GapNode(n)'
<1> USE PoliciesAssumption
        DEF storeVars, recordVars, startVars, threadVars, reapVars
<1>1. /\ UNCHANGED <<life, ticks>> /\ life'[n] # "running"
      /\ \A k \in Jobs : pos'[n][k] \in {pos[n][k], 0}
  BY DEF TickerExit, Canceled, TypeOK
<1> QED
  BY <1>1 DEF TickNode, GapNode

LEMMA TriggerKeepsGap ==
    ASSUME TypeOK, TypeOK', NEW n \in Nodes, TickNode(n), GapNode(n),
           NEW j \in Jobs, Trigger(n, j)
    PROVE  TickNode(n)' /\ GapNode(n)'
<1> USE PoliciesAssumption, BoundsAssumption, ThreadTypes
        DEF storeVars, recordVars, startVars, threadVars, reapVars
<1>1. /\ UNCHANGED <<life, status, pos>>
      /\ \A k \in Jobs \ {j} : ticks'[n][k] = ticks[n][k]
      /\ ticks'[n][j] = Tail(ticks[n][j]) /\ ticks[n][j] # <<>>
      /\ ticks[n][j] \in Seq(Times) /\ pc[n][j] = "idle"
  BY DEF Trigger, TypeOK
<1>2. /\ Len(ticks[n][j]) \in Nat \ {0}
      /\ Head(ticks[n][j]) = ticks[n][j][1]
      /\ Len(ticks'[n][j]) = Len(ticks[n][j]) - 1
      /\ \A i \in 1 .. Len(ticks[n][j]) - 1 : ticks'[n][j][i] = ticks[n][j][i + 1]
  BY <1>1
<1>3. TickNode(n)'
  <2>1. j \in CatchUp => life[n] \notin {"down", "panicked", "new", "recovering"}
    BY <1>1 DEF TickNode
  <2> QED
    BY <1>1, <2>1 DEF TickNode
<1>4. dropped[n] \subseteq dropped'[n]
  <2>1. CASE dropped' = [dropped EXCEPT ![n] = @ \cup {<<j, Head(ticks[n][j])>>}]
    BY <2>1 DEF TypeOK
  <2>2. CASE UNCHANGED dropped
    BY <2>2
  <2> QED
    BY <2>1, <2>2 DEF Trigger
<1>5. ASSUME NEW k \in CatchUp, NEW t \in Times, faults' = 0,
             life'[n] = "running", pos'[n][k] > 0
      PROVE  OnItsWay(n, k, t)'
  <2>1. faults = 0 /\ ~Fault
    BY <1>5 DEF Trigger, Fault, TypeOK
  <2>2. OnItsWay(n, k, t)
    BY <1>1, <1>5, <2>1 DEF GapNode
  <2>3. CASE k # j
    <3>1. pc'[n][k] = pc[n][k] /\ cur'[n][k] = cur[n][k]
      <4>1. CASE UNCHANGED threadVars
        BY <4>1
      <4>2. CASE Goto(n, j, "create", <<j, Head(ticks[n][j])>>)
        BY <2>3, <4>2, GotoEffect
      <4> QED
        BY <4>1, <4>2 DEF Trigger
    <3> QED
      BY <1>1, <1>4, <2>2, <2>3, <3>1 DEF OnItsWay
  <2>4. CASE k = j
    <3>1. \/ pc'[n][j] = "create" /\ cur'[n][j] = <<j, ticks[n][j][1]>>
          \/ <<j, ticks[n][j][1]>> \in dropped'[n]
      <4>1. CASE Goto(n, j, "create", <<j, Head(ticks[n][j])>>)
        BY <1>2, <4>1, GotoEffect
      <4>2. CASE dropped' = [dropped EXCEPT ![n] = @ \cup {<<j, Head(ticks[n][j])>>}]
        BY <1>2, <4>2 DEF TypeOK
      <4> QED
        BY <2>1, <4>1, <4>2 DEF Trigger
    <3>2. CASE \/ status[<<j, t>>] # "Absent" \/ pos[n][j] <= t
               \/ <<j, t>> \in dropped[n]
      BY <1>1, <1>4, <2>4, <3>2 DEF OnItsWay
    <3>3. CASE ticks[n][j][1] = t
      BY <2>4, <3>1, <3>3 DEF OnItsWay
    <3>4. ASSUME NEW i \in 1 .. Len(ticks[n][j]), ticks[n][j][i] = t, i # 1
          PROVE  OnItsWay(n, k, t)'
      <4>1. i - 1 \in 1 .. Len(ticks[n][j]) - 1 /\ (i - 1) + 1 = i
        BY <1>2, <3>4
      <4>2. i - 1 \in 1 .. Len(ticks'[n][j]) /\ ticks'[n][j][i - 1] = t
        BY <1>2, <3>4, <4>1
      <4> QED
        BY <2>4, <4>2 DEF OnItsWay
    <3> QED
      BY <1>1, <2>2, <2>4, <3>2, <3>3, <3>4 DEF OnItsWay
  <2> QED
    BY <2>3, <2>4
<1> QED
  BY <1>3, <1>5 DEF GapNode

LEMMA NextGap ==
    ASSUME TypeOK, TypeOK', HasOcc, ClaimInv, GapInv, [Next]_vars
    PROVE  GapInv'
<1> USE DEF storeVars, recordVars, startVars, threadVars, tickVars, reapVars
<1>1. CASE UNCHANGED vars
  BY <1>1 DEF vars, GapInv, TickNode, GapNode, OnItsWay
<1>2. CASE Advance \/ \E j \in Jobs : DeleteJob(j)
  BY <1>2 DEF Advance, DeleteJob, GapInv, TickNode, GapNode, OnItsWay
<1>3. ASSUME NEW m \in Nodes, NodeStep(m), NEW n \in Nodes
      PROVE  TickNode(n)' /\ GapNode(n)'
  <2>1. Next
    BY <1>3 DEF Next
  <2>2. TickNode(n) /\ GapNode(n)
    BY DEF GapInv
  <2>3. CASE Steady(n)
    BY <2>1, <2>2, <2>3, FaultsGrow, NextRevivesNothing, SteadyKeeps
  <2>4. CASE n # m
    BY <1>3, <2>3, <2>4, OthersSteady
  <2>5. CASE n = m
    <3>1. ASSUME NEW j \in Jobs, Ticker(n, j) \/ Trigger(n, j)
          PROVE  TickNode(n)' /\ GapNode(n)'
      BY <2>2, <3>1, TickKeepsGap, TickerExitKeepsGap, TriggerKeepsGap DEF Ticker
    <3>2. CASE \/ Boot(n) \/ Crash(n) \/ BeginStart(n) \/ Shutdown(n) \/ Drained(n)
               \/ ShutdownReturns(n) \/ FinishStart(n)
               \/ \E j \in Jobs : StartFails(n, j)
               \/ \E th \in Threads : SubmitPanic(n, th)
      BY <2>2, <3>2, LifeChangeKeepsGap
    <3> QED
      BY <1>3, <2>3, <2>5, <3>1, <3>2, NodeSteady DEF NodeStep, Process, Recover, Watcher
  <2> QED
    BY <2>4, <2>5
<1> QED
  BY <1>1, <1>2, <1>3 DEF Next, GapInv

(* Whatever the capacity of the channels, the policies and the length of   *)
(* the schedule: no instant of a watched ISO8601 job falls between what    *)
(* recovery listed and what the ticker announces.  Until the store fails,  *)
(* an instant nobody takes up is one the ticker's channel had no room for, *)
(* or one Skip turned down.                                                *)
THEOREM NothingFallsThrough == Spec => []NoGap
<1> DEFINE I == TypeOK /\ HasOcc /\ ClaimInv
<1>1. Init => GapInv
  BY PoliciesAssumption DEF Init, GapInv, TickNode, GapNode
<1>2. I /\ I' /\ GapInv /\ [Next]_vars => GapInv'
  BY NextGap
<1>3. GapInv => NoGap
  BY DEF GapInv, GapNode, NoGap
<1>4. Spec => []I
  BY Invariance
<1> HIDE DEF I
<1> QED
  BY <1>1, <1>2, <1>3, <1>4, PTL DEF Spec

===============================================================================
