---------------------------- MODULE SchedulerProofs ----------------------------
(* Proofs about Scheduler, for any nodes, jobs, workers, policies and bounds. *)
EXTENDS Scheduler, TLAPS

(* The step of a single goroutine keeps the goroutines' types. *)
LEMMA GotoType ==
    ASSUME TypeOK, NEW n \in Nodes, NEW th \in Threads,
           NEW p \in PCs, NEW o \in Occs \cup {NoOcc}, Goto(n, th, p, o)
    PROVE  /\ pc' \in [Nodes -> [Threads -> PCs]]
           /\ cur' \in [Nodes -> [Threads -> Occs \cup {NoOcc}]]
BY DEF TypeOK, Goto

(* It moves that goroutine and no other. *)
LEMMA GotoEffect ==
    ASSUME TypeOK, NEW n \in Nodes, NEW th \in Threads, NEW p, NEW o,
           Goto(n, th, p, o)
    PROVE  /\ pc'[n][th] = p /\ cur'[n][th] = o
           /\ \A m \in Nodes, a \in Threads :
                 m # n \/ a # th =>
                     pc'[m][a] = pc[m][a] /\ cur'[m][a] = cur[m][a]
BY DEF TypeOK, Goto

LEMMA ThreadTypes ==
    /\ Starter \in Threads
    /\ Jobs \subseteq Threads
    /\ Workers \subseteq Threads
BY DEF Threads

(* A goroutine that handles an occurrence knows which. *)
HasOcc ==
    \A n \in Nodes, th \in Threads :
        pc[n][th] \notin {"off", "idle"} => cur[n][th] \in Occs

LEMMA InitType == Init => TypeOK /\ HasOcc
BY BoundsAssumption DEF Init, TypeOK, HasOcc, Statuses, Lives, PCs

LEMMA ProcessType ==
    ASSUME TypeOK, HasOcc, NEW n \in Nodes, Process(n)
    PROVE  TypeOK' /\ HasOcc'
<1> USE BoundsAssumption, ThreadTypes
        DEF storeVars, recordVars, startVars, threadVars, tickVars, reapVars
<1>1. CASE Boot(n)
  BY <1>1 DEF Boot, TypeOK, HasOcc, Lives
<1>2. CASE Crash(n)
  BY <1>2 DEF Crash, Die, TypeOK, HasOcc, Lives, PCs
<1>3. CASE BeginStart(n)
  BY <1>3 DEF BeginStart, Goto, TypeOK, HasOcc, Lives, PCs
<1>4. CASE Shutdown(n)
  BY <1>4 DEF Shutdown, TypeOK, HasOcc, Lives
<1>5. CASE Drained(n)
  BY <1>5 DEF Drained, TypeOK, HasOcc, Lives
<1>6. CASE ShutdownReturns(n)
  BY <1>6 DEF ShutdownReturns, Stopped, TypeOK, HasOcc, Lives
<1>7. ASSUME NEW j \in Jobs, RegisterJob(n, j)
      PROVE  TypeOK' /\ HasOcc'
  BY <1>7 DEF RegisterJob, TypeOK, HasOcc
<1>8. ASSUME NEW j \in Jobs, RegisterJobFails(n, j)
      PROVE  TypeOK' /\ HasOcc'
  BY <1>8 DEF RegisterJobFails, Fault, TypeOK, HasOcc
<1> QED
  BY <1>1, <1>2, <1>3, <1>4, <1>5, <1>6, <1>7, <1>8 DEF Process

LEMMA RecoverType ==
    ASSUME TypeOK, HasOcc, NEW n \in Nodes, Recover(n)
    PROVE  TypeOK' /\ HasOcc'
<1> USE BoundsAssumption, ThreadTypes
        DEF storeVars, recordVars, startVars, threadVars, tickVars, reapVars
<1>1. CASE RecoverNext(n)
  BY <1>1 DEF RecoverNext, Goto, TypeOK, HasOcc, PCs
<1>2. CASE FinishStart(n)
  <2>1. \A j \in Jobs : FirstInstant(j) \in 0 .. MaxTime + 1
    BY DEF FirstInstant, TypeOK
  <2> QED
    BY <1>2, <2>1 DEF FinishStart, TypeOK, HasOcc, PCs, Lives
<1>3. ASSUME NEW j \in Jobs, RecoverJob(n, j)
      PROVE  TypeOK' /\ HasOcc'
  <2>1. \A S \in SUBSET Times : ApplyStrategy(j, S) \in SUBSET S
    BY DEF ApplyStrategy, Latest, InWindow
  <2>2. MissedTimes(j) \in SUBSET Times
    BY DEF MissedTimes
  <2>3. {j} \X ApplyStrategy(j, MissedTimes(j)) \in SUBSET Occs
    BY <2>1, <2>2 DEF Occs
  <2> QED
    BY <1>3, <2>3 DEF RecoverJob, TypeOK, HasOcc
<1>4. ASSUME NEW j \in Jobs, StartFails(n, j)
      PROVE  TypeOK' /\ HasOcc'
  BY <1>4, SMTT(30) DEF StartFails, Fault, Goto, TypeOK, HasOcc, PCs, Lives
<1> QED
  BY <1>1, <1>2, <1>3, <1>4 DEF Recover

LEMMA ReaperType ==
    ASSUME TypeOK, HasOcc, NEW n \in Nodes, Reaper(n)
    PROVE  TypeOK' /\ HasOcc'
<1> USE BoundsAssumption
        DEF storeVars, recordVars, startVars, threadVars, tickVars, reapVars
<1>1. CASE ReapList(n)
  BY <1>1 DEF ReapList, TypeOK, HasOcc
<1>2. CASE ReaperExit(n)
  BY <1>2 DEF ReaperExit, TypeOK, HasOcc
<1>3. ASSUME NEW o \in Occs, ReapWrite(n, o)
      PROVE  TypeOK' /\ HasOcc'
  <2>0. faults' \in 0 .. MaxFaults
    BY <1>3 DEF ReapWrite, Fault, TypeOK
  <2>1. status' \in [Occs -> Statuses]
    BY <1>3 DEF ReapWrite, TypeOK, Statuses, Final
  <2>2. reap' \in [Nodes -> SUBSET Occs]
    BY <1>3 DEF ReapWrite, TypeOK
  <2> QED
    BY <1>3, <2>0, <2>1, <2>2 DEF ReapWrite, TypeOK, HasOcc
<1> QED
  BY <1>1, <1>2, <1>3 DEF Reaper

LEMMA WatchType ==
    ASSUME TypeOK, HasOcc, NEW n \in Nodes, NEW j \in Jobs,
           Ticker(n, j) \/ Watcher(n, j)
    PROVE  TypeOK' /\ HasOcc'
<1> USE BoundsAssumption, ThreadTypes
        DEF storeVars, recordVars, startVars, threadVars, tickVars, reapVars
<1>1. CASE Tick(n, j)
  <2>1. pos[n][j] \in Times /\ NextInstant(j, pos[n][j]) \in 0 .. MaxTime + 1
    BY <1>1 DEF Tick, NextInstant, TypeOK, Times
  <2>2. pos' \in [Nodes -> [Jobs -> 0 .. MaxTime + 1]]
    BY <1>1, <2>1 DEF Tick, TypeOK
  <2>3. ticks' \in [Nodes -> [Jobs -> Seq(Times)]]
    <3>1. Append(ticks[n][j], pos[n][j]) \in Seq(Times)
      BY <2>1 DEF TypeOK
    <3>2. CASE ticks' = [ticks EXCEPT ![n][j] = Append(@, pos[n][j])]
      BY <3>1, <3>2 DEF TypeOK
    <3>3. CASE ticks' = ticks
      BY <3>3 DEF TypeOK
    <3> QED
      BY <1>1, <3>2, <3>3 DEF Tick
  <2>4. dropped' \in [Nodes -> SUBSET Occs]
    <3>1. <<j, pos[n][j]>> \in Occs
      BY <2>1 DEF Occs
    <3>2. CASE dropped' = [dropped EXCEPT ![n] = @ \cup {<<j, pos[n][j]>>}]
      BY <3>1, <3>2 DEF TypeOK
    <3>3. CASE dropped' = dropped
      BY <3>3 DEF TypeOK
    <3> QED
      BY <1>1, <3>2, <3>3 DEF Tick
  <2> QED
    BY <1>1, <2>2, <2>3, <2>4 DEF Tick, TypeOK, HasOcc
<1>2. CASE TickerExit(n, j)
  BY <1>2 DEF TickerExit, TypeOK, HasOcc
<1>3. CASE Trigger(n, j)
  <2>1. <<j, Head(ticks[n][j])>> \in Occs /\ Tail(ticks[n][j]) \in Seq(Times)
    BY <1>3 DEF Trigger, TypeOK, Occs
  <2>2. ticks' \in [Nodes -> [Jobs -> Seq(Times)]]
    BY <1>3, <2>1 DEF Trigger, TypeOK
  <2>3. dropped' \in [Nodes -> SUBSET Occs]
    <3>1. CASE dropped' = [dropped EXCEPT ![n] = @ \cup {<<j, Head(ticks[n][j])>>}]
      BY <2>1, <3>1 DEF TypeOK
    <3>2. CASE dropped' = dropped
      BY <3>2 DEF TypeOK
    <3> QED
      BY <1>3, <3>1, <3>2 DEF Trigger
  <2>4. CASE UNCHANGED threadVars
    <3>1. faults' \in 0 .. MaxFaults
      BY <1>3 DEF Trigger, Fault, TypeOK
    <3> QED
      BY <1>3, <2>2, <2>3, <2>4, <3>1 DEF Trigger, TypeOK, HasOcc
  <2>5. CASE Goto(n, j, "create", <<j, Head(ticks[n][j])>>) /\ UNCHANGED faults
    <3>1. "create" \in PCs
      BY DEF PCs
    <3>2. pc' \in [Nodes -> [Threads -> PCs]]
          /\ cur' \in [Nodes -> [Threads -> Occs \cup {NoOcc}]]
      BY <2>1, <2>5, <3>1, GotoType
    <3>3. HasOcc'
      BY <2>1, <2>5 DEF Goto, HasOcc, TypeOK
    <3> QED
      BY <1>3, <2>2, <2>3, <2>5, <3>2, <3>3 DEF Trigger, TypeOK
  <2> QED
    BY <1>3, <2>4, <2>5 DEF Trigger
<1>4. CASE WatcherExit(n, j)
  BY <1>4 DEF WatcherExit, Goto, TypeOK, HasOcc, PCs
<1> QED
  BY <1>1, <1>2, <1>3, <1>4 DEF Ticker, Watcher

LEMMA WorkerType ==
    ASSUME TypeOK, HasOcc, NEW n \in Nodes, NEW w \in Workers, Worker(n, w)
    PROVE  TypeOK' /\ HasOcc'
<1> USE ThreadTypes
        DEF storeVars, recordVars, startVars, threadVars, tickVars, reapVars
<1>1. CASE Take(n, w)
  <2>1. Head(queue[n]) \in Occs /\ Tail(queue[n]) \in Seq(Occs)
    BY <1>1 DEF Take, TypeOK
  <2> QED
    BY <1>1, <2>1 DEF Take, Goto, TypeOK, HasOcc, PCs
<1>2. CASE WorkerExit(n, w)
  BY <1>2 DEF WorkerExit, Goto, TypeOK, HasOcc, PCs
<1> QED
  BY <1>1, <1>2 DEF Worker

LEMMA ScheduleType ==
    ASSUME TypeOK, HasOcc, NEW n \in Nodes, NEW th \in Threads, Schedule(n, th)
    PROVE  TypeOK' /\ HasOcc'
<1> USE BoundsAssumption
        DEF storeVars, recordVars, startVars, threadVars, tickVars, reapVars
<1>1. CASE CreateWins(n, th)
  BY <1>1 DEF CreateWins, Record, Goto, TypeOK, HasOcc, PCs, Statuses
<1>2. CASE CreateLoses(n, th)
  BY <1>2, SMTT(30) DEF CreateLoses, Fault, Goto, TypeOK, HasOcc, PCs
<1>3. CASE Submit(n, th)
  BY <1>3 DEF Submit, Goto, TypeOK, HasOcc, PCs
<1>4. CASE SubmitSend(n, th)
  <2>1. cur[n][th] \in Occs
    BY <1>4 DEF SubmitSend, HasOcc
  <2>2. queue' \in [Nodes -> Seq(Occs)]
    BY <1>4, <2>1 DEF SubmitSend, TypeOK
  <2> QED
    BY <1>4, <2>2 DEF SubmitSend, Goto, TypeOK, HasOcc, PCs
<1>5. CASE SubmitRefused(n, th)
  BY <1>5 DEF SubmitRefused, Goto, TypeOK, HasOcc, PCs
<1>6. CASE SubmitPanic(n, th)
  BY <1>6 DEF SubmitPanic, Die, TypeOK, HasOcc, Lives, PCs
<1> QED
  BY <1>1, <1>2, <1>3, <1>4, <1>5, <1>6 DEF Schedule

LEMMA ExecuteType ==
    ASSUME TypeOK, HasOcc, NEW n \in Nodes, NEW th \in Threads, Execute(n, th)
    PROVE  TypeOK' /\ HasOcc'
<1> USE BoundsAssumption
        DEF storeVars, recordVars, startVars, threadVars, tickVars, reapVars
<1>1. CASE ExecStart(n, th)
  <2>1. cur[n][th] \in Occs
    BY <1>1 DEF ExecStart, HasOcc
  <2>2. /\ status' \in [Occs -> Statuses]
        /\ owner' \in [Occs -> Nodes \cup {NoNode}]
        /\ since' \in [Occs -> 0 .. MaxTime]
        /\ ran' \in [Occs -> Nat]
    BY <1>1, <2>1 DEF ExecStart, TypeOK, Statuses
  <2> QED
    BY <1>1, <2>1, <2>2, SMTT(30) DEF ExecStart, Goto, TypeOK, HasOcc, PCs
<1>2. CASE ExecStartFails(n, th)
  BY <1>2 DEF ExecStartFails, Fault, Goto, TypeOK, HasOcc, PCs
<1>3. CASE ExecFinish(n, th)
  <2>1. cur[n][th] \in Occs
    BY <1>3 DEF ExecFinish, HasOcc
  <2>2. /\ status' \in [Occs -> Statuses]
        /\ owner' \in [Occs -> Nodes \cup {NoNode}]
        /\ faults' \in 0 .. MaxFaults
    <3>1. faults' \in 0 .. MaxFaults
      BY <1>3 DEF ExecFinish, Fault, TypeOK
    <3>2. status' \in [Occs -> Statuses]
      BY <1>3, <2>1 DEF ExecFinish, TypeOK, Statuses, Final
    <3>3. owner' \in [Occs -> Nodes \cup {NoNode}]
      BY <1>3, <2>1 DEF ExecFinish, TypeOK
    <3> QED
      BY <3>1, <3>2, <3>3
  <2> QED
    BY <1>3, <2>1, <2>2 DEF ExecFinish, Goto, TypeOK, HasOcc, PCs
<1> QED
  BY <1>1, <1>2, <1>3 DEF Execute

LEMMA NextType == TypeOK /\ HasOcc /\ [Next]_vars => TypeOK' /\ HasOcc'
<1> SUFFICES ASSUME TypeOK, HasOcc, [Next]_vars
             PROVE  TypeOK' /\ HasOcc'
  OBVIOUS
<1> USE BoundsAssumption
        DEF storeVars, recordVars, startVars, threadVars, tickVars, reapVars
<1>1. CASE UNCHANGED vars
  BY <1>1 DEF vars, TypeOK, HasOcc
<1>2. CASE Advance
  BY <1>2 DEF Advance, TypeOK, HasOcc
<1>3. ASSUME NEW j \in Jobs, DeleteJob(j)
      PROVE  TypeOK' /\ HasOcc'
  BY <1>3 DEF DeleteJob, TypeOK, HasOcc
<1>4. ASSUME NEW n \in Nodes, NodeStep(n)
      PROVE  TypeOK' /\ HasOcc'
  BY <1>4, ProcessType, RecoverType, ReaperType, WatchType, WorkerType,
     ScheduleType, ExecuteType DEF NodeStep
<1> QED
  BY <1>1, <1>2, <1>3, <1>4 DEF Next

(* Every record, goroutine, queue and counter of the schedulers keeps its   *)
(* type, whatever the nodes do; the clock and the bounds are the constants'. *)
THEOREM TypeCorrect == Spec => []TypeOK
<1>1. Spec => [](TypeOK /\ HasOcc)
  BY InitType, NextType, PTL DEF Spec
<1> QED
  BY <1>1, PTL

-------------------------------------------------------------------------------
(***************************************************************************)
(* At most one run.  OneHolder and HeldIsPending say who may start an      *)
(* occurrence; they are inductive once the store's memory of past runs is  *)
(* added: a record is past Pending exactly if the tasks were started, and  *)
(* the reaper only holds records of started occurrences.                   *)
(***************************************************************************)
StoreRemembers ==
    /\ \A o \in Occs : status[o] \in {"Absent", "Pending"} <=> ran[o] = 0
    /\ \A n \in Nodes, th \in Threads :
          pc[n][th] = "tasks" => ran[cur[n][th]] > 0
    /\ \A n \in Nodes : \A o \in reap[n] : ran[o] > 0

ClaimInv == AtMostOnce /\ OneHolder /\ HeldIsPending /\ StoreRemembers

(* A step that starts no claim and no run, only forgets claims, and only    *)
(* writes final records of occurrences that ran.                            *)
Quiet ==
    /\ \A n \in Nodes, th \in Threads :
          pc'[n][th] \in Claimed =>
              /\ pc[n][th] \in Claimed
              /\ pc'[n][th] = "tasks" <=> pc[n][th] = "tasks"
              /\ cur'[n][th] = cur[n][th]
    /\ \A n \in Nodes : queue'[n] = queue[n] \/ queue'[n] = <<>>
    /\ \A o \in Occs :
          status'[o] = status[o] \/ (ran[o] > 0 /\ status'[o] \in Final)
    /\ ran' = ran
    /\ \A n \in Nodes : \A o \in reap'[n] : o \in reap[n] \/ status[o] = "Running"

LEMMA QuietPreserves ==
    ASSUME TypeOK, TypeOK', HasOcc, ClaimInv, Quiet
    PROVE  ClaimInv'
<1>1. \A n \in Nodes, th \in Threads, o \in Occs :
          Holds(n, th, o)' =>
              Holds(n, th, o) /\ (pc'[n][th] = "tasks" <=> pc[n][th] = "tasks")
  BY DEF Quiet, Holds
<1>2. \A n \in Nodes, o \in Occs : InQueue(n, o)' => InQueue(n, o)
  BY DEF Quiet, InQueue
<1>3. \A o \in Occs : Held(o)' => Held(o)
  BY <1>1, <1>2 DEF Held
<1>4. AtMostOnce'
  BY DEF ClaimInv, AtMostOnce, Quiet
<1>5. OneHolder'
  <2>1. \A n \in Nodes : \A i, k \in 1 .. Len(queue'[n]) :
            queue'[n][i] = queue'[n][k] => i = k
    BY DEF ClaimInv, OneHolder, Quiet
  <2> QED
    BY <1>1, <1>2, <2>1 DEF ClaimInv, OneHolder
<1>6. HeldIsPending'
  <2>1. \A o \in Occs : status'[o] = "Absent" => status[o] = "Absent"
    BY DEF Quiet, Final
  <2>2. \A o \in Occs : ran[o] = 0 => status'[o] = status[o]
    BY DEF Quiet
  <2> QED
    BY <1>1, <1>2, <1>3, <2>1, <2>2 DEF ClaimInv, HeldIsPending, Quiet
<1>7. StoreRemembers'
  <2>1. \A o \in Occs : status'[o] \in {"Absent", "Pending"} <=> ran'[o] = 0
    BY DEF ClaimInv, StoreRemembers, Quiet, Final
  <2>2. \A n \in Nodes, th \in Threads :
            pc'[n][th] = "tasks" => ran'[cur'[n][th]] > 0
    <3> SUFFICES ASSUME NEW n \in Nodes, NEW th \in Threads, pc'[n][th] = "tasks"
                 PROVE  ran'[cur'[n][th]] > 0
      OBVIOUS
    <3>1. pc[n][th] = "tasks" /\ cur'[n][th] = cur[n][th]
      BY DEF Quiet, Claimed
    <3>2. ran[cur[n][th]] > 0
      BY <3>1 DEF ClaimInv, StoreRemembers
    <3> QED
      BY <3>1, <3>2 DEF Quiet
  <2>3. \A n \in Nodes : \A o \in reap'[n] : ran'[o] > 0
    <3> SUFFICES ASSUME NEW n \in Nodes, NEW o \in reap'[n]
                 PROVE  ran[o] > 0
      BY DEF Quiet
    <3>1. o \in Occs /\ ran[o] \in Nat
      BY DEF TypeOK
    <3>2. o \in reap[n] \/ status[o] = "Running"
      BY DEF Quiet
    <3> QED
      BY <3>1, <3>2 DEF ClaimInv, StoreRemembers
  <2> QED
    BY <2>1, <2>2, <2>3 DEF StoreRemembers
<1> QED
  BY <1>4, <1>5, <1>6, <1>7 DEF ClaimInv

LEMMA InitClaims == Init => ClaimInv
<1> SUFFICES ASSUME Init PROVE ClaimInv
  OBVIOUS
<1>1. \A n \in Nodes, th \in Threads, o \in Occs : ~Holds(n, th, o)
  BY DEF Init, Holds, Claimed
<1>2. \A n \in Nodes, o \in Occs : ~InQueue(n, o)
  BY DEF Init, InQueue
<1>3. AtMostOnce /\ StoreRemembers
  BY DEF Init, AtMostOnce, StoreRemembers
<1>4. HeldIsPending
  BY <1>1, <1>2 DEF Init, HeldIsPending, Held
<1>5. OneHolder
  BY <1>1, <1>2 DEF Init, OneHolder
<1> QED
  BY <1>3, <1>4, <1>5 DEF ClaimInv

(* Everything but the steps below that hand an occurrence on is quiet. *)
LEMMA ProcessQuiet ==
    ASSUME TypeOK, NEW n \in Nodes, Process(n)
    PROVE  Quiet
<1> USE ThreadTypes
        DEF storeVars, recordVars, startVars, threadVars, tickVars, reapVars, Quiet
<1>1. CASE Boot(n)
  BY <1>1 DEF Boot
<1>2. CASE Crash(n)
  BY <1>2 DEF Crash, Die, TypeOK, Claimed
<1>3. CASE BeginStart(n)
  BY <1>3 DEF BeginStart, Goto, TypeOK, Claimed
<1>4. CASE Shutdown(n)
  BY <1>4 DEF Shutdown
<1>5. CASE Drained(n)
  BY <1>5 DEF Drained
<1>6. CASE ShutdownReturns(n)
  BY <1>6 DEF ShutdownReturns, Stopped, TypeOK
<1>7. ASSUME NEW j \in Jobs, RegisterJob(n, j)
      PROVE  Quiet
  BY <1>7 DEF RegisterJob
<1>8. ASSUME NEW j \in Jobs, RegisterJobFails(n, j)
      PROVE  Quiet
  BY <1>8 DEF RegisterJobFails
<1> QED
  BY <1>1, <1>2, <1>3, <1>4, <1>5, <1>6, <1>7, <1>8 DEF Process

LEMMA RecoverQuiet ==
    ASSUME TypeOK, NEW n \in Nodes, Recover(n)
    PROVE  Quiet
<1> USE ThreadTypes
        DEF storeVars, recordVars, startVars, threadVars, tickVars, reapVars, Quiet
<1>1. CASE RecoverNext(n)
  BY <1>1 DEF RecoverNext, Goto, TypeOK, Claimed
<1>2. CASE FinishStart(n)
  BY <1>2 DEF FinishStart, TypeOK, Claimed
<1>3. ASSUME NEW j \in Jobs, RecoverJob(n, j)
      PROVE  Quiet
  BY <1>3 DEF RecoverJob
<1>4. ASSUME NEW j \in Jobs, StartFails(n, j)
      PROVE  Quiet
  BY <1>4 DEF StartFails, Goto, TypeOK, Claimed
<1> QED
  BY <1>1, <1>2, <1>3, <1>4 DEF Recover

LEMMA WatchQuiet ==
    ASSUME TypeOK, NEW n \in Nodes, NEW j \in Jobs,
           Ticker(n, j) \/ Watcher(n, j)
    PROVE  Quiet
<1> USE ThreadTypes
        DEF storeVars, recordVars, startVars, threadVars, tickVars, reapVars, Quiet
<1>1. CASE Tick(n, j)
  BY <1>1 DEF Tick
<1>2. CASE TickerExit(n, j)
  BY <1>2 DEF TickerExit
<1>3. CASE Trigger(n, j)
  <2>1. UNCHANGED <<status, ran, queue, reap>>
    BY <1>3 DEF Trigger
  <2>2. CASE UNCHANGED threadVars
    BY <2>1, <2>2
  <2>3. CASE Goto(n, j, "create", <<j, Head(ticks[n][j])>>)
    BY <2>1, <2>3 DEF Goto, TypeOK, Claimed
  <2> QED
    BY <1>3, <2>2, <2>3 DEF Trigger
<1>4. CASE WatcherExit(n, j)
  BY <1>4 DEF WatcherExit, Goto, TypeOK, Claimed
<1> QED
  BY <1>1, <1>2, <1>3, <1>4 DEF Ticker, Watcher

LEMMA ScheduleQuiet ==
    ASSUME TypeOK, NEW n \in Nodes, NEW th \in Threads,
           \/ CreateLoses(n, th) \/ Submit(n, th) \/ SubmitRefused(n, th)
           \/ SubmitPanic(n, th) \/ ExecStartFails(n, th)
           \/ WorkerExit(n, th)
    PROVE  Quiet
<1> USE DEF storeVars, recordVars, startVars, threadVars, tickVars, reapVars,
            Goto, Quiet, TypeOK, Claimed
<1>1. CASE CreateLoses(n, th)
  BY <1>1 DEF CreateLoses
<1>2. CASE Submit(n, th)
  BY <1>2 DEF Submit
<1>3. CASE SubmitRefused(n, th)
  BY <1>3 DEF SubmitRefused
<1>4. CASE SubmitPanic(n, th)
  BY <1>4 DEF SubmitPanic, Die
<1>5. CASE ExecStartFails(n, th)
  BY <1>5 DEF ExecStartFails
<1>6. CASE WorkerExit(n, th)
  BY <1>6 DEF WorkerExit
<1> QED
  BY <1>1, <1>2, <1>3, <1>4, <1>5, <1>6

LEMMA FinishQuiet ==
    ASSUME TypeOK, HasOcc, ClaimInv,
           NEW n \in Nodes, NEW th \in Threads, ExecFinish(n, th)
    PROVE  Quiet
<1> USE DEF storeVars, recordVars, startVars, threadVars, tickVars, reapVars
<1>1. cur[n][th] \in Occs /\ ran[cur[n][th]] > 0
  BY DEF ExecFinish, HasOcc, ClaimInv, StoreRemembers
<1>2. \A o \in Occs :
          status'[o] = status[o] \/ (ran[o] > 0 /\ status'[o] \in Final)
  BY <1>1 DEF ExecFinish, TypeOK, Final
<1> QED
  BY <1>2 DEF ExecFinish, Goto, Quiet, TypeOK, Claimed

(* The steps that move a claim from one holder to the next. *)
LEMMA ScheduleClaims ==
    ASSUME TypeOK, TypeOK', HasOcc, ClaimInv,
           NEW n \in Nodes, NEW th \in Threads, Schedule(n, th)
    PROVE  ClaimInv'
<1> USE DEF storeVars, recordVars, startVars, threadVars, tickVars, reapVars
<1>1. CASE CreateWins(n, th)
  <2> DEFINE c == cur[n][th]
  <2>1. c \in Occs /\ status[c] = "Absent" /\ ran[c] = 0 /\ ~Held(c)
    BY <1>1 DEF CreateWins, HasOcc, ClaimInv, HeldIsPending
  <2>2. /\ status' = [status EXCEPT ![c] = "Pending"]
        /\ ran' = ran /\ queue' = queue /\ reap' = reap
    BY <1>1 DEF CreateWins, Record
  <2>3. \A m \in Nodes, a \in Threads, o \in Occs :
            Holds(m, a, o)' =>
                \/ Holds(m, a, o) /\ pc'[m][a] = pc[m][a]
                \/ m = n /\ a = th /\ o = c /\ pc'[m][a] = "submit"
    <3>1. Goto(n, th, "submit", c)
      BY <1>1 DEF CreateWins, Record
    <3> QED
      BY <3>1, GotoEffect DEF Holds
  <2>4. \A m \in Nodes, o \in Occs : InQueue(m, o)' <=> InQueue(m, o)
    BY <2>2 DEF InQueue
  <2>5. \A m \in Nodes, a \in Threads : ~Holds(m, a, c) /\ ~InQueue(m, c)
    BY <2>1 DEF Held
  <2>6. AtMostOnce'
    BY <2>2 DEF ClaimInv, AtMostOnce
  <2>7. OneHolder'
    BY <2>2, <2>3, <2>4, <2>5 DEF ClaimInv, OneHolder
  <2>8. HeldIsPending'
    <3>1. \A o \in Occs : o # c => status'[o] = status[o]
      BY <2>2 DEF TypeOK
    <3>2. status'[c] = "Pending"
      BY <2>1, <2>2 DEF TypeOK
    <3>3. \A o \in Occs : o # c /\ Held(o)' => Held(o)
      BY <2>3, <2>4 DEF Held
    <3>4. \A o \in Occs : status'[o] = "Absent" => ran'[o] = 0 /\ ~Held(o)'
      BY <2>2, <3>1, <3>2, <3>3 DEF ClaimInv, HeldIsPending
    <3>5. \A o \in Occs, m \in Nodes :
              InQueue(m, o)' => status'[o] = "Pending" /\ ran'[o] = 0
      BY <2>2, <2>4, <2>5, <3>1 DEF ClaimInv, HeldIsPending
    <3>6. \A o \in Occs, m \in Nodes, a \in Threads :
              Holds(m, a, o)' /\ pc'[m][a] # "tasks" =>
                  status'[o] = "Pending" /\ ran'[o] = 0
      BY <2>1, <2>2, <2>3, <3>1, <3>2 DEF ClaimInv, HeldIsPending
    <3> QED
      BY <3>4, <3>5, <3>6 DEF HeldIsPending
  <2>9. StoreRemembers'
    <3>1. \A o \in Occs : status'[o] \in {"Absent", "Pending"} <=> ran'[o] = 0
      BY <2>1, <2>2 DEF ClaimInv, StoreRemembers, TypeOK
    <3>2. \A m \in Nodes, a \in Threads :
              pc'[m][a] = "tasks" => pc[m][a] = "tasks" /\ cur'[m][a] = cur[m][a]
      BY <1>1 DEF CreateWins, Record, Goto, TypeOK
    <3> QED
      BY <2>2, <3>1, <3>2 DEF ClaimInv, StoreRemembers
  <2> QED
    BY <2>6, <2>7, <2>8, <2>9 DEF ClaimInv
<1>2. CASE \/ CreateLoses(n, th) \/ Submit(n, th) \/ SubmitRefused(n, th)
           \/ SubmitPanic(n, th)
  BY <1>2, ScheduleQuiet, QuietPreserves
<1>3. CASE SubmitSend(n, th)
  <2> DEFINE c == cur[n][th]
  <2>1. c \in Occs /\ Holds(n, th, c) /\ pc[n][th] = "select"
    BY <1>3 DEF SubmitSend, HasOcc, Holds, Claimed
  <2>2. /\ status' = status /\ ran' = ran /\ reap' = reap
        /\ queue' = [queue EXCEPT ![n] = Append(@, c)]
        /\ Goto(n, th, "idle", NoOcc)
    BY <1>3 DEF SubmitSend
  <2>3. \A m \in Nodes, a \in Threads, o \in Occs :
            Holds(m, a, o)' => Holds(m, a, o) /\ pc'[m][a] = pc[m][a] /\ o # c
    <3>1. \A m \in Nodes, a \in Threads, o \in Occs :
            Holds(m, a, o)' =>
                Holds(m, a, o) /\ pc'[m][a] = pc[m][a] /\ (m # n \/ a # th)
      BY <2>2, GotoEffect DEF Holds, Claimed
    <3> QED
      BY <2>1, <3>1 DEF ClaimInv, OneHolder
  <2>4. \A m \in Nodes : m # n => queue'[m] = queue[m]
    BY <2>2 DEF TypeOK
  <2>5. /\ Len(queue'[n]) = Len(queue[n]) + 1
        /\ queue'[n][Len(queue[n]) + 1] = c
        /\ \A i \in 1 .. Len(queue[n]) : queue'[n][i] = queue[n][i]
        /\ Len(queue[n]) \in Nat
    BY <2>1, <2>2 DEF TypeOK
  <2>6. \A m \in Nodes, o \in Occs :
            InQueue(m, o)' => InQueue(m, o) \/ (m = n /\ o = c)
    BY <2>4, <2>5 DEF InQueue
  <2>7. \A m \in Nodes : ~InQueue(m, c)
    BY <2>1 DEF ClaimInv, OneHolder
  <2>8. \A o \in Occs : Held(o)' => Held(o)
    BY <2>1, <2>3, <2>6 DEF Held
  <2>9. AtMostOnce' /\ StoreRemembers'
    <3>1. \A m \in Nodes, a \in Threads :
              pc'[m][a] = "tasks" => pc[m][a] = "tasks" /\ cur'[m][a] = cur[m][a]
      BY <2>2, GotoEffect
    <3> QED
      BY <2>2, <3>1 DEF ClaimInv, AtMostOnce, StoreRemembers
  <2>10. OneHolder'
    <3>1. \A m \in Nodes : \A i, k \in 1 .. Len(queue'[m]) :
              queue'[m][i] = queue'[m][k] => i = k
      <4> SUFFICES ASSUME NEW m \in Nodes, NEW i \in 1 .. Len(queue'[m]),
                          NEW k \in 1 .. Len(queue'[m]), queue'[m][i] = queue'[m][k]
                   PROVE  i = k
        OBVIOUS
      <4>1. CASE m # n
        BY <2>4, <4>1 DEF ClaimInv, OneHolder
      <4>2. CASE m = n
        <5>1. \A x \in 1 .. Len(queue[n]) : queue[n][x] # c
          BY <2>7 DEF InQueue
        <5>2. \A x, y \in 1 .. Len(queue[n]) : queue[n][x] = queue[n][y] => x = y
          BY DEF ClaimInv, OneHolder
        <5> HIDE DEF c
        <5>3. /\ i \in 1 .. Len(queue[n]) \/ i = Len(queue[n]) + 1
              /\ k \in 1 .. Len(queue[n]) \/ k = Len(queue[n]) + 1
              /\ queue'[n][i] = queue'[n][k]
          BY <2>5, <4>2
        <5>4. CASE i \in 1 .. Len(queue[n]) /\ k \in 1 .. Len(queue[n])
          <6>1. queue[n][i] = queue[n][k]
            BY <2>5, <5>3, <5>4
          <6> QED
            BY <5>2, <5>4, <6>1
        <5>5. CASE i \in 1 .. Len(queue[n]) /\ k = Len(queue[n]) + 1
          BY <2>5, <5>1, <5>3, <5>5
        <5>6. CASE i = Len(queue[n]) + 1 /\ k \in 1 .. Len(queue[n])
          BY <2>5, <5>1, <5>3, <5>6
        <5> QED
          BY <5>3, <5>4, <5>5, <5>6
      <4> QED
        BY <4>1, <4>2
    <3> QED
      BY <2>3, <2>6, <2>7, <3>1 DEF ClaimInv, OneHolder
  <2>11. HeldIsPending'
    <3>1. \A o \in Occs, m \in Nodes :
              InQueue(m, o)' => status'[o] = "Pending" /\ ran'[o] = 0
      BY <2>1, <2>2, <2>6 DEF ClaimInv, HeldIsPending
    <3> QED
      BY <2>2, <2>3, <2>8, <3>1 DEF ClaimInv, HeldIsPending
  <2> QED
    BY <2>9, <2>10, <2>11 DEF ClaimInv
<1> QED
  BY <1>1, <1>2, <1>3 DEF Schedule

LEMMA WorkerClaims ==
    ASSUME TypeOK, TypeOK', HasOcc, ClaimInv,
           NEW n \in Nodes, NEW w \in Workers, Worker(n, w)
    PROVE  ClaimInv'
<1> USE ThreadTypes
        DEF storeVars, recordVars, startVars, threadVars, tickVars, reapVars
<1>1. CASE Take(n, w)
  <2> DEFINE h == Head(queue[n])
  <2>1. /\ status' = status /\ ran' = ran /\ reap' = reap
        /\ queue' = [queue EXCEPT ![n] = Tail(@)]
        /\ Goto(n, w, "exec", h)
        /\ queue[n] # <<>>
    BY <1>1 DEF Take
  <2>2. /\ Len(queue[n]) \in Nat \ {0}
        /\ h = queue[n][1] /\ h \in Occs
        /\ Len(queue'[n]) = Len(queue[n]) - 1
        /\ \A i \in 1 .. Len(queue[n]) - 1 : queue'[n][i] = queue[n][i + 1]
    BY <2>1 DEF TypeOK
  <2>3. \A m \in Nodes : m # n => queue'[m] = queue[m]
    BY <2>1 DEF TypeOK
  <2>4. InQueue(n, h)
    BY <2>2 DEF InQueue
  <2>5. \A m \in Nodes, o \in Occs : InQueue(m, o)' => InQueue(m, o) /\ o # h
    <3> SUFFICES ASSUME NEW m \in Nodes, NEW o \in Occs, InQueue(m, o)'
                 PROVE  InQueue(m, o) /\ o # h
      OBVIOUS
    <3>1. CASE m # n
      BY <2>2, <2>3, <2>4, <3>1 DEF InQueue, ClaimInv, OneHolder
    <3>2. CASE m = n
      <4>1. PICK i \in 1 .. Len(queue'[n]) : queue'[n][i] = o
        BY <3>2 DEF InQueue
      <4>2. i + 1 \in 1 .. Len(queue[n]) /\ queue[n][i + 1] = o /\ i + 1 # 1
        BY <2>2, <4>1
      <4>3. \A x, y \in 1 .. Len(queue[n]) : queue[n][x] = queue[n][y] => x = y
        BY DEF ClaimInv, OneHolder
      <4> QED
        BY <2>2, <3>2, <4>2, <4>3 DEF InQueue
    <3> QED
      BY <3>1, <3>2
  <2>6. \A m \in Nodes, a \in Threads, o \in Occs :
            Holds(m, a, o)' =>
                \/ Holds(m, a, o) /\ pc'[m][a] = pc[m][a]
                \/ m = n /\ a = w /\ o = h /\ pc'[m][a] = "exec"
    BY <2>1, GotoEffect DEF Holds
  <2>7. \A m \in Nodes, a \in Threads : ~Holds(m, a, h)
    BY <2>2, <2>4 DEF ClaimInv, OneHolder
  <2>8. status[h] = "Pending" /\ ran[h] = 0
    BY <2>2, <2>4 DEF ClaimInv, HeldIsPending
  <2>9. \A o \in Occs : Held(o)' => Held(o)
    BY <2>4, <2>5, <2>6 DEF Held
  <2>10. AtMostOnce' /\ StoreRemembers'
    <3>1. \A m \in Nodes, a \in Threads :
              pc'[m][a] = "tasks" => pc[m][a] = "tasks" /\ cur'[m][a] = cur[m][a]
      BY <2>1, GotoEffect
    <3> QED
      BY <2>1, <3>1 DEF ClaimInv, AtMostOnce, StoreRemembers
  <2>11. OneHolder'
    <3>1. \A m \in Nodes : \A i, k \in 1 .. Len(queue'[m]) :
              queue'[m][i] = queue'[m][k] => i = k
      <4> SUFFICES ASSUME NEW m \in Nodes, NEW i \in 1 .. Len(queue'[m]),
                          NEW k \in 1 .. Len(queue'[m]), queue'[m][i] = queue'[m][k]
                   PROVE  i = k
        OBVIOUS
      <4>1. CASE m # n
        BY <2>3, <4>1 DEF ClaimInv, OneHolder
      <4>2. CASE m = n
        <5>1. \A x, y \in 1 .. Len(queue[n]) : queue[n][x] = queue[n][y] => x = y
          BY DEF ClaimInv, OneHolder
        <5>2. i + 1 \in 1 .. Len(queue[n]) /\ k + 1 \in 1 .. Len(queue[n])
          BY <2>2, <4>2
        <5>3. queue[n][i + 1] = queue[n][k + 1]
          BY <2>2, <4>2
        <5> QED
          BY <5>1, <5>2, <5>3
      <4> QED
        BY <4>1, <4>2
    <3> QED
      BY <2>5, <2>6, <2>7, <3>1 DEF ClaimInv, OneHolder
  <2>12. HeldIsPending'
    BY <2>1, <2>5, <2>6, <2>8, <2>9 DEF ClaimInv, HeldIsPending
  <2> QED
    BY <2>10, <2>11, <2>12 DEF ClaimInv
<1>2. CASE WorkerExit(n, w)
  BY <1>2, ScheduleQuiet, QuietPreserves
<1> QED
  BY <1>1, <1>2 DEF Worker

LEMMA ExecuteClaims ==
    ASSUME TypeOK, TypeOK', HasOcc, ClaimInv,
           NEW n \in Nodes, NEW th \in Threads, Execute(n, th)
    PROVE  ClaimInv'
<1> USE DEF storeVars, recordVars, startVars, threadVars, tickVars, reapVars
<1>1. CASE ExecStart(n, th)
  <2> DEFINE c == cur[n][th]
  <2>1. c \in Occs /\ Holds(n, th, c) /\ pc[n][th] = "exec"
    BY <1>1 DEF ExecStart, HasOcc, Holds, Claimed
  <2>2. /\ status' = [status EXCEPT ![c] = "Running"]
        /\ ran' = [ran EXCEPT ![c] = @ + 1]
        /\ queue' = queue /\ reap' = reap
        /\ Goto(n, th, "tasks", c)
    BY <1>1 DEF ExecStart
  <2>3. ran[c] = 0 /\ status[c] = "Pending"
    BY <2>1 DEF ClaimInv, HeldIsPending
  <2>4. /\ status'[c] = "Running" /\ ran'[c] = 1
        /\ \A o \in Occs : o # c => status'[o] = status[o] /\ ran'[o] = ran[o]
    BY <2>1, <2>2, <2>3 DEF TypeOK
  <2>5. \A m \in Nodes, a \in Threads, o \in Occs :
            Holds(m, a, o)' =>
                /\ Holds(m, a, o)
                /\ o = c => pc'[m][a] = "tasks"
                /\ o # c => pc'[m][a] = pc[m][a]
    <3>1. \A m \in Nodes, a \in Threads, o \in Occs :
            Holds(m, a, o)' =>
                \/ Holds(m, a, o) /\ pc'[m][a] = pc[m][a] /\ (m # n \/ a # th)
                \/ m = n /\ a = th /\ o = c /\ pc'[m][a] = "tasks"
      BY <2>2, GotoEffect DEF Holds
    <3> QED
      BY <2>1, <3>1 DEF ClaimInv, OneHolder
  <2>6. \A m \in Nodes, o \in Occs : InQueue(m, o)' => InQueue(m, o) /\ o # c
    BY <2>1, <2>2 DEF InQueue, ClaimInv, OneHolder
  <2>7. AtMostOnce'
    BY <2>4 DEF ClaimInv, AtMostOnce
  <2>8. OneHolder'
    BY <2>2, <2>5, <2>6 DEF ClaimInv, OneHolder
  <2>9. HeldIsPending'
    <3>1. \A o \in Occs : Held(o)' => Held(o)
      BY <2>5, <2>6 DEF Held
    <3> QED
      BY <2>4, <2>5, <2>6, <3>1 DEF ClaimInv, HeldIsPending
  <2>10. StoreRemembers'
    <3>1. \A o \in Occs : status'[o] \in {"Absent", "Pending"} <=> ran'[o] = 0
      BY <2>4 DEF ClaimInv, StoreRemembers
    <3>2. \A o \in Occs : ran[o] > 0 => ran'[o] > 0
      BY <2>4
    <3>3. \A m \in Nodes, a \in Threads :
              pc'[m][a] = "tasks" => ran'[cur'[m][a]] > 0
      <4> SUFFICES ASSUME NEW m \in Nodes, NEW a \in Threads, pc'[m][a] = "tasks"
                   PROVE  ran'[cur'[m][a]] > 0
        OBVIOUS
      <4>1. CASE m = n /\ a = th
        BY <2>2, <2>4, <4>1, GotoEffect
      <4>2. CASE m # n \/ a # th
        <5>1. pc[m][a] = "tasks" /\ cur'[m][a] = cur[m][a]
          BY <2>2, <4>2, GotoEffect
        <5>2. cur[m][a] \in Occs /\ ran[cur[m][a]] > 0
          BY <5>1 DEF ClaimInv, StoreRemembers, HasOcc
        <5> QED
          BY <3>2, <5>1, <5>2
      <4> QED
        BY <4>1, <4>2
    <3>4. \A m \in Nodes : \A o \in reap'[m] : ran'[o] > 0
      <4> SUFFICES ASSUME NEW m \in Nodes, NEW o \in reap[m]
                   PROVE  ran'[o] > 0
        BY <2>2
      <4>1. o \in Occs /\ ran[o] > 0
        BY DEF ClaimInv, StoreRemembers, TypeOK
      <4> QED
        BY <3>2, <4>1
    <3> QED
      BY <3>1, <3>3, <3>4 DEF StoreRemembers
  <2> QED
    BY <2>7, <2>8, <2>9, <2>10 DEF ClaimInv
<1>2. CASE ExecStartFails(n, th)
  BY <1>2, ScheduleQuiet, QuietPreserves
<1>3. CASE ExecFinish(n, th)
  BY <1>3, FinishQuiet, QuietPreserves
<1> QED
  BY <1>1, <1>2, <1>3 DEF Execute

LEMMA ReaperQuiet ==
    ASSUME TypeOK, ClaimInv, NEW n \in Nodes, Reaper(n)
    PROVE  Quiet
<1> USE DEF storeVars, recordVars, startVars, threadVars, tickVars, reapVars
<1>1. CASE ReapList(n)
  BY <1>1 DEF ReapList, Stale, Quiet, TypeOK
<1>2. CASE ReaperExit(n)
  BY <1>2 DEF ReaperExit, Quiet
<1>3. ASSUME NEW o \in Occs, ReapWrite(n, o)
      PROVE  Quiet
  <2>1. ran[o] > 0
    BY <1>3 DEF ReapWrite, ClaimInv, StoreRemembers
  <2>2. \A x \in Occs :
            status'[x] = status[x] \/ (ran[x] > 0 /\ status'[x] \in Final)
    BY <1>3, <2>1 DEF ReapWrite, TypeOK, Final
  <2> QED
    BY <1>3, <2>2 DEF ReapWrite, Quiet, TypeOK
<1> QED
  BY <1>1, <1>2, <1>3 DEF Reaper

LEMMA NextClaims ==
    ASSUME TypeOK, TypeOK', HasOcc, ClaimInv, [Next]_vars
    PROVE  ClaimInv'
<1> USE DEF storeVars, recordVars, startVars, threadVars, tickVars, reapVars
<1>1. CASE UNCHANGED vars
  <2>1. Quiet
    BY <1>1 DEF vars, Quiet
  <2> QED
    BY <2>1, QuietPreserves
<1>2. CASE Advance
  <2>1. Quiet
    BY <1>2 DEF Advance, Quiet
  <2> QED
    BY <2>1, QuietPreserves
<1>3. ASSUME NEW j \in Jobs, DeleteJob(j)
      PROVE  ClaimInv'
  <2>1. Quiet
    BY <1>3 DEF DeleteJob, Quiet
  <2> QED
    BY <2>1, QuietPreserves
<1>4. ASSUME NEW n \in Nodes, NodeStep(n)
      PROVE  ClaimInv'
  <2>1. CASE Process(n) \/ Recover(n) \/ Reaper(n)
    BY <2>1, ProcessQuiet, RecoverQuiet, ReaperQuiet, QuietPreserves
  <2>2. ASSUME NEW j \in Jobs, Ticker(n, j) \/ Watcher(n, j)
        PROVE  ClaimInv'
    BY <2>2, WatchQuiet, QuietPreserves
  <2> QED
    BY <1>4, <2>1, <2>2, WorkerClaims, ScheduleClaims, ExecuteClaims DEF NodeStep
<1> QED
  BY <1>1, <1>2, <1>3, <1>4 DEF Next

(* The inductive invariant holds of every behaviour. *)
LEMMA Invariance == Spec => [](TypeOK /\ HasOcc /\ ClaimInv)
<1> DEFINE Inv == TypeOK /\ HasOcc /\ ClaimInv
<1>1. Init => Inv
  BY InitType, InitClaims
<1>2. Inv /\ [Next]_vars => Inv'
  BY NextType, NextClaims
<1> QED
  BY <1>1, <1>2, PTL DEF Spec

(* However many nodes race for an occurrence, crash and recover, its tasks  *)
(* are started at most once: CreateJobOccurrence hands out each claim once, *)
(* and no step of pool, recovery, executor or reaper copies a claim.        *)
THEOREM TasksStartAtMostOnce == Spec => []AtMostOnce
<1>1. ClaimInv => AtMostOnce
  BY DEF ClaimInv
<1> QED
  BY <1>1, Invariance, PTL

(* A claimed occurrence has one holder among all goroutines and queues of   *)
(* all nodes, and is Pending in the store until that holder starts it.      *)
THEOREM ClaimsAreExclusive == Spec => [](OneHolder /\ HeldIsPending)
<1>1. ClaimInv => OneHolder /\ HeldIsPending
  BY DEF ClaimInv
<1> QED
  BY <1>1, Invariance, PTL

-------------------------------------------------------------------------------
(* What a step may do to a record. *)
NotRevived ==
    \A o \in Occs :
        /\ status[o] \in Final => status'[o] \in Final
        /\ status[o] = "Pending" => status'[o] \in {"Pending", "Running"}
        /\ status[o] # "Absent" => status'[o] # "Absent"

LEMMA QuietRevivesNothing ==
    ASSUME ClaimInv, Quiet
    PROVE  NotRevived
<1>1. \A o \in Occs : status[o] = "Pending" => ran[o] = 0
  BY DEF ClaimInv, StoreRemembers
<1> QED
  BY <1>1 DEF Quiet, NotRevived, Final

LEMMA NextRevivesNothing ==
    ASSUME TypeOK, HasOcc, ClaimInv, Next
    PROVE  NotRevived
<1> USE ThreadTypes
        DEF storeVars, recordVars, startVars, threadVars, tickVars, reapVars
<1>1. CASE Advance
  BY <1>1 DEF Advance, NotRevived
<1>2. ASSUME NEW j \in Jobs, DeleteJob(j)
      PROVE  NotRevived
  BY <1>2 DEF DeleteJob, NotRevived
<1>3. ASSUME NEW n \in Nodes, Process(n) \/ Recover(n) \/ Reaper(n)
      PROVE  NotRevived
  BY <1>3, ProcessQuiet, RecoverQuiet, ReaperQuiet, QuietRevivesNothing
<1>4. ASSUME NEW n \in Nodes, NEW j \in Jobs, Ticker(n, j) \/ Watcher(n, j)
      PROVE  NotRevived
  BY <1>4, WatchQuiet, QuietRevivesNothing
<1>5. ASSUME NEW n \in Nodes, NEW w \in Workers, Worker(n, w)
      PROVE  NotRevived
  BY <1>5 DEF Worker, Take, WorkerExit, NotRevived
<1>6. ASSUME NEW n \in Nodes, NEW th \in Threads, Schedule(n, th)
      PROVE  NotRevived
  <2>1. CASE CreateWins(n, th)
    BY <2>1 DEF CreateWins, Record, NotRevived, TypeOK, HasOcc, Final
  <2>2. CASE ~CreateWins(n, th)
    BY <1>6, <2>2 DEF Schedule, CreateLoses, Submit, SubmitSend, SubmitRefused,
       SubmitPanic, Die, NotRevived
  <2> QED
    BY <2>1, <2>2
<1>7. ASSUME NEW n \in Nodes, NEW th \in Threads, Execute(n, th)
      PROVE  NotRevived
  <2>1. CASE ExecStart(n, th)
    <3>1. cur[n][th] \in Occs /\ status[cur[n][th]] = "Pending"
      BY <2>1 DEF ExecStart, HasOcc, ClaimInv, HeldIsPending, Holds, Claimed
    <3> QED
      BY <2>1, <3>1 DEF ExecStart, NotRevived, TypeOK, Final
  <2>2. CASE ExecStartFails(n, th)
    BY <2>2 DEF ExecStartFails, NotRevived
  <2>3. CASE ExecFinish(n, th)
    <3>1. cur[n][th] \in Occs /\ ran[cur[n][th]] > 0
      BY <2>3 DEF ExecFinish, HasOcc, ClaimInv, StoreRemembers
    <3>2. status[cur[n][th]] \notin {"Absent", "Pending"}
      BY <3>1 DEF ClaimInv, StoreRemembers
    <3> QED
      BY <2>3, <3>1, <3>2 DEF ExecFinish, NotRevived, TypeOK, Final
  <2> QED
    BY <1>7, <2>1, <2>2, <2>3 DEF Execute
<1> QED
  BY <1>1, <1>2, <1>3, <1>4, <1>5, <1>6, <1>7 DEF Next, NodeStep

(* No late watcher, recovery, executor or reaper revives a record: final    *)
(* records stay final, a Pending one can only become Running.               *)
THEOREM RecordsAreNeverRevived == Spec => NeverRevived
<1>1. TypeOK /\ HasOcc /\ ClaimInv /\ [Next]_vars => [NotRevived]_vars
  BY NextRevivesNothing
<1>2. Spec => [][NotRevived]_vars
  BY <1>1, Invariance, PTL DEF Spec
<1> QED
  BY <1>2 DEF NeverRevived, NotRevived
===============================================================================
