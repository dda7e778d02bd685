---------------------------- MODULE ExecutorProofs ----------------------------
(***************************************************************************)
(* What holds of Executor for any number of tasks in any order, any set of *)
(* configurations, any retry policy and any number of failing store calls. *)
(***************************************************************************)
EXTENDS Executor, FiniteSetTheorems, TLAPS

(* TypeOK without the bound on the attempts, which is not inductive alone. *)
Types ==
    /\ conf \in Configs
    /\ opc \in {"begin", "tasks", "final", "done", "aborted"}
    /\ jobErr \in CtxErrs
    /\ groupErr \in CtxErrs
    /\ attErr \in [Tasks -> CtxErrs]
    /\ tpc \in [Tasks -> TaskStates]
    /\ atts \in [Tasks -> Seq(Ended)]
    /\ final \in [Tasks -> Finals \cup {"none"}]
    /\ reports \in Seq(Tasks)
    /\ outcome \in {"none", "completed", "failed", "canceled"}
    /\ occ \in {"Pending", "Running", "Completed", "Failed"}
    /\ taskRun \in [Tasks -> Finals \cup {"none", "Pending"}]
    /\ attRec \in [Tasks -> [0 .. MaxTries -> Ended \cup {"none", "Running"}]]
    /\ faults \in 0 .. MaxFaults

(* executeTask has not returned. *)
Working == {"idle", "begin", "attempt", "fn", "failed", "succeeded"}

(* RetryDiscipline of one task, with what holds while the task is at work: *)
(* no attempt was a success before the last one, and an attempt is begun   *)
(* only while retries are left.                                            *)
TaskInv(t) ==
    /\ final[t] = "none" <=> tpc[t] \in Working
    /\ tpc[t] \in {"idle", "begin"} => atts[t] = <<>>
    /\ tpc[t] \in {"attempt", "fn"} => Len(atts[t]) <= MaxRetries(t)
    /\ tpc[t] \in {"idle", "begin", "attempt", "fn", "failed"} =>
          \A i \in 1 .. Len(atts[t]) : atts[t][i] # "Success"
    /\ tpc[t] = "succeeded" =>
          atts[t] # <<>> /\ atts[t][Len(atts[t])] = "Success"
    /\ Len(atts[t]) <= MaxRetries(t) + 1
    /\ \A i \in 1 .. Len(atts[t]) : atts[t][i] = "Success" => i = Len(atts[t])
    /\ final[t] = "Success" => atts[t] # <<>> /\ atts[t][Len(atts[t])] = "Success"
    /\ final[t] \in {"Failed", "Canceled"} =>
          /\ \A i \in 1 .. Len(atts[t]) : atts[t][i] # "Success"
          /\ final[t] = "Failed" <=> Len(atts[t]) = MaxRetries(t) + 1

RetryInv == \A t \in Tasks : TaskInv(t)

(* What the store says of one task as long as no call failed. *)
AuditTask(t) ==
    /\ taskRun[t] = IF tpc[t] \in {"idle", "begin"} THEN "none"
                    ELSE IF tpc[t] \in Working THEN "Pending" ELSE final[t]
    /\ \A n \in 0 .. MaxTries :
          attRec[t][n] = IF n < Len(atts[t]) THEN atts[t][n + 1]
                         ELSE IF n = Len(atts[t]) /\ tpc[t] = "fn" THEN "Running"
                         ELSE "none"

AuditInv ==
    faults = 0 =>
        /\ opc = "done" => occ = IF ReturnsError THEN "Failed" ELSE "Completed"
        /\ \A t \in Tasks : AuditTask(t)

Reported(t) == \E i \in 1 .. Len(reports) : reports[i] = t

(* Why a task may be canceled. *)
Cause ==
    \/ jobErr # "none"
    \/ /\ conf.mode = "Parallel"
       /\ \E t \in Tasks : /\ Reported(t) /\ final[t] = "Failed"
                           /\ Strategy(t) = "Fail-Fast"

(* The reports are those of the tasks that handed one in, each once, and   *)
(* no context ends and no task is canceled without a cause.                *)
ReportInv ==
    /\ \A t \in Tasks : Reported(t) <=> tpc[t] \in {"reported", "done"}
    /\ \A i, j \in 1 .. Len(reports) : reports[i] = reports[j] => i = j
    /\ conf.mode = "Sequential" => \A t \in Tasks : tpc[t] # "reported"
    /\ groupErr # "none" => Cause
    /\ \A t \in Tasks : final[t] = "Canceled" => Cause

(* Tasks are at work only in the middle of ExecuteJobOccurrence, and a     *)
(* parallel group waits for all of them.                                   *)
Settled ==
    /\ opc # "tasks" => \A t \in Tasks : tpc[t] \in {"idle", "done"}
    /\ opc = "begin" => reports = <<>>
    /\ conf.mode = "Parallel" /\ opc \in {"final", "done"} =>
          \A t \in Tasks : tpc[t] = "done"

(* A task that lets the loop of a sequential job go on. *)
Passes(t) ==
    /\ final[t] # "Canceled"
    /\ conf.strategy = "Fail-Fast" => final[t] # "Failed"

(* The loop of executeSequential: what is reported is a prefix of the      *)
(* order, what comes after the task at work is untouched, and every task   *)
(* but the last let the loop go on.                                        *)
LoopInv ==
    conf.mode = "Sequential" =>
        /\ Len(reports) <= Len(Order)
        /\ \A i \in 1 .. Len(reports) : reports[i] = Order[i]
        /\ \A i \in 1 .. Len(Order) :
              i > Len(reports) + 1 => tpc[Order[i]] = "idle"
        /\ \A i \in 1 .. Len(reports) :
              i < Len(reports) \/ opc = "tasks" => Passes(Order[i])

OutcomeInv ==
    /\ opc \in {"begin", "tasks", "aborted"} =>
          outcome = "none" /\ occ # "Completed"
    /\ conf.mode = "Sequential" /\ outcome = "completed" =>
          \A t \in Tasks : tpc[t] = "done" /\ Passes(t)
    /\ occ = "Completed" => opc = "done" /\ ~ReturnsError

Inv == /\ Types /\ RetryInv /\ AuditInv /\ ReportInv /\ Settled /\ LoopInv
       /\ OutcomeInv

-------------------------------------------------------------------------------
LEMMA ConfType ==
    ASSUME Types
    PROVE  /\ conf.mode \in {"Sequential", "Parallel"}
           /\ \A t \in Tasks : MaxRetries(t) \in 0 .. MaxTries
<1>1. conf \in JobConfig
  BY ConfigsAssumption DEF Types
<1>2. conf.mode \in {"Sequential", "Parallel"}
  BY <1>1 DEF JobConfig
<1>3. ASSUME NEW t \in Tasks PROVE MaxRetries(t) \in 0 .. MaxTries
  <2>1. /\ conf.tasks[t].retries \in (0 .. MaxTries) \cup {Inherit}
        /\ conf.defaults.retries \in (0 .. MaxTries) \cup {Inherit}
    BY <1>1 DEF JobConfig, TaskConfig
  <2> QED
    BY <2>1, BoundsAssumption DEF MaxRetries, First
<1> QED
  BY <1>2, <1>3

LEMMA InitTypes == Init => Types
BY BoundsAssumption DEF Init, Types, CtxErrs, TaskStates, Ended

LEMMA FaultTypes ==
    ASSUME Types, Stored \/ Lost
    PROVE  faults' \in 0 .. MaxFaults
BY BoundsAssumption DEF Types, Stored, Lost

LEMMA AttemptTypes ==
    ASSUME Types, NEW t \in Tasks, NEW n, NEW s \in Ended \cup {"none", "Running"},
           attRec' = attRec \/ attRec' = [attRec EXCEPT ![t][n] = s]
    PROVE  attRec' \in [Tasks -> [0 .. MaxTries -> Ended \cup {"none", "Running"}]]
<1> DEFINE R == [0 .. MaxTries -> Ended \cup {"none", "Running"}]
<1>1. attRec \in [Tasks -> R]
  BY DEF Types
<1>2. [attRec[t] EXCEPT ![n] = s] \in R
  BY <1>1
<1> QED
  BY <1>1, <1>2

LEMMA TaskTypes ==
    ASSUME Types, NEW t \in Tasks, Task(t) \/ FnReturns(t) \/ TaskTimeout(t)
    PROVE  Types'
<1> USE DEF Types, ctxVars, storeVars, CtxErrs, TaskStates
<1>1. CASE BeginTask(t)
  <2>1. taskRun' \in [Tasks -> Finals \cup {"none", "Pending"}]
    BY <1>1 DEF BeginTask
  <2>2. faults' \in 0 .. MaxFaults
    BY <1>1, FaultTypes DEF BeginTask
  <2> QED
    BY <1>1, <2>1, <2>2 DEF BeginTask
<1>2. CASE BeginAttempt(t)
  <2>1. attRec' \in [Tasks -> [0 .. MaxTries -> Ended \cup {"none", "Running"}]]
    <3>1. \/ attRec' = attRec
          \/ attRec' = [attRec EXCEPT ![t][Len(atts[t])] = "Running"]
      BY <1>2 DEF BeginAttempt
    <3> HIDE DEF Types
    <3> QED
      BY <3>1, AttemptTypes, Zenon
  <2>2. faults' \in 0 .. MaxFaults
    BY <1>2, FaultTypes DEF BeginAttempt
  <2> QED
    BY <1>2, <2>1, <2>2 DEF BeginAttempt
<1>3. ASSUME NEW status \in Finals, Return(t, status)
      PROVE  Types'
  <2>1. taskRun' \in [Tasks -> Finals \cup {"none", "Pending"}]
    BY <1>3 DEF Return, UpdateTaskRun
  <2>2. faults' \in 0 .. MaxFaults
    BY <1>3, FaultTypes DEF Return, UpdateTaskRun
  <2> QED
    BY <1>3, <2>1, <2>2 DEF Return
<1>4. CASE TaskSucceeds(t) \/ TaskCanceled(t) \/ TaskFails(t)
  BY <1>3, <1>4 DEF TaskSucceeds, TaskCanceled, TaskFails, Finals
<1>5. CASE Retry(t)
  BY <1>5 DEF Retry
<1>6. CASE SequentialNext(t)
  BY <1>6 DEF SequentialNext
<1>7. CASE AddReport(t)
  BY <1>7 DEF AddReport
<1>8. CASE CheckStrategy(t)
  BY <1>8 DEF CheckStrategy, Cancel, Falls
<1>9. CASE FnReturns(t)
  <2>1. PICK ok \in BOOLEAN : FnReturns(t)!2!(ok)
    BY <1>9 DEF FnReturns
  <2> DEFINE status == IF ok THEN "Success"
                       ELSE IF attErr[t] = "DeadlineExceeded" THEN "Timeout"
                       ELSE "Failed"
  <2>2. status \in Ended
    BY DEF Ended
  <2>3. atts' = [atts EXCEPT ![t] = Append(@, status)]
    BY <2>1
  <2>4. atts' \in [Tasks -> Seq(Ended)]
    BY <2>2, <2>3
  <2>5. attRec' \in [Tasks -> [0 .. MaxTries -> Ended \cup {"none", "Running"}]]
    <3>1. \/ attRec' = attRec
          \/ attRec' = [attRec EXCEPT ![t][Len(atts[t])] = status]
      BY <2>1
    <3> HIDE DEF Types, status
    <3> QED
      BY <2>2, <3>1, AttemptTypes, Zenon
  <2>6. faults' \in 0 .. MaxFaults
    BY <2>1, FaultTypes
  <2>7. tpc' \in [Tasks -> TaskStates]
    BY <2>1
  <2> QED
    BY <1>9, <2>4, <2>5, <2>6, <2>7 DEF FnReturns
<1>10. CASE TaskTimeout(t)
  BY <1>10 DEF TaskTimeout
<1> QED
  BY <1>1, <1>2, <1>4, <1>5, <1>6, <1>7, <1>8, <1>9, <1>10 DEF Task

LEMMA NextTypes == Types /\ [Next]_vars => Types'
<1> SUFFICES ASSUME Types, [Next]_vars PROVE Types'
  OBVIOUS
<1> USE BoundsAssumption DEF Types, ctxVars, storeVars, CtxErrs, TaskStates, Stored, Lost
<1>1. CASE UNCHANGED vars
  BY <1>1 DEF vars
<1>2. CASE Group
  BY <1>2 DEF Group, ExecuteJobOccurrence, ExecuteFails, SequentialEnds,
              ParallelEnds, FinalStatus
<1>3. CASE ExecutionTimeout \/ Shutdown
  BY <1>3 DEF ExecutionTimeout, Shutdown, JobCtxEnds, Cancel, Falls
<1>4. CASE Returned
  BY <1>4 DEF Returned, vars
<1> QED
  BY <1>1, <1>2, <1>3, <1>4, TaskTypes DEF Next

-------------------------------------------------------------------------------
(* A task moves along without doing anything of its own: it is released,   *)
(* or its report is handed in.                                             *)
MovesAlong(t) ==
    /\ \/ tpc'[t] = tpc[t]
       \/ tpc[t] = "idle" /\ tpc'[t] = "begin"
       \/ tpc[t] \in {"returned", "reported"} /\ tpc'[t] \in {"reported", "done"}
    /\ atts'[t] = atts[t] /\ final'[t] = final[t]
    /\ taskRun'[t] = taskRun[t] /\ attRec'[t] = attRec[t]

LEMMA MovesAlongKeeps ==
    ASSUME NEW t \in Tasks, conf' = conf, MovesAlong(t)
    PROVE  /\ TaskInv(t) => TaskInv(t)'
           /\ AuditTask(t) => AuditTask(t)'
<1>1. MaxRetries(t)' = MaxRetries(t)
  BY DEF MaxRetries
<1>2. TaskInv(t) => TaskInv(t)'
  BY <1>1 DEF MovesAlong, TaskInv, Working
<1>3. AuditTask(t) => AuditTask(t)'
  BY DEF MovesAlong, AuditTask, Working
<1> QED
  BY <1>2, <1>3

(* One task does something, the others move along. *)
LEMMA OneTaskKeeps ==
    ASSUME RetryInv, NEW t \in Tasks, conf' = conf,
           \A u \in Tasks \ {t} : MovesAlong(u),
           TaskInv(t)'
    PROVE  RetryInv'
BY MovesAlongKeeps DEF RetryInv

LEMMA AttemptKeepsRetry ==
    ASSUME Types, RetryInv, NEW t \in Tasks, BeginTask(t) \/ BeginAttempt(t) \/ Retry(t)
    PROVE  RetryInv'
<1> USE DEF Types, ctxVars, storeVars
<1>1. \A u \in Tasks \ {t} : MovesAlong(u)
  BY DEF BeginTask, BeginAttempt, Retry, MovesAlong
<1>2. MaxRetries(t)' = MaxRetries(t) /\ conf' = conf
  BY DEF MaxRetries, BeginTask, BeginAttempt, Retry
<1>3. TaskInv(t)
  BY DEF RetryInv
<1>4. TaskInv(t)'
  BY <1>2, <1>3, ConfType DEF TaskInv, Working, BeginTask, BeginAttempt, Retry
<1> QED
  BY <1>1, <1>2, <1>4, OneTaskKeeps

LEMMA FnReturnsKeepsRetry ==
    ASSUME Types, RetryInv, NEW t \in Tasks, FnReturns(t)
    PROVE  RetryInv'
<1> USE DEF Types, ctxVars
<1>1. \A u \in Tasks \ {t} : MovesAlong(u)
  BY DEF FnReturns, MovesAlong
<1>2. MaxRetries(t)' = MaxRetries(t) /\ conf' = conf
  BY DEF MaxRetries, FnReturns
<1>3. TaskInv(t) /\ tpc[t] = "fn"
  BY DEF RetryInv, FnReturns
<1>4. PICK status \in Ended :
          /\ atts'[t] = Append(atts[t], status)
          /\ tpc'[t] = IF status = "Success" THEN "succeeded" ELSE "failed"
  <2>1. PICK ok \in BOOLEAN : FnReturns(t)!2!(ok)
    BY DEF FnReturns
  <2>2. CASE ok
    BY <2>1, <2>2 DEF Ended
  <2>3. CASE ~ok
    BY <2>1, <2>3 DEF Ended
  <2> QED
    BY <2>2, <2>3
<1>5. /\ Len(atts'[t]) = Len(atts[t]) + 1 /\ Len(atts[t]) \in Nat
      /\ atts'[t][Len(atts[t]) + 1] = status
      /\ \A i \in 1 .. Len(atts[t]) : atts'[t][i] = atts[t][i]
  BY <1>4
<1>6. final'[t] = "none"
  BY <1>3 DEF TaskInv, FnReturns, Working
<1>7. \A i \in 1 .. Len(atts[t]) : atts[t][i] # "Success"
  BY <1>3 DEF TaskInv
<1>8. Len(atts[t]) <= MaxRetries(t) /\ MaxRetries(t) \in Nat
  BY <1>3, ConfType DEF TaskInv
<1>9. /\ atts'[t] # <<>> /\ Len(atts'[t]) <= MaxRetries(t)' + 1
      /\ \A i \in 1 .. Len(atts'[t]) : atts'[t][i] = "Success" => i = Len(atts'[t])
      /\ status # "Success" => \A i \in 1 .. Len(atts'[t]) : atts'[t][i] # "Success"
  <2>1. \A i \in 1 .. Len(atts'[t]) :
            i \in 1 .. Len(atts[t]) \/ i = Len(atts[t]) + 1
    BY <1>5
  <2>2. atts'[t] # <<>>
    BY <1>5
  <2>3. Len(atts'[t]) <= MaxRetries(t)' + 1
    BY <1>2, <1>5, <1>8
  <2> QED
    BY <1>5, <1>7, <2>1, <2>2, <2>3
<1>10. TaskInv(t)'
  BY <1>4, <1>5, <1>6, <1>9 DEF TaskInv, Working
<1> QED
  BY <1>1, <1>2, <1>10, OneTaskKeeps

LEMMA ReturnKeepsRetry ==
    ASSUME Types, RetryInv, NEW t \in Tasks,
           TaskSucceeds(t) \/ TaskCanceled(t) \/ TaskFails(t)
    PROVE  RetryInv'
<1> USE DEF Types, ctxVars
<1>1. PICK status \in Finals :
          /\ Return(t, status)
          /\ tpc[t] \in {"succeeded", "failed"}
          /\ status = "Success" <=> tpc[t] = "succeeded"
          /\ status = "Failed" => Len(atts[t]) > MaxRetries(t)
          /\ status = "Canceled" => Len(atts[t]) <= MaxRetries(t)
  BY DEF TaskSucceeds, TaskCanceled, TaskFails, Finals
<1>2. \A u \in Tasks \ {t} : MovesAlong(u)
  BY <1>1 DEF Return, UpdateTaskRun, MovesAlong
<1>3. MaxRetries(t)' = MaxRetries(t) /\ conf' = conf
  BY <1>1 DEF MaxRetries, Return
<1>4. TaskInv(t)
  BY DEF RetryInv
<1>5. tpc'[t] = "returned" /\ final'[t] = status /\ atts' = atts
  BY <1>1 DEF Return
<1>6. TaskInv(t)'
  BY <1>1, <1>3, <1>4, <1>5, ConfType DEF TaskInv, Working, Finals
<1> QED
  BY <1>2, <1>3, <1>6, OneTaskKeeps

-------------------------------------------------------------------------------
(* Every task has its place in the order. *)
LEMMA PositionFacts ==
    /\ Len(Order) \in Nat
    /\ \A t \in Tasks : Position(t) \in 1 .. Len(Order) /\ Order[Position(t)] = t
    /\ \A i \in 1 .. Len(Order) : Order[i] \in Tasks /\ Position(Order[i]) = i
<1>1. Len(Order) \in Nat /\ \A i \in 1 .. Len(Order) : Order[i] \in Tasks
  BY OrderAssumption
<1>2. ASSUME NEW t \in Tasks
      PROVE  Position(t) \in 1 .. Len(Order) /\ Order[Position(t)] = t
  <2>1. \E i \in 1 .. Len(Order) : Order[i] = t
    BY OrderAssumption
  <2> QED
    BY <2>1, Zenon DEF Position
<1> QED
  BY <1>1, <1>2, OrderAssumption

(* In a sequential job the task that returns is the one after the reports. *)
LEMMA TaskInTurn ==
    ASSUME Inv, conf.mode = "Sequential",
           NEW t \in Tasks, tpc[t] \notin {"idle", "done"}
    PROVE  /\ opc = "tasks" /\ outcome = "none"
           /\ Len(reports) \in Nat /\ Len(reports) < Len(Order)
           /\ t = Order[Len(reports) + 1]
<1>1. opc = "tasks" /\ outcome = "none"
  BY DEF Inv, Settled, OutcomeInv
<1>2. PICK i \in 1 .. Len(Order) : Order[i] = t
  BY PositionFacts
<1>3. ~(i \in 1 .. Len(reports))
  BY <1>2 DEF Inv, LoopInv, ReportInv, Reported
<1>4. ~(i > Len(reports) + 1)
  BY <1>2 DEF Inv, LoopInv
<1>5. Len(reports) \in Nat
  BY DEF Inv, Types
<1>6. i = Len(reports) + 1
  BY <1>3, <1>4, <1>5, PositionFacts
<1> QED
  BY <1>1, <1>2, <1>5, <1>6, PositionFacts

(* Everything but the steps of executeTask itself. *)
LEMMA OthersMoveAlong ==
    ASSUME Inv,
           \/ Group \/ ExecutionTimeout \/ Shutdown \/ Returned \/ UNCHANGED vars
           \/ \E t \in Tasks : \/ SequentialNext(t) \/ AddReport(t)
                               \/ CheckStrategy(t) \/ TaskTimeout(t)
    PROVE  conf' = conf /\ \A u \in Tasks : MovesAlong(u)
<1> USE DEF ctxVars, storeVars, MovesAlong
<1>1. CASE ExecuteJobOccurrence
  <2>1. \A t \in Tasks : tpc[t] = "idle"
    BY <1>1 DEF ExecuteJobOccurrence, Inv, Settled, ReportInv, Reported
  <2> QED
    BY <1>1, <2>1 DEF ExecuteJobOccurrence
<1>2. CASE ExecuteFails \/ SequentialEnds \/ ParallelEnds \/ FinalStatus
  BY <1>2 DEF ExecuteFails, SequentialEnds, ParallelEnds, FinalStatus
<1>3. CASE ExecutionTimeout \/ Shutdown \/ Returned \/ UNCHANGED vars
  BY <1>3 DEF ExecutionTimeout, Shutdown, JobCtxEnds, Returned, vars
<1>4. ASSUME NEW t \in Tasks, SequentialNext(t)
      PROVE  conf' = conf /\ \A u \in Tasks : MovesAlong(u)
  <2>1. /\ Len(reports) \in Nat /\ Len(reports) < Len(Order)
        /\ t = Order[Len(reports) + 1]
    BY <1>4, TaskInTurn DEF SequentialNext
  <2>2. \A u \in Released(Len(reports) + 1) : tpc[u] = "idle"
    BY <1>4, <2>1, PositionFacts DEF SequentialNext, Released, Inv, LoopInv
  <2> QED
    BY <1>4, <2>2 DEF SequentialNext
<1>5. ASSUME NEW t \in Tasks, AddReport(t) \/ CheckStrategy(t) \/ TaskTimeout(t)
      PROVE  conf' = conf /\ \A u \in Tasks : MovesAlong(u)
  BY <1>5 DEF AddReport, CheckStrategy, TaskTimeout, Inv, Types
<1> QED
  BY <1>1, <1>2, <1>3, <1>4, <1>5 DEF Group

LEMMA NextRetry == Inv /\ [Next]_vars => RetryInv'
<1> SUFFICES ASSUME Inv, [Next]_vars PROVE RetryInv'
  OBVIOUS
<1>1. CASE conf' = conf /\ \A u \in Tasks : MovesAlong(u)
  BY <1>1, MovesAlongKeeps DEF Inv, RetryInv
<1>2. ASSUME NEW t \in Tasks, Task(t) \/ FnReturns(t) \/ TaskTimeout(t)
      PROVE  RetryInv'
  BY <1>1, <1>2, OthersMoveAlong, AttemptKeepsRetry, FnReturnsKeepsRetry,
     ReturnKeepsRetry DEF Inv, Task
<1> QED
  BY <1>1, <1>2, OthersMoveAlong DEF Next

-------------------------------------------------------------------------------
(* The records of one task. *)
LEMMA AttemptKeepsAudit ==
    ASSUME Inv, faults = 0, NEW t \in Tasks, faults' = 0,
           BeginTask(t) \/ BeginAttempt(t) \/ Retry(t)
    PROVE  AuditTask(t)'
<1> USE DEF Stored, Lost, ctxVars, storeVars, Inv, Types, Working
<1>1. AuditTask(t) /\ TaskInv(t) /\ Len(atts[t]) \in Nat
  BY DEF AuditInv, RetryInv
<1>2. CASE BeginTask(t)
  BY <1>1, <1>2 DEF BeginTask, AuditTask
<1>3. CASE Retry(t)
  BY <1>1, <1>3 DEF Retry, AuditTask
<1>4. CASE BeginAttempt(t)
  <2>1. attRec' = [attRec EXCEPT ![t][Len(atts[t])] = "Running"]
        /\ taskRun' = taskRun /\ atts' = atts /\ tpc'[t] = "fn" /\ tpc[t] = "attempt"
    BY <1>4 DEF BeginAttempt
  <2>2. \A n \in 0 .. MaxTries :
            attRec'[t][n] = IF n = Len(atts[t]) THEN "Running" ELSE attRec[t][n]
    BY <2>1
  <2> QED
    BY <1>1, <2>1, <2>2 DEF AuditTask
<1> QED
  BY <1>2, <1>3, <1>4

LEMMA FnReturnsKeepsAudit ==
    ASSUME Inv, faults = 0, NEW t \in Tasks, faults' = 0, FnReturns(t)
    PROVE  AuditTask(t)'
<1> USE DEF Stored, Lost, ctxVars, Inv, Types, Working
<1> DEFINE n == Len(atts[t])
<1>1. AuditTask(t) /\ TaskInv(t) /\ n \in Nat /\ tpc[t] = "fn"
  BY DEF AuditInv, RetryInv, FnReturns
<1>2. n \in 0 .. MaxTries
  BY <1>1, ConfType, BoundsAssumption DEF TaskInv
<1>3. attRec[t][n] = "Running"
  BY <1>1, <1>2 DEF AuditTask
<1>4. PICK status \in Ended :
          /\ atts'[t] = Append(atts[t], status)
          /\ tpc'[t] \in {"succeeded", "failed"}
          /\ attRec' = [attRec EXCEPT ![t][n] = status]
  <2>1. PICK ok \in BOOLEAN : FnReturns(t)!2!(ok)
    BY DEF FnReturns
  <2>2. CASE ok
    BY <1>3, <2>1, <2>2 DEF Ended
  <2>3. CASE ~ok
    BY <1>3, <2>1, <2>3 DEF Ended
  <2> QED
    BY <2>2, <2>3
<1>5. /\ Len(atts'[t]) = n + 1 /\ atts'[t][n + 1] = status
      /\ \A i \in 1 .. n : atts'[t][i] = atts[t][i]
  BY <1>4
<1>6. \A k \in 0 .. MaxTries :
          attRec'[t][k] = IF k = n THEN status ELSE attRec[t][k]
  BY <1>4
<1>7. taskRun' = taskRun
  BY DEF FnReturns
<1>8. /\ \A k \in 0 .. MaxTries :
            attRec[t][k] = IF k < n THEN atts[t][k + 1]
                           ELSE IF k = n THEN "Running" ELSE "none"
      /\ taskRun[t] = "Pending"
  BY <1>1 DEF AuditTask
<1> HIDE DEF Inv, Types, n
<1>9. ASSUME NEW k \in 0 .. MaxTries
      PROVE  attRec'[t][k] = IF k < n + 1 THEN atts'[t][k + 1] ELSE "none"
  <2>1. CASE k = n
    BY <1>5, <1>6, <2>1
  <2>2. CASE k < n
    <3>1. k + 1 \in 1 .. n
      BY <1>1, <2>2
    <3>2. attRec[t][k] = atts[t][k + 1]
      BY <1>8, <2>2
    <3> QED
      BY <1>1, <1>5, <1>6, <2>2, <3>1, <3>2
  <2>3. CASE k > n
    BY <1>1, <1>6, <1>8, <2>3
  <2> QED
    BY <1>1, <2>1, <2>2, <2>3
<1> QED
  BY <1>1, <1>4, <1>5, <1>7, <1>8, <1>9 DEF AuditTask, n

LEMMA ReturnKeepsAudit ==
    ASSUME Inv, faults = 0, NEW t \in Tasks, faults' = 0,
           TaskSucceeds(t) \/ TaskCanceled(t) \/ TaskFails(t)
    PROVE  AuditTask(t)'
<1> USE DEF Stored, Lost, ctxVars, Inv, Types, Working
<1>1. AuditTask(t)
  BY DEF AuditInv
<1>2. PICK status \in Finals :
          Return(t, status) /\ tpc[t] \in {"succeeded", "failed"}
  BY DEF TaskSucceeds, TaskCanceled, TaskFails, Finals
<1>3. /\ tpc'[t] = "returned" /\ final'[t] = status /\ atts' = atts
      /\ attRec' = attRec
  BY <1>2 DEF Return
<1>4. taskRun'[t] = status
  BY <1>1, <1>2 DEF Return, UpdateTaskRun, AuditTask
<1> QED
  BY <1>1, <1>2, <1>3, <1>4 DEF AuditTask

LEMMA NextAudit == Inv /\ [Next]_vars => AuditInv'
<1> SUFFICES ASSUME Inv, [Next]_vars, faults' = 0 PROVE AuditInv'
  BY DEF AuditInv
<1>1. faults = 0
  <2> USE BoundsAssumption DEF Inv, Types, Stored, Lost, ctxVars, storeVars
  <2>1. faults' = faults \/ faults' = faults + 1
    BY DEF Next, vars, Group, ExecuteJobOccurrence, ExecuteFails, SequentialEnds,
           ParallelEnds, FinalStatus, ExecutionTimeout, Shutdown, JobCtxEnds,
           Returned, Task, BeginTask, BeginAttempt, TaskSucceeds, Retry,
           TaskCanceled, TaskFails, Return, UpdateTaskRun, SequentialNext,
           AddReport, CheckStrategy, FnReturns, TaskTimeout
  <2> QED
    BY <2>1
<1>2. \A t \in Tasks : AuditTask(t)
  BY <1>1 DEF Inv, AuditInv
<1>3. ASSUME conf' = conf, \A u \in Tasks : MovesAlong(u)
      PROVE  \A u \in Tasks : AuditTask(u)'
  BY <1>2, <1>3, MovesAlongKeeps
<1>4. ASSUME NEW t \in Tasks,
             \/ BeginTask(t) \/ BeginAttempt(t) \/ Retry(t) \/ FnReturns(t)
             \/ TaskSucceeds(t) \/ TaskCanceled(t) \/ TaskFails(t)
      PROVE  /\ \A u \in Tasks : AuditTask(u)'
             /\ opc' = opc /\ occ' = occ /\ outcome' = outcome /\ conf' = conf
  <2>1. AuditTask(t)'
    BY <1>1, <1>4, AttemptKeepsAudit, FnReturnsKeepsAudit, ReturnKeepsAudit
  <2>2. /\ \A u \in Tasks \ {t} : MovesAlong(u)
        /\ opc' = opc /\ occ' = occ /\ outcome' = outcome /\ conf' = conf
    BY <1>4 DEF BeginTask, BeginAttempt, Retry, FnReturns, TaskSucceeds,
       TaskCanceled, TaskFails, Return, UpdateTaskRun, MovesAlong, Inv, Types,
       ctxVars, storeVars
  <2> QED
    BY <1>2, <2>1, <2>2, MovesAlongKeeps
<1>5. ASSUME NEW t \in Tasks,
             \/ BeginTask(t) \/ BeginAttempt(t) \/ Retry(t) \/ FnReturns(t)
             \/ TaskSucceeds(t) \/ TaskCanceled(t) \/ TaskFails(t)
      PROVE  AuditInv'
  BY <1>1, <1>4, <1>5 DEF Inv, AuditInv, ReturnsError
<1>6. CASE \/ Group \/ ExecutionTimeout \/ Shutdown \/ Returned \/ UNCHANGED vars
           \/ \E t \in Tasks : \/ SequentialNext(t) \/ AddReport(t)
                               \/ CheckStrategy(t) \/ TaskTimeout(t)
  <2>1. \A u \in Tasks : AuditTask(u)'
    BY <1>3, <1>6, OthersMoveAlong
  <2>2. opc' = "done" => occ' = IF ReturnsError' THEN "Failed" ELSE "Completed"
    <3> USE DEF Inv, AuditInv, ReturnsError, ctxVars, storeVars
    <3>1. CASE Group
      BY <1>1, <3>1 DEF Group, ExecuteJobOccurrence, ExecuteFails,
         SequentialEnds, ParallelEnds, FinalStatus, Lost
    <3>2. CASE ExecutionTimeout \/ Shutdown \/ Returned \/ UNCHANGED vars
      BY <1>1, <3>2 DEF ExecutionTimeout, Shutdown, JobCtxEnds, Returned, vars
    <3>3. ASSUME NEW t \in Tasks, SequentialNext(t)
          PROVE  opc' # "done"
      BY <3>3, TaskInTurn DEF SequentialNext
    <3>4. ASSUME NEW t \in Tasks, AddReport(t) \/ CheckStrategy(t) \/ TaskTimeout(t)
          PROVE  UNCHANGED <<opc, occ, outcome, conf>>
      BY <3>4 DEF AddReport, CheckStrategy, TaskTimeout
    <3> QED
      BY <1>1, <1>6, <3>1, <3>2, <3>3, <3>4
  <2> QED
    BY <2>1, <2>2 DEF AuditInv
<1> QED
  BY <1>5, <1>6 DEF Next, Task

-------------------------------------------------------------------------------
(* A report is handed in. *)
LEMMA AppendReport ==
    ASSUME Types, NEW t \in Tasks, reports' = Append(reports, t)
    PROVE  /\ Len(reports') = Len(reports) + 1 /\ Len(reports) \in Nat
           /\ reports'[Len(reports) + 1] = t
           /\ \A i \in 1 .. Len(reports) : reports'[i] = reports[i]
           /\ \A u \in Tasks : Reported(u)' <=> Reported(u) \/ u = t
<1>1. /\ Len(reports') = Len(reports) + 1 /\ Len(reports) \in Nat
      /\ reports'[Len(reports) + 1] = t
      /\ \A i \in 1 .. Len(reports) : reports'[i] = reports[i]
  BY DEF Types
<1>2. Reported(t)' /\ \A u \in Tasks : Reported(u) => Reported(u)'
  BY <1>1 DEF Reported
<1>3. \A u \in Tasks : Reported(u)' => Reported(u) \/ u = t
  BY <1>1 DEF Reported
<1> QED
  BY <1>1, <1>2, <1>3

(* A cause remains: contexts do not recover, reports are not withdrawn and *)
(* a task that is reported keeps its status.                               *)
LEMMA CauseRemains ==
    ASSUME Cause, conf' = conf, jobErr # "none" => jobErr' # "none",
           \A t \in Tasks : Reported(t) /\ final[t] = "Failed" =>
               Reported(t)' /\ final'[t] = "Failed"
    PROVE  Cause'
BY DEF Cause, Strategy

(* A step after which the same tasks are reported. *)
LEMMA SameReports ==
    ASSUME Inv, Types', UNCHANGED <<conf, reports>>,
           jobErr # "none" => jobErr' # "none",
           \A t \in Tasks :
               /\ tpc'[t] \in {"reported", "done"} <=> tpc[t] \in {"reported", "done"}
               /\ tpc'[t] = "reported" => tpc[t] = "reported"
               /\ final[t] # "none" => final'[t] = final[t],
           groupErr' # "none" => Cause \/ jobErr' # "none",
           \A t \in Tasks : final'[t] = "Canceled" => Cause
    PROVE  ReportInv'
<1>1. \A t \in Tasks : Reported(t)' <=> Reported(t)
  BY DEF Reported
<1>2. Cause => Cause'
  BY <1>1, CauseRemains
<1>3. jobErr' # "none" => Cause'
  BY DEF Cause
<1> QED
  BY <1>1, <1>2, <1>3 DEF Inv, ReportInv

LEMMA HandInKeepsReports ==
    ASSUME Inv, NEW t \in Tasks, SequentialNext(t) \/ AddReport(t)
    PROVE  ReportInv'
<1> USE DEF ctxVars
<1>1. /\ reports' = Append(reports, t) /\ tpc[t] = "returned"
      /\ UNCHANGED <<conf, jobErr, groupErr, final>>
  BY DEF SequentialNext, AddReport
<1>2. /\ Len(reports') = Len(reports) + 1 /\ Len(reports) \in Nat
      /\ reports'[Len(reports) + 1] = t
      /\ \A i \in 1 .. Len(reports) : reports'[i] = reports[i]
      /\ \A u \in Tasks : Reported(u)' <=> Reported(u) \/ u = t
  BY <1>1, AppendReport DEF Inv
<1>3. ~Reported(t)
  BY <1>1 DEF Inv, ReportInv
<1>4. /\ tpc'[t] \in {"reported", "done"}
      /\ tpc'[t] = "reported" => conf.mode = "Parallel"
      /\ \A u \in Tasks \ {t} : tpc'[u] = tpc[u] \/ tpc'[u] = "begin"
  BY DEF SequentialNext, AddReport, Inv, Types
<1>5. \A u \in Tasks \ {t} : tpc'[u] # tpc[u] => tpc[u] = "idle"
  BY OthersMoveAlong, <1>4 DEF MovesAlong
<1>6. \A u \in Tasks : Reported(u)' <=> tpc'[u] \in {"reported", "done"}
  BY <1>2, <1>4, <1>5 DEF Inv, ReportInv
<1>7. \A i, j \in 1 .. Len(reports') : reports'[i] = reports'[j] => i = j
  <2>1. \A i \in 1 .. Len(reports') :
            i \in 1 .. Len(reports) \/ i = Len(reports) + 1
    BY <1>2
  <2>2. \A i \in 1 .. Len(reports) : reports'[i] # t
    BY <1>2, <1>3 DEF Reported
  <2>3. \A i, j \in 1 .. Len(reports) : reports'[i] = reports'[j] => i = j
    BY <1>2 DEF Inv, ReportInv
  <2> QED
    BY <1>2, <2>1, <2>2, <2>3
<1>8. conf'.mode = "Sequential" => \A u \in Tasks : tpc'[u] # "reported"
  BY <1>1, <1>4 DEF Inv, ReportInv
<1>9. Cause => Cause'
  BY <1>1, <1>2, CauseRemains
<1> QED
  BY <1>1, <1>6, <1>7, <1>8, <1>9 DEF Inv, ReportInv

LEMMA NextReports == Inv /\ Types' /\ [Next]_vars => ReportInv'
<1> SUFFICES ASSUME Inv, Types', [Next]_vars PROVE ReportInv'
  OBVIOUS
<1>0. /\ groupErr # "none" => Cause
      /\ \A t \in Tasks : final[t] = "Canceled" => Cause
  BY DEF Inv, ReportInv
<1> USE DEF ctxVars, storeVars
<1>1. CASE Group
  <2>1. UNCHANGED <<conf, reports, jobErr, groupErr, final>>
    BY <1>1 DEF Group, ExecuteJobOccurrence, ExecuteFails, SequentialEnds,
                ParallelEnds, FinalStatus
  <2>2. \A t \in Tasks : tpc'[t] = tpc[t] \/ (tpc[t] = "idle" /\ tpc'[t] = "begin")
    <3>1. CASE ExecuteJobOccurrence
      BY <1>1, <3>1, OthersMoveAlong DEF ExecuteJobOccurrence, MovesAlong
    <3> QED
      BY <1>1, <3>1 DEF Group, ExecuteFails, SequentialEnds, ParallelEnds,
                        FinalStatus
  <2> QED
    BY <1>0, <2>1, <2>2, SameReports
<1>2. CASE ExecutionTimeout \/ Shutdown
  <2>1. UNCHANGED <<conf, reports, tpc, final>> /\ jobErr' # "none"
    BY <1>2 DEF ExecutionTimeout, Shutdown, JobCtxEnds
  <2> QED
    BY <1>0, <2>1, SameReports
<1>3. CASE Returned \/ UNCHANGED vars
  <2>1. UNCHANGED <<conf, reports, tpc, final, jobErr, groupErr>>
    BY <1>3 DEF Returned, vars
  <2> QED
    BY <1>0, <2>1, SameReports
<1>4. ASSUME NEW t \in Tasks,
             BeginTask(t) \/ BeginAttempt(t) \/ Retry(t) \/ FnReturns(t) \/ TaskTimeout(t)
      PROVE  ReportInv'
  <2>1. UNCHANGED <<conf, reports, jobErr, groupErr, final>>
    BY <1>4 DEF BeginTask, BeginAttempt, Retry, FnReturns, TaskTimeout
  <2>2. \A u \in Tasks :
            \/ tpc'[u] = tpc[u]
            \/ {tpc[u], tpc'[u]} \cap {"reported", "done"} = {}
    BY <1>4 DEF BeginTask, BeginAttempt, Retry, FnReturns, TaskTimeout, Inv, Types
  <2> QED
    BY <1>0, <2>1, <2>2, SameReports
<1>5. ASSUME NEW t \in Tasks, TaskSucceeds(t) \/ TaskCanceled(t) \/ TaskFails(t)
      PROVE  ReportInv'
  <2>1. PICK status \in Finals :
            /\ Return(t, status) /\ tpc[t] \in {"succeeded", "failed"}
            /\ status = "Canceled" => groupErr # "none"
    BY <1>5 DEF TaskSucceeds, TaskCanceled, TaskFails, Finals
  <2>2. /\ UNCHANGED <<conf, reports, jobErr, groupErr>>
        /\ tpc'[t] = "returned" /\ final'[t] = status
        /\ \A u \in Tasks \ {t} : tpc'[u] = tpc[u] /\ final'[u] = final[u]
    BY <2>1 DEF Return, Inv, Types
  <2>3. final[t] = "none"
    BY <2>1 DEF Inv, RetryInv, TaskInv, Working
  <2> QED
    BY <1>0, <2>1, <2>2, <2>3, SameReports
<1>6. ASSUME NEW t \in Tasks, CheckStrategy(t)
      PROVE  ReportInv'
  <2>1. UNCHANGED <<conf, reports, jobErr, final>> /\ tpc[t] = "reported"
    BY <1>6 DEF CheckStrategy
  <2>2. conf.mode = "Parallel" /\ Reported(t)
    BY <2>1, ConfType DEF Inv, ReportInv
  <2>3. groupErr' # "none" => Cause
    BY <1>0, <1>6, <2>2 DEF CheckStrategy, Cause
  <2>4. \A u \in Tasks :
            tpc'[u] = tpc[u] \/ (tpc[u] = "reported" /\ tpc'[u] = "done")
    BY <1>6 DEF CheckStrategy, Inv, Types
  <2> QED
    BY <1>0, <2>1, <2>3, <2>4, SameReports
<1> QED
  BY <1>1, <1>2, <1>3, <1>4, <1>5, <1>6, HandInKeepsReports DEF Next, Task

-------------------------------------------------------------------------------
(* A step of a task that is at work, short of its report: the occurrence   *)
(* itself and the tasks that are idle or reported stay as they are.        *)
TaskStep ==
    /\ opc = "tasks"
    /\ UNCHANGED <<conf, opc, reports, outcome, occ>>
    /\ \A t \in Tasks :
          \/ tpc'[t] = tpc[t] /\ final'[t] = final[t]
          \/ tpc[t] \notin {"idle", "done"} /\ tpc'[t] # "idle" /\ ~Reported(t)
          \/ tpc[t] \notin {"idle", "done"} /\ tpc'[t] # "idle" /\ final'[t] = final[t]

LEMMA IsTaskStep ==
    ASSUME Inv, NEW t \in Tasks,
           \/ BeginTask(t) \/ BeginAttempt(t) \/ Retry(t) \/ FnReturns(t)
           \/ TaskSucceeds(t) \/ TaskCanceled(t) \/ TaskFails(t)
           \/ CheckStrategy(t) \/ TaskTimeout(t)
    PROVE  TaskStep
<1> USE DEF ctxVars, storeVars
<1>1. tpc[t] \notin {"idle", "done"}
  BY DEF BeginTask, BeginAttempt, Retry, FnReturns, TaskSucceeds, TaskCanceled,
         TaskFails, CheckStrategy, TaskTimeout
<1>2. opc = "tasks"
  BY <1>1 DEF Inv, Settled
<1>3. UNCHANGED <<conf, opc, reports, outcome, occ>>
  BY DEF BeginTask, BeginAttempt, Retry, FnReturns, TaskSucceeds, TaskCanceled,
         TaskFails, CheckStrategy, TaskTimeout, Return
<1>4. \A u \in Tasks \ {t} : tpc'[u] = tpc[u] /\ final'[u] = final[u]
  BY DEF BeginTask, BeginAttempt, Retry, FnReturns, TaskSucceeds, TaskCanceled,
         TaskFails, CheckStrategy, TaskTimeout, Return, Inv, Types
<1>5. CASE TaskSucceeds(t) \/ TaskCanceled(t) \/ TaskFails(t)
  <2>1. tpc[t] \in {"succeeded", "failed"} /\ tpc'[t] = "returned"
    BY <1>5 DEF TaskSucceeds, TaskCanceled, TaskFails, Return, Inv, Types
  <2>2. ~Reported(t)
    BY <2>1 DEF Inv, ReportInv
  <2> QED
    BY <1>1, <1>2, <1>3, <1>4, <2>1, <2>2 DEF TaskStep
<1>6. CASE ~(TaskSucceeds(t) \/ TaskCanceled(t) \/ TaskFails(t))
  <2>1. final' = final /\ tpc'[t] # "idle"
    BY <1>6 DEF BeginTask, BeginAttempt, Retry, FnReturns, CheckStrategy,
                TaskTimeout, Inv, Types
  <2> QED
    BY <1>1, <1>2, <1>3, <1>4, <2>1 DEF TaskStep
<1> QED
  BY <1>5, <1>6

LEMMA TaskStepKeeps ==
    ASSUME Inv, TaskStep
    PROVE  Settled' /\ LoopInv' /\ OutcomeInv'
<1>1. Settled'
  BY DEF TaskStep, Settled, Inv
<1>2. OutcomeInv'
  BY DEF TaskStep, OutcomeInv, Inv
<1>3. ASSUME conf.mode = "Sequential" PROVE LoopInv'
  <2>1. \A t \in Tasks : tpc[t] = "idle" => tpc'[t] = "idle"
    BY DEF TaskStep
  <2>2. ASSUME NEW i \in 1 .. Len(reports)
        PROVE  Reported(Order[i]) /\ Order[i] \in Tasks
    <3>1. reports[i] = Order[i]
      BY <1>3 DEF Inv, LoopInv
    <3>2. reports[i] \in Tasks
      BY DEF Inv, Types
    <3> QED
      BY <3>1, <3>2 DEF Reported
  <2>3. \A t \in Tasks : Reported(t) => final'[t] = final[t]
    BY DEF TaskStep
  <2>4. \A i \in 1 .. Len(reports) : Passes(Order[i])'
    BY <1>3, <2>2, <2>3 DEF TaskStep, Inv, LoopInv, Passes
  <2>5. \A i \in 1 .. Len(Order) :
            i > Len(reports) + 1 => tpc'[Order[i]] = "idle"
    BY <1>3, <2>1, PositionFacts DEF Inv, LoopInv
  <2> QED
    BY <1>3, <2>4, <2>5 DEF TaskStep, Inv, LoopInv
<1>4. ASSUME conf.mode # "Sequential" PROVE LoopInv'
  <2>1. conf' = conf /\ conf.mode = "Parallel"
    BY <1>4, ConfType DEF TaskStep, Inv
  <2> QED
    BY <2>1 DEF LoopInv
<1> QED
  BY <1>1, <1>2, <1>3, <1>4

LEMMA SequentialNextKeeps ==
    ASSUME Inv, NEW t \in Tasks, SequentialNext(t)
    PROVE  Settled' /\ LoopInv' /\ OutcomeInv'
<1> USE DEF ctxVars, storeVars
<1> DEFINE L == Len(reports)
           failFast == final[t] = "Failed" /\ conf.strategy = "Fail-Fast"
           stop == failFast \/ jobErr # "none"
<1>1. /\ conf.mode = "Sequential" /\ tpc[t] = "returned"
      /\ reports' = Append(reports, t)
      /\ UNCHANGED <<conf, final, occ>>
      /\ tpc' = [u \in Tasks |->
                    IF u = t THEN "done"
                    ELSE IF ~stop /\ u \in Released(L + 1) THEN "begin" ELSE tpc[u]]
      /\ outcome' = IF failFast THEN "failed" ELSE IF stop THEN "canceled" ELSE outcome
      /\ opc' = IF stop THEN "final" ELSE opc
  BY DEF SequentialNext
<1>2. /\ opc = "tasks" /\ outcome = "none" /\ L \in Nat /\ L < Len(Order)
      /\ t = Order[L + 1]
  BY <1>1, TaskInTurn
<1>3. \A u \in Tasks \ {t} : tpc[u] \in {"idle", "done"}
  BY <1>1, <1>2, TaskInTurn
<1>4. /\ Len(reports') = L + 1
      /\ reports'[L + 1] = t
      /\ \A i \in 1 .. L : reports'[i] = reports[i]
  BY <1>1, AppendReport DEF Inv
<1>5. Settled'
  <2>1. reports' # <<>>
    BY <1>2, <1>4
  <2>2. stop => \A u \in Tasks : tpc'[u] \in {"idle", "done"}
    BY <1>1, <1>3
  <2> QED
    BY <1>1, <1>2, <2>1, <2>2 DEF Settled
<1>6. ~stop => Passes(t)
  <2>1. final[t] = "Canceled" => jobErr # "none"
    BY <1>1 DEF Inv, ReportInv, Cause
  <2> QED
    BY <2>1 DEF Passes
<1>7. LoopInv'
  <2>1. \A i \in 1 .. L : reports[i] = Order[i] /\ Passes(Order[i])
    BY <1>1, <1>2 DEF Inv, LoopInv
  <2>2. \A i \in 1 .. L + 1 : reports'[i] = Order[i]
    BY <1>2, <1>4, <2>1
  <2>3. \A i \in 1 .. L + 1 : i < L + 1 \/ ~stop => Passes(Order[i])
    BY <1>2, <1>6, <2>1
  <2>4. ASSUME NEW i \in 1 .. Len(Order), i > L + 2
        PROVE  tpc'[Order[i]] = "idle"
    <3>1. Order[i] \in Tasks /\ Order[i] # t
      BY <1>2, <2>4, PositionFacts
    <3>2. Order[i] \notin Released(L + 1)
      BY <1>1, <1>2, <2>4, PositionFacts DEF Released
    <3>3. tpc[Order[i]] = "idle"
      BY <1>1, <1>2, <2>4 DEF Inv, LoopInv
    <3> QED
      BY <1>1, <3>1, <3>2, <3>3
  <2>5. \A u : Passes(u)' <=> Passes(u)
    BY <1>1 DEF Passes
  <2> HIDE DEF stop
  <2> QED
    BY <1>1, <1>2, <1>4, <2>2, <2>3, <2>4, <2>5 DEF LoopInv
<1>8. OutcomeInv'
  <2>1. occ # "Completed"
    BY <1>2 DEF Inv, OutcomeInv
  <2> QED
    BY <1>1, <1>2, <2>1 DEF OutcomeInv
<1> QED
  BY <1>5, <1>7, <1>8

LEMMA AddReportKeeps ==
    ASSUME Inv, NEW t \in Tasks, AddReport(t)
    PROVE  Settled' /\ LoopInv' /\ OutcomeInv'
<1> USE DEF ctxVars, storeVars
<1>1. /\ conf.mode = "Parallel" /\ tpc[t] = "returned"
      /\ reports' = Append(reports, t)
      /\ UNCHANGED <<conf, opc, outcome, occ>>
  BY DEF AddReport
<1>2. opc = "tasks"
  BY <1>1 DEF Inv, Settled
<1>3. Settled'
  BY <1>1, <1>2 DEF Settled
<1>4. LoopInv'
  BY <1>1 DEF LoopInv
<1>5. OutcomeInv'
  BY <1>1, <1>2 DEF Inv, OutcomeInv
<1> QED
  BY <1>3, <1>4, <1>5

(* A step that touches neither the tasks nor the occurrence. *)
LEMMA QuietStepKeeps ==
    ASSUME Inv, UNCHANGED <<conf, opc, reports, outcome, occ, tpc, final>>
    PROVE  Settled' /\ LoopInv' /\ OutcomeInv'
<1>1. Settled'
  BY DEF Inv, Settled
<1>2. LoopInv'
  BY DEF Inv, LoopInv, Passes
<1>3. OutcomeInv'
  BY DEF Inv, OutcomeInv, Passes, ReturnsError
<1> QED
  BY <1>1, <1>2, <1>3

LEMMA StartKeeps ==
    ASSUME Inv, ExecuteJobOccurrence \/ ExecuteFails
    PROVE  Settled' /\ LoopInv' /\ OutcomeInv'
<1> USE DEF ctxVars
<1>1. /\ opc = "begin" /\ reports = <<>> /\ outcome = "none" /\ occ # "Completed"
      /\ UNCHANGED <<conf, reports, outcome>> /\ opc' \in {"tasks", "aborted"}
      /\ occ' # "Completed"
  BY DEF Inv, Settled, OutcomeInv, ExecuteJobOccurrence, ExecuteFails
<1>2. Len(reports) = 0
  BY <1>1
<1>3. \A t \in Tasks : tpc[t] = "idle"
  BY <1>1, <1>2 DEF Inv, Settled, ReportInv, Reported
<1>4. Settled'
  BY <1>1, <1>3 DEF Settled, ExecuteJobOccurrence, ExecuteFails
<1>5. OutcomeInv'
  BY <1>1 DEF OutcomeInv
<1>6. ASSUME conf.mode = "Sequential", NEW i \in 1 .. Len(Order), i > 1
      PROVE  tpc'[Order[i]] = "idle"
  <2>1. Order[i] \in Tasks /\ Order[i] \notin Released(0)
    BY <1>6, PositionFacts DEF Released
  <2> QED
    BY <1>3, <2>1 DEF ExecuteJobOccurrence, ExecuteFails
<1>7. LoopInv'
  BY <1>1, <1>2, <1>6, PositionFacts DEF LoopInv
<1> QED
  BY <1>4, <1>5, <1>7

LEMMA SequentialEndsKeeps ==
    ASSUME Inv, SequentialEnds
    PROVE  Settled' /\ LoopInv' /\ OutcomeInv'
<1> USE DEF ctxVars, storeVars
<1>1. /\ conf.mode = "Sequential" /\ opc = "tasks" /\ opc' = "final"
      /\ Len(reports) = Len(Order) /\ outcome' = "completed"
      /\ UNCHANGED <<conf, reports, tpc, final, occ>>
  BY DEF SequentialEnds
<1>2. ASSUME NEW t \in Tasks PROVE tpc[t] = "done" /\ Passes(t)
  <2>1. Position(t) \in 1 .. Len(reports) /\ Order[Position(t)] = t
    BY <1>1, PositionFacts
  <2>2. reports[Position(t)] = t /\ Passes(t)
    BY <1>1, <2>1 DEF Inv, LoopInv
  <2> QED
    BY <1>1, <2>1, <2>2 DEF Inv, ReportInv, Reported
<1>3. \A u : Passes(u)' <=> Passes(u)
  BY <1>1 DEF Passes
<1>4. Settled'
  BY <1>1, <1>2 DEF Settled
<1>5. OutcomeInv'
  <2>1. occ # "Completed"
    BY <1>1 DEF Inv, OutcomeInv
  <2> QED
    BY <1>1, <1>2, <1>3, <2>1 DEF OutcomeInv
<1>6. LoopInv'
  BY <1>1, <1>3 DEF Inv, LoopInv
<1> QED
  BY <1>4, <1>5, <1>6

LEMMA ParallelEndsKeeps ==
    ASSUME Inv, ParallelEnds
    PROVE  Settled' /\ LoopInv' /\ OutcomeInv'
<1> USE DEF ctxVars, storeVars
<1>1. /\ conf.mode = "Parallel" /\ opc = "tasks" /\ opc' = "final"
      /\ \A t \in Tasks : tpc[t] = "done"
      /\ UNCHANGED <<conf, tpc, occ>>
  BY DEF ParallelEnds
<1>2. Settled'
  BY <1>1 DEF Settled
<1>3. OutcomeInv'
  BY <1>1 DEF Inv, OutcomeInv
<1>4. LoopInv'
  BY <1>1 DEF LoopInv
<1> QED
  BY <1>2, <1>3, <1>4

LEMMA FinalStatusKeeps ==
    ASSUME Inv, FinalStatus
    PROVE  Settled' /\ LoopInv' /\ OutcomeInv'
<1> USE DEF ctxVars
<1>1. /\ opc = "final" /\ opc' = "done"
      /\ UNCHANGED <<conf, tpc, reports, outcome, final>>
      /\ occ' = occ \/ occ' = IF ReturnsError THEN "Failed" ELSE "Completed"
  BY DEF FinalStatus
<1>2. Settled'
  BY <1>1 DEF Inv, Settled
<1>3. \A u : Passes(u)' <=> Passes(u)
  BY <1>1 DEF Passes
<1>4. LoopInv'
  BY <1>1, <1>3 DEF Inv, LoopInv
<1>5. occ # "Completed" /\ (ReturnsError' <=> ReturnsError)
  BY <1>1 DEF Inv, OutcomeInv, ReturnsError
<1>6. OutcomeInv'
  BY <1>1, <1>3, <1>5 DEF Inv, OutcomeInv
<1> QED
  BY <1>2, <1>4, <1>6

-------------------------------------------------------------------------------
LEMMA InitInv == Init => Inv
<1> SUFFICES ASSUME Init PROVE Inv
  OBVIOUS
<1>1. Types
  BY InitTypes
<1>2. Len(reports) = 0 /\ reports = <<>> /\ \A t \in Tasks : Len(atts[t]) = 0
  BY DEF Init
<1>3. RetryInv
  <2>1. \A t \in Tasks : MaxRetries(t) \in Nat
    BY <1>1, ConfType
  <2> QED
    BY <1>2, <2>1 DEF Init, RetryInv, TaskInv, Working
<1>4. AuditInv
  BY <1>2 DEF Init, AuditInv, AuditTask
<1>5. ReportInv
  BY <1>2 DEF Init, ReportInv, Reported, Cause
<1>6. Settled
  BY DEF Init, Settled
<1>7. LoopInv
  BY <1>2, PositionFacts DEF Init, LoopInv
<1>8. OutcomeInv
  BY DEF Init, OutcomeInv
<1> QED
  BY <1>1, <1>3, <1>4, <1>5, <1>6, <1>7, <1>8 DEF Inv

LEMMA NextInv == Inv /\ [Next]_vars => Inv'
<1> SUFFICES ASSUME Inv, [Next]_vars PROVE Inv'
  OBVIOUS
<1>1. Types'
  BY NextTypes DEF Inv
<1>2. RetryInv'
  BY NextRetry
<1>3. AuditInv'
  BY NextAudit
<1>4. ReportInv'
  BY <1>1, NextReports
<1>5. Settled' /\ LoopInv' /\ OutcomeInv'
  <2>1. CASE Group
    BY <2>1, StartKeeps, SequentialEndsKeeps, ParallelEndsKeeps,
       FinalStatusKeeps DEF Group
  <2>2. CASE ExecutionTimeout \/ Shutdown \/ Returned \/ UNCHANGED vars
    <3>1. UNCHANGED <<conf, opc, reports, outcome, occ, tpc, final>>
      BY <2>2 DEF ExecutionTimeout, Shutdown, JobCtxEnds, Returned, vars, storeVars
    <3> QED
      BY <3>1, QuietStepKeeps
  <2>3. ASSUME NEW t \in Tasks, Task(t) \/ FnReturns(t) \/ TaskTimeout(t)
        PROVE  Settled' /\ LoopInv' /\ OutcomeInv'
    BY <2>3, IsTaskStep, TaskStepKeeps, SequentialNextKeeps, AddReportKeeps DEF Task
  <2> QED
    BY <2>1, <2>2, <2>3 DEF Next
<1> QED
  BY <1>1, <1>2, <1>3, <1>4, <1>5 DEF Inv

(* The inductive invariant: for any job and any interleaving of its tasks, *)
(* timeouts, cancellations and failing store calls.                        *)
THEOREM Invariance == Spec => []Inv
BY InitInv, NextInv, PTL DEF Spec

(* No field of the report or of the records is ever out of its type, and   *)
(* no task has more attempts than executeTask keeps records for.           *)
THEOREM TypeCorrect == Spec => []TypeOK
<1>1. Inv => TypeOK
  <2> SUFFICES ASSUME Inv PROVE TypeOK
    OBVIOUS
  <2>1. Types
    BY DEF Inv
  <2>2. ASSUME NEW t \in Tasks PROVE Len(atts[t]) <= MaxTries + 1
    <3>1. /\ Len(atts[t]) <= MaxRetries(t) + 1 /\ MaxRetries(t) \in 0 .. MaxTries
          /\ Len(atts[t]) \in Nat
      BY <2>1, ConfType DEF Inv, RetryInv, TaskInv, Types
    <3> QED
      BY <3>1, BoundsAssumption
  <2> QED
    BY <2>1, <2>2 DEF TypeOK, Types
<1> QED
  BY <1>1, Invariance, PTL

(* executeTask attempts a task at most MaxRetries + 1 times, stops at the  *)
(* first success, and reports Failed exactly when every attempt is used    *)
(* up, Canceled only when some are left.                                   *)
THEOREM RetriesAreDisciplined == Spec => []RetryDiscipline
<1>1. Inv => RetryDiscipline
  BY DEF Inv, RetryInv, TaskInv, RetryDiscipline
<1> QED
  BY <1>1, Invariance, PTL

(* executeTask reports Canceled only if the occurrence's context ended or  *)
(* executeParallel canceled the group for another task's failure.          *)
THEOREM CancellationHasACause == Spec => []CancelHasCause
<1>1. Inv => CancelHasCause
  <2> SUFFICES ASSUME Inv, NEW t \in Tasks, final[t] = "Canceled", jobErr = "none"
               PROVE  /\ conf.mode = "Parallel"
                      /\ \E i \in 1 .. Len(reports) :
                            /\ reports[i] # t
                            /\ final[reports[i]] = "Failed"
                            /\ Strategy(reports[i]) = "Fail-Fast"
    BY DEF CancelHasCause
  <2>1. Cause
    BY DEF Inv, ReportInv
  <2>2. PICK u \in Tasks : Reported(u) /\ final[u] = "Failed" /\ Strategy(u) = "Fail-Fast"
    BY <2>1 DEF Cause
  <2>3. PICK i \in 1 .. Len(reports) : reports[i] = u
    BY <2>2 DEF Reported
  <2>4. conf.mode = "Parallel"
    BY <2>1 DEF Cause
  <2> QED
    BY <2>2, <2>3, <2>4
<1> QED
  BY <1>1, Invariance, PTL

(* executeSequential under Fail-Fast begins no task after a failed one.    *)
THEOREM FailFastIsFinal == Spec => []FailFastStops
<1>1. Inv => FailFastStops
  <2> SUFFICES ASSUME Inv, conf.mode = "Sequential", conf.strategy = "Fail-Fast",
                      NEW t \in Tasks, NEW u \in Tasks, final[t] = "Failed",
                      Position(t) < Position(u)
               PROVE  tpc[u] = "idle" /\ final[u] = "none"
    BY DEF FailFastStops
  <2> DEFINE L == Len(reports)
  <2>1. L \in Nat
    BY DEF Inv, Types
  <2>2. /\ Position(t) \in 1 .. Len(Order) /\ Order[Position(t)] = t
        /\ Position(u) \in 1 .. Len(Order) /\ Order[Position(u)] = u
        /\ Len(Order) \in Nat
    BY PositionFacts
  <2>3. tpc[t] # "idle" /\ ~Passes(t)
    BY DEF Inv, RetryInv, TaskInv, Working, Passes
  <2>4. Position(t) <= L + 1
    BY <2>1, <2>2, <2>3 DEF Inv, LoopInv
  <2>5. ~(Position(t) \in 1 .. L /\ Position(t) < L)
    BY <2>2, <2>3 DEF Inv, LoopInv
  <2>6. Position(u) > L
    <3> HIDE DEF L
    <3> QED
      BY <2>1, <2>2, <2>4, <2>5
  <2>7. tpc[u] = "idle"
    <3>1. CASE Position(u) > L + 1
      BY <2>2, <3>1 DEF Inv, LoopInv
    <3>2. CASE Position(u) = L + 1
      <4>1. Position(t) = L
        <5> HIDE DEF L
        <5> QED
          BY <2>1, <2>2, <2>5, <3>2
      <4>2. opc # "tasks"
        BY <2>2, <2>3, <4>1 DEF Inv, LoopInv
      <4>3. ~Reported(u)
        <5>1. \A i \in 1 .. L : Order[i] = reports[i]
          BY DEF Inv, LoopInv
        <5>2. \A i \in 1 .. L : i \in 1 .. Len(Order) /\ i # Position(u)
          BY <2>1, <2>2, <3>2 DEF Inv, LoopInv
        <5> QED
          BY <2>2, <5>1, <5>2, PositionFacts DEF Reported
      <4> QED
        BY <4>2, <4>3 DEF Inv, Settled, ReportInv
    <3> HIDE DEF L
    <3> QED
      BY <2>1, <2>2, <2>6, <3>1, <3>2
  <2> QED
    BY <2>7 DEF Inv, RetryInv, TaskInv, Working
<1> QED
  BY <1>1, Invariance, PTL

(* The store says Completed of a sequential fail-fast occurrence only when *)
(* every task of it succeeded.                                             *)
THEOREM CompletedIsSuccess == Spec => []CompletedMeansSuccess
<1>1. Inv => CompletedMeansSuccess
  <2> SUFFICES ASSUME Inv, conf.mode = "Sequential", conf.strategy = "Fail-Fast",
                      occ = "Completed", NEW t \in Tasks
               PROVE  final[t] = "Success"
    BY DEF CompletedMeansSuccess
  <2>1. tpc[t] = "done" /\ Passes(t)
    BY DEF Inv, OutcomeInv, ReturnsError
  <2>2. final[t] # "none"
    BY <2>1 DEF Inv, RetryInv, TaskInv, Working
  <2>3. final[t] \in Finals \cup {"none"}
    BY DEF Inv, Types
  <2> QED
    BY <2>1, <2>2, <2>3 DEF Passes, Finals
<1> QED
  BY <1>1, Invariance, PTL

(* Without a failing store call the records of a finished occurrence are   *)
(* those of the report.                                                    *)
THEOREM AuditTrailIsTrue == Spec => []AuditTrail
<1>1. Inv => AuditTrail
  <2> SUFFICES ASSUME Inv, opc = "done", faults = 0 PROVE AuditTrail!2
    BY DEF AuditTrail
  <2>1. /\ occ = IF ReturnsError THEN "Failed" ELSE "Completed"
        /\ \A t \in Tasks : AuditTask(t)
    BY DEF Inv, AuditInv
  <2>2. \A t \in Tasks : tpc[t] \in {"idle", "done"}
    BY DEF Inv, Settled
  <2>3. \A t \in Tasks : tpc[t] = "idle" => final[t] = "none"
    BY DEF Inv, RetryInv, TaskInv, Working
  <2> QED
    BY <2>1, <2>2, <2>3 DEF AuditTask, Working
<1> QED
  BY <1>1, Invariance, PTL

-------------------------------------------------------------------------------
(* Sequences that list the same set, each member once, are equally long. *)
LEMMA SameLength ==
    ASSUME NEW S, NEW a \in Seq(S), NEW b \in Seq(S),
           \A s \in S : \E i \in 1 .. Len(a) : a[i] = s,
           \A i, j \in 1 .. Len(a) : a[i] = a[j] => i = j,
           \A s \in S : \E i \in 1 .. Len(b) : b[i] = s,
           \A i, j \in 1 .. Len(b) : b[i] = b[j] => i = j
    PROVE  Len(a) = Len(b)
<1>1. ASSUME NEW c \in Seq(S),
             \A s \in S : \E i \in 1 .. Len(c) : c[i] = s,
             \A i, j \in 1 .. Len(c) : c[i] = c[j] => i = j
      PROVE  Cardinality(S) = Len(c)
  <2>1. Len(c) \in Nat /\ c \in [1 .. Len(c) -> S]
    OBVIOUS
  <2>2. c \in Bijection(1 .. Len(c), S)
    BY <1>1, <2>1 DEF Bijection, Injection, Surjection, IsInjective
  <2>3. ExistsBijection(1 .. Len(c), S)
    BY <2>2 DEF ExistsBijection
  <2> QED
    BY <2>1, <2>3, FS_CountingElements
<1> QED
  BY <1>1

(* The report of an occurrence whose group is over has every task that     *)
(* ran, once, no task is still at work, and a parallel report has them all *)
(* while a sequential one follows the job's order.                         *)
THEOREM ReportsAreComplete == Spec => []ReportIsComplete
<1>1. Inv => ReportIsComplete
  <2> SUFFICES ASSUME Inv, opc \in {"final", "done"} PROVE ReportIsComplete!2
    BY DEF ReportIsComplete
  <2>1. \A t \in Tasks : tpc[t] \in {"idle", "done"}
    BY DEF Inv, Settled
  <2>2. \A t \in Tasks :
            tpc[t] = "done" <=> \E i \in 1 .. Len(reports) : reports[i] = t
    BY <2>1 DEF Inv, ReportInv, Reported
  <2>3. \A i, j \in 1 .. Len(reports) : reports[i] = reports[j] => i = j
    BY DEF Inv, ReportInv
  <2>4. ASSUME conf.mode = "Parallel" PROVE Len(reports) = Len(Order)
    <3>1. \A t \in Tasks : \E i \in 1 .. Len(reports) : reports[i] = t
      BY <2>2, <2>4 DEF Inv, Settled
    <3>2. reports \in Seq(Tasks)
      BY DEF Inv, Types
    <3> QED
      BY <2>3, <3>1, <3>2, OrderAssumption, SameLength
  <2>5. conf.mode = "Sequential" =>
            \A i \in 1 .. Len(reports) : reports[i] = Order[i]
    BY DEF Inv, LoopInv
  <2> QED
    BY <2>1, <2>2, <2>3, <2>4, <2>5
<1> QED
  BY <1>1, Invariance, PTL

===============================================================================
