-------------------------------- MODULE Executor --------------------------------
(***************************************************************************)
(* executor/executor.go: one job occurrence, from the write that marks it  *)
(* Running to the write of its final status.  Its tasks run one after the  *)
(* other or each on a goroutine of its own; a task is attempted until one  *)
(* attempt succeeds, the retry policy is exhausted or the context ends in  *)
(* a backoff.  Task functions are the user's: they return when they like.  *)
(*                                                                         *)
(* Three contexts are nested: the occurrence's (it ends when the scheduler *)
(* shuts down or ExecutionTimeout passes), the task group's (parallel mode *)
(* only: a fail-fast failure cancels it) and the attempt's (TaskTimeout).  *)
(***************************************************************************)
EXTENDS Naturals, Sequences, FiniteSets

CONSTANTS
    Tasks,     \* the tasks of the job
    Order,     \* job.Tasks, in the order AddTask appended them
    Configs,   \* the configurations of the job to consider
    Inherit,   \* a nil pointer in a TaskConfig
    MaxTries,  \* bound on RetryPolicy.MaxRetries
    MaxFaults  \* bound on the storage calls that fail

Strategies == {"Fail-Fast", "Continue", "Retry_On_Failure"}

(* JobConfig with its cascading TaskConfig: "tasks" are the overrides.     *)
(* The timeouts are not values here: a deadline may pass at any moment.    *)
TaskConfig == [strategy : Strategies \cup {Inherit},
               retries : (0 .. MaxTries) \cup {Inherit}]
JobConfig == [mode : {"Sequential", "Parallel"}, strategy : Strategies,
              defaults : TaskConfig, tasks : [Tasks -> TaskConfig]]

ASSUME OrderAssumption ==
    /\ Order \in Seq(Tasks)
    /\ \A t \in Tasks : \E i \in 1 .. Len(Order) : Order[i] = t
    /\ \A i, j \in 1 .. Len(Order) : Order[i] = Order[j] => i = j
ASSUME ConfigsAssumption == Configs \subseteq JobConfig
ASSUME InheritAssumption == Inherit \notin Strategies \cup Nat
ASSUME BoundsAssumption == MaxTries \in Nat /\ MaxFaults \in Nat

VARIABLES
    conf,     \* the job's configuration; never changes
    opc,      \* where ExecuteJobOccurrence is
    jobErr,   \* jobCtx.Err()
    groupErr, \* Err() of the context the tasks get: groupCtx, or jobCtx
    attErr,   \* taskCtx.Err() of each task's current attempt
    tpc,      \* where each task is
    atts,     \* report.Attempts of each task: the statuses
    final,    \* report.FinalStatus of each task
    reports,  \* report.TaskReports: the tasks, in order of arrival
    outcome,  \* report.GroupOutcome
    occ,      \* the occurrence's Status in the store
    taskRun,  \* the Status of each task's run record
    attRec,   \* the Status of each attempt's record
    faults    \* storage calls that failed

ctxVars == <<jobErr, groupErr, attErr>>
storeVars == <<occ, taskRun, attRec, faults>>
vars == <<conf, opc, ctxVars, tpc, atts, final, reports, outcome, storeVars>>

CtxErrs == {"none", "DeadlineExceeded", "Canceled"}
Ended == {"Success", "Failed", "Timeout"}
Finals == {"Success", "Failed", "Canceled"}
TaskStates == {"idle", "begin", "attempt", "fn", "failed", "succeeded",
               "returned", "reported", "done"}

(* The types; no task has more attempts than records are kept for.         *)
TypeOK ==
    /\ conf \in Configs
    /\ opc \in {"begin", "tasks", "final", "done", "aborted"}
    /\ jobErr \in CtxErrs
    /\ groupErr \in CtxErrs
    /\ attErr \in [Tasks -> CtxErrs]
    /\ tpc \in [Tasks -> TaskStates]
    /\ atts \in [Tasks -> Seq(Ended)]
    /\ \A t \in Tasks : Len(atts[t]) <= MaxTries + 1
    /\ final \in [Tasks -> Finals \cup {"none"}]
    /\ reports \in Seq(Tasks)
    /\ outcome \in {"none", "completed", "failed", "canceled"}
    /\ occ \in {"Pending", "Running", "Completed", "Failed"}
    /\ taskRun \in [Tasks -> Finals \cup {"none", "Pending"}]
    /\ attRec \in [Tasks -> [0 .. MaxTries -> Ended \cup {"none", "Running"}]]
    /\ faults \in 0 .. MaxFaults

-------------------------------------------------------------------------------
(* GetEffectiveConfig, and what the callers make of a nil result. *)
First(a, b, default) ==
    IF a # Inherit THEN a ELSE IF b # Inherit THEN b ELSE default

Strategy(t) ==
    First(conf.tasks[t].strategy, conf.defaults.strategy, conf.strategy)

MaxRetries(t) == First(conf.tasks[t].retries, conf.defaults.retries, 0)

(* A storage call succeeds, or fails without a trace. *)
Stored == UNCHANGED faults
Lost == faults < MaxFaults /\ faults' = faults + 1

(* UpdateTaskRun: the record must exist. *)
UpdateTaskRun(t, status) ==
    \/ /\ Stored
       /\ taskRun' = IF taskRun[t] = "none" THEN taskRun
                     ELSE [taskRun EXCEPT ![t] = status]
    \/ Lost /\ UNCHANGED taskRun

(* A context that ends takes every context below it along, except those    *)
(* that ended before and keep their own reason.                            *)
Falls(err, reason) == IF err = "none" THEN reason ELSE err

Cancel(reason) ==
    /\ groupErr' = Falls(groupErr, reason)
    /\ attErr' = [t \in Tasks |-> IF tpc[t] = "fn" THEN Falls(attErr[t], reason)
                                  ELSE attErr[t]]

-------------------------------------------------------------------------------
Init ==
    /\ conf \in Configs
    /\ opc = "begin"
    /\ jobErr \in {"none", "Canceled"}  \* canceled while it was queued
    /\ groupErr = jobErr
    /\ attErr = [t \in Tasks |-> "none"]
    /\ tpc = [t \in Tasks |-> "idle"]
    /\ atts = [t \in Tasks |-> <<>>]
    /\ final = [t \in Tasks |-> "none"]
    /\ reports = <<>>
    /\ outcome = "none"
    /\ occ = "Pending"
    /\ taskRun = [t \in Tasks |-> "none"]
    /\ attRec = [t \in Tasks |-> [n \in 0 .. MaxTries |-> "none"]]
    /\ faults = 0

(* The tasks that may begin when "n" reports are in: all of them at once,  *)
(* or the next of the loop.                                                *)
Released(n) ==
    {t \in Tasks : \/ conf.mode = "Parallel"
                   \/ n < Len(Order) /\ t = Order[n + 1]}

(* ExecuteJobOccurrence up to the choice of the mode. *)
ExecuteJobOccurrence ==
    /\ opc = "begin"
    /\ opc' = "tasks"
    /\ occ' = "Running"
    /\ tpc' = [t \in Tasks |-> IF t \in Released(0) THEN "begin" ELSE "idle"]
    /\ Stored
    /\ UNCHANGED <<conf, ctxVars, atts, final, reports, outcome, taskRun,
                   attRec>>

(* The Running write fails: nothing runs and no hook is called. *)
ExecuteFails ==
    /\ opc = "begin"
    /\ Lost
    /\ opc' = "aborted"
    /\ UNCHANGED <<conf, ctxVars, tpc, atts, final, reports, outcome, occ,
                   taskRun, attRec>>

(* executeTask up to its loop; the error of CreateTaskRun is ignored. *)
BeginTask(t) ==
    /\ tpc[t] = "begin"
    /\ tpc' = [tpc EXCEPT ![t] = "attempt"]
    /\ \/ Stored /\ taskRun' = [taskRun EXCEPT ![t] = "Pending"]
       \/ Lost /\ UNCHANGED taskRun
    /\ UNCHANGED <<conf, opc, ctxVars, atts, final, reports, outcome, occ,
                   attRec>>

(* executeAttempt up to the call of the task's function.  The new context  *)
(* of a context that has ended has ended too, and the function is called   *)
(* all the same.                                                           *)
BeginAttempt(t) ==
    /\ tpc[t] = "attempt"
    /\ tpc' = [tpc EXCEPT ![t] = "fn"]
    /\ attErr' = [attErr EXCEPT ![t] = groupErr]
    /\ \/ Stored /\ attRec' = [attRec EXCEPT ![t][Len(atts[t])] = "Running"]
       \/ Lost /\ UNCHANGED attRec
    /\ UNCHANGED <<conf, opc, jobErr, groupErr, atts, final, reports, outcome,
                   occ, taskRun>>

TaskTimeout(t) ==
    /\ tpc[t] = "fn"
    /\ attErr[t] = "none"
    /\ attErr' = [attErr EXCEPT ![t] = "DeadlineExceeded"]
    /\ UNCHANGED <<conf, opc, jobErr, groupErr, tpc, atts, final, reports,
                   outcome, storeVars>>

(* The rest of executeAttempt: the function returned nil or an error. *)
FnReturns(t) ==
    /\ tpc[t] = "fn"
    /\ \E ok \in BOOLEAN :
        LET status == IF ok THEN "Success"
                      ELSE IF attErr[t] = "DeadlineExceeded" THEN "Timeout"
                      ELSE "Failed"
            n == Len(atts[t])
        IN  /\ atts' = [atts EXCEPT ![t] = Append(@, status)]
            /\ tpc' = [tpc EXCEPT ![t] = IF ok THEN "succeeded" ELSE "failed"]
            /\ \/ /\ Stored
                  /\ attRec' = IF attRec[t][n] = "none" THEN attRec
                               ELSE [attRec EXCEPT ![t][n] = status]
               \/ Lost /\ UNCHANGED attRec
    /\ UNCHANGED <<conf, opc, ctxVars, final, reports, outcome, occ, taskRun>>

(* executeTask returns: FinalStatus in the report, Status in the record. *)
Return(t, status) ==
    /\ tpc' = [tpc EXCEPT ![t] = "returned"]
    /\ final' = [final EXCEPT ![t] = status]
    /\ UpdateTaskRun(t, status)
    /\ UNCHANGED <<conf, opc, ctxVars, atts, reports, outcome, occ, attRec>>

TaskSucceeds(t) ==
    /\ tpc[t] = "succeeded"
    /\ Return(t, "Success")

(* The select of the backoff: the wait is over, or the context is done;    *)
(* when both are, either may be chosen.                                    *)
Retry(t) ==
    /\ tpc[t] = "failed"
    /\ Len(atts[t]) <= MaxRetries(t)
    /\ tpc' = [tpc EXCEPT ![t] = "attempt"]
    /\ UNCHANGED <<conf, opc, ctxVars, atts, final, reports, outcome,
                   storeVars>>

TaskCanceledUnsaved(t) ==  \* mutant of TaskCanceled: returns before the save
    /\ tpc[t] = "failed"
    /\ Len(atts[t]) <= MaxRetries(t)
    /\ groupErr # "none"
    /\ tpc' = [tpc EXCEPT ![t] = "returned"]
    /\ final' = [final EXCEPT ![t] = "Canceled"]
    /\ UNCHANGED <<conf, opc, ctxVars, atts, reports, outcome, storeVars>>

TaskCanceled(t) ==
    /\ tpc[t] = "failed"
    /\ Len(atts[t]) <= MaxRetries(t)
    /\ groupErr # "none"
    /\ Return(t, "Canceled")

TaskFailsEarly(t) ==  \* mutant of TaskFails: gives the last retry away
    /\ tpc[t] = "failed"
    /\ Len(atts[t]) >= MaxRetries(t)
    /\ Return(t, "Failed")

TaskFails(t) ==
    /\ tpc[t] = "failed"
    /\ Len(atts[t]) > MaxRetries(t)
    /\ Return(t, "Failed")

SequentialNextOnwards(t) ==  \* mutant of SequentialNext: never aborts
    /\ conf.mode = "Sequential"
    /\ tpc[t] = "returned"
    /\ reports' = Append(reports, t)
    /\ tpc' = [u \in Tasks |-> IF u = t THEN "done"
                               ELSE IF u \in Released(Len(reports) + 1)
                                    THEN "begin" ELSE tpc[u]]
    /\ UNCHANGED <<conf, opc, ctxVars, atts, final, outcome, storeVars>>

SequentialNextDeaf(t) ==  \* mutant of SequentialNext: no look at the context
    /\ conf.mode = "Sequential"
    /\ tpc[t] = "returned"
    /\ reports' = Append(reports, t)
    /\ LET stop == final[t] = "Failed" /\ conf.strategy = "Fail-Fast"
       IN  /\ tpc' = [u \in Tasks |->
                        IF u = t THEN "done"
                        ELSE IF ~stop /\ u \in Released(Len(reports) + 1)
                             THEN "begin" ELSE tpc[u]]
           /\ outcome' = IF stop THEN "failed" ELSE outcome
           /\ opc' = IF stop THEN "final" ELSE opc
    /\ UNCHANGED <<conf, ctxVars, atts, final, storeVars>>

(* executeSequential after a task: the strategy is the job's own. *)
SequentialNext(t) ==
    /\ conf.mode = "Sequential"
    /\ tpc[t] = "returned"
    /\ reports' = Append(reports, t)
    /\ LET failFast == final[t] = "Failed" /\ conf.strategy = "Fail-Fast"
           stop == failFast \/ jobErr # "none"
       IN  /\ tpc' = [u \in Tasks |->
                        IF u = t THEN "done"
                        ELSE IF ~stop /\ u \in Released(Len(reports) + 1)
                             THEN "begin" ELSE tpc[u]]
           /\ outcome' = IF failFast THEN "failed"
                         ELSE IF stop THEN "canceled" ELSE outcome
           /\ opc' = IF stop THEN "final" ELSE opc
    /\ UNCHANGED <<conf, ctxVars, atts, final, storeVars>>

SequentialEnds ==
    /\ conf.mode = "Sequential"
    /\ opc = "tasks"
    /\ Len(reports) = Len(Order)
    /\ outcome' = "completed"
    /\ opc' = "final"
    /\ UNCHANGED <<conf, ctxVars, tpc, atts, final, reports, storeVars>>

(* A goroutine of executeParallel: its report, under mu. *)
AddReport(t) ==
    /\ conf.mode = "Parallel"
    /\ tpc[t] = "returned"
    /\ reports' = Append(reports, t)
    /\ tpc' = [tpc EXCEPT ![t] = "reported"]
    /\ UNCHANGED <<conf, opc, ctxVars, atts, final, outcome, storeVars>>

CheckStrategyOfJob(t) ==  \* mutant of CheckStrategy: the override is ignored
    /\ tpc[t] = "reported"
    /\ tpc' = [tpc EXCEPT ![t] = "done"]
    /\ IF final[t] = "Failed" /\ conf.strategy = "Fail-Fast"
       THEN Cancel("Canceled")
       ELSE UNCHANGED <<groupErr, attErr>>
    /\ UNCHANGED <<conf, opc, jobErr, atts, final, reports, outcome, storeVars>>

CheckStrategyHangs(t) ==  \* mutant of CheckStrategy: no wg.Done on an abort
    /\ tpc[t] = "reported"
    /\ tpc' = [tpc EXCEPT ![t] = IF final[t] = "Failed" THEN "reported"
                                 ELSE "done"]
    /\ IF final[t] = "Failed" /\ Strategy(t) = "Fail-Fast"
       THEN Cancel("Canceled")
       ELSE UNCHANGED <<groupErr, attErr>>
    /\ UNCHANGED <<conf, opc, jobErr, atts, final, reports, outcome, storeVars>>

(* ... then its strategy, here the effective one, and wg.Done. *)
CheckStrategy(t) ==
    /\ tpc[t] = "reported"
    /\ tpc' = [tpc EXCEPT ![t] = "done"]
    /\ IF final[t] = "Failed" /\ Strategy(t) = "Fail-Fast"
       THEN Cancel("Canceled")
       ELSE UNCHANGED <<groupErr, attErr>>
    /\ UNCHANGED <<conf, opc, jobErr, atts, final, reports, outcome, storeVars>>

ParallelEndsEarly ==  \* mutant of ParallelEnds: wg.Done before the report
    /\ conf.mode = "Parallel"
    /\ opc = "tasks"
    /\ \A t \in Tasks : tpc[t] \in {"returned", "reported", "done"}
    /\ opc' = "final"
    /\ outcome' = IF jobErr # "none" THEN "canceled"
                  ELSE IF \E i \in 1 .. Len(reports) :
                            final[reports[i]] = "Failed"
                       THEN "failed" ELSE "completed"
    /\ UNCHANGED <<conf, ctxVars, tpc, atts, final, reports, storeVars>>

(* wg.Wait and the outcome of the group. *)
ParallelEnds ==
    /\ conf.mode = "Parallel"
    /\ opc = "tasks"
    /\ \A t \in Tasks : tpc[t] = "done"
    /\ opc' = "final"
    /\ outcome' = IF jobErr # "none" THEN "canceled"
                  ELSE IF \E i \in 1 .. Len(reports) :
                            final[reports[i]] = "Failed"
                       THEN "failed" ELSE "completed"
    /\ UNCHANGED <<conf, ctxVars, tpc, atts, final, reports, storeVars>>

(* executeSequential returns an error unless it completed, executeParallel *)
(* never does.                                                             *)
ReturnsError == conf.mode = "Sequential" /\ outcome # "completed"

FinalStatusCanceled ==  \* mutant of FinalStatus: a status nothing else knows
    /\ opc = "final"
    /\ opc' = "done"
    /\ \/ Stored /\ occ' = IF outcome = "canceled" THEN "Canceled"
                           ELSE IF ReturnsError THEN "Failed" ELSE "Completed"
       \/ Lost /\ UNCHANGED occ
    /\ UNCHANGED <<conf, ctxVars, tpc, atts, final, reports, outcome, taskRun,
                   attRec>>

(* The rest of ExecuteJobOccurrence; the error of the write is ignored. *)
FinalStatus ==
    /\ opc = "final"
    /\ opc' = "done"
    /\ \/ Stored /\ occ' = IF ReturnsError THEN "Failed" ELSE "Completed"
       \/ Lost /\ UNCHANGED occ
    /\ UNCHANGED <<conf, ctxVars, tpc, atts, final, reports, outcome, taskRun,
                   attRec>>

(* jobCtx ends: ExecutionTimeout passes, or Shutdown cancels the           *)
(* scheduler's context.                                                    *)
JobCtxEnds(reason) ==
    /\ opc \in {"begin", "tasks"}
    /\ jobErr = "none"
    /\ jobErr' = reason
    /\ Cancel(reason)
    /\ UNCHANGED <<conf, opc, tpc, atts, final, reports, outcome, storeVars>>

ExecutionTimeout == opc = "tasks" /\ JobCtxEnds("DeadlineExceeded")
Shutdown == JobCtxEnds("Canceled")

(* One task on its goroutine, or on the loop's. *)
Task(t) ==
    \/ BeginTask(t)
    \/ BeginAttempt(t)
    \/ TaskSucceeds(t)
    \/ Retry(t)
    \/ TaskCanceled(t)
    \/ TaskFails(t)
    \/ SequentialNext(t)
    \/ AddReport(t)
    \/ CheckStrategy(t)

Group ==
    \/ ExecuteJobOccurrence
    \/ ExecuteFails
    \/ SequentialEnds
    \/ ParallelEnds
    \/ FinalStatus

(* ExecuteJobOccurrence has returned, and with it every task. *)
Returned == opc \in {"done", "aborted"} /\ UNCHANGED vars

Next ==
    \/ Group
    \/ \E t \in Tasks : Task(t) \/ FnReturns(t) \/ TaskTimeout(t)
    \/ ExecutionTimeout
    \/ Shutdown
    \/ Returned

Spec == Init /\ [][Next]_vars

(* The goroutines are scheduled and deadlines pass.  Of a task's function  *)
(* it is assumed only that it returns once its context has ended: nothing  *)
(* in the executor can stop one that does not.                             *)
FnObeys(t) == attErr[t] # "none" /\ FnReturns(t)

Fairness ==
    /\ WF_vars(Group)
    /\ \A t \in Tasks :
        WF_vars(Task(t)) /\ WF_vars(TaskTimeout(t)) /\ WF_vars(FnObeys(t))

FairSpec == Spec /\ Fairness

-------------------------------------------------------------------------------
Position(t) == CHOOSE i \in 1 .. Len(Order) : Order[i] = t

(* What executeTask reports agrees with what it did: a success is the last *)
(* attempt and the only one, a failure used up every retry, a cancellation *)
(* left retries over, and the bound on the attempts is never passed,       *)
(* whatever timeouts and cancellations fall between the attempts.          *)
RetryDiscipline ==
    \A t \in Tasks :
        /\ Len(atts[t]) <= MaxRetries(t) + 1
        /\ \A i \in 1 .. Len(atts[t]) :
            atts[t][i] = "Success" => i = Len(atts[t])
        /\ final[t] = "Success" => /\ atts[t] # <<>>
                                   /\ atts[t][Len(atts[t])] = "Success"
        /\ final[t] \in {"Failed", "Canceled"} =>
            /\ \A i \in 1 .. Len(atts[t]) : atts[t][i] # "Success"
            /\ final[t] = "Failed" <=> Len(atts[t]) = MaxRetries(t) + 1

(* A task is reported Canceled only for a reason: the occurrence's context *)
(* ended, or another task of a parallel group, whose own effective         *)
(* strategy is Fail-Fast, had failed and handed in its report before.      *)
CancelHasCause ==
    \A t \in Tasks :
        final[t] = "Canceled" =>
            \/ jobErr # "none"
            \/ /\ conf.mode = "Parallel"
               /\ \E i \in 1 .. Len(reports) :
                    /\ reports[i] # t
                    /\ final[reports[i]] = "Failed"
                    /\ Strategy(reports[i]) = "Fail-Fast"

(* In a sequential job with strategy Fail-Fast no task that comes after a  *)
(* failed one is ever begun, and its report stays the last.                *)
FailFastStops ==
    conf.mode = "Sequential" /\ conf.strategy = "Fail-Fast" =>
        \A t, u \in Tasks :
            final[t] = "Failed" /\ Position(t) < Position(u) =>
                /\ tpc[u] = "idle"
                /\ final[u] = "none"

(* A sequential fail-fast job whose record says Completed ran every task   *)
(* to success: neither a failure, nor the deadline, nor a shutdown at any  *)
(* moment can slip through the checks between the tasks.                   *)
CompletedMeansSuccess ==
    conf.mode = "Sequential" /\ conf.strategy = "Fail-Fast" =>
        (occ = "Completed" => \A t \in Tasks : final[t] = "Success")

(* When the group is over the report is complete: a parallel group has one *)
(* report for every task and no task still at work; a sequential one has   *)
(* the reports of the tasks that ran, in the job's order.                  *)
ReportIsComplete ==
    opc \in {"final", "done"} =>
        /\ \A t \in Tasks : tpc[t] \in {"idle", "done"}
        /\ \A t \in Tasks :
            tpc[t] = "done" <=> \E i \in 1 .. Len(reports) : reports[i] = t
        /\ \A i, j \in 1 .. Len(reports) : reports[i] = reports[j] => i = j
        /\ conf.mode = "Parallel" => Len(reports) = Len(Order)
        /\ conf.mode = "Sequential" =>
            \A i \in 1 .. Len(reports) : reports[i] = Order[i]

(* If no storage call failed, what the store says of a finished occurrence *)
(* is what happened: run records and attempt records agree with the        *)
(* report, and nothing is left Pending or Running.                         *)
AuditTrail ==
    opc = "done" /\ faults = 0 =>
        /\ occ = IF ReturnsError THEN "Failed" ELSE "Completed"
        /\ \A t \in Tasks :
            /\ taskRun[t] = final[t]
            /\ \A n \in 0 .. MaxTries :
                attRec[t][n] = IF n < Len(atts[t]) THEN atts[t][n + 1]
                               ELSE "none"

(* Every occurrence that is handed to the executor comes to an end if the  *)
(* task functions return when their context ends: no wait group, retry     *)
(* loop or loop over the tasks is left hanging by failures, timeouts or    *)
(* cancellations.                                                          *)
OccurrenceEnds == <>(opc \in {"done", "aborted"})

-------------------------------------------------------------------------------
(* README.md, "Failure Strategy Options": under Fail-Fast "The job is      *)
(* marked failed immediately".                                             *)
FailFastFailsTheJob ==
    opc = "done" /\ faults = 0 =>
        ((\E t \in Tasks : final[t] = "Failed" /\ Strategy(t) = "Fail-Fast")
            => occ = "Failed")
===============================================================================
