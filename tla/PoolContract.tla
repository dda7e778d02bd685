----------------------------- MODULE PoolContract -----------------------------
(***************************************************************************)
(* What callers of concurrency.WorkerPool can rely on, without locks,      *)
(* channels or goroutines.  A task is offered, then taken on or turned     *)
(* away; a task that is taken on starts at most once, never while the      *)
(* pool's workers are all busy, and surely starts if the pool stays open.  *)
(* Only a closed pool turns a task away.  A pool that is not open runs a   *)
(* task on the caller.                                                     *)
(*                                                                         *)
(* It is weaker than what pool_test.go:185 asks for, that Stop completes   *)
(* every task taken on before it: here, as in the code, a pool that is     *)
(* closed may leave them waiting for good.  WorkerPool states the stronger *)
(* promise, and shows that the code breaks it, as StopCompletesAccepted.   *)
(***************************************************************************)
EXTENDS Naturals, FiniteSets

CONSTANTS Tasks, Slots

VARIABLES
    phase,   \* how far each task has come
    open,    \* the pool takes on tasks: it was started and nobody stopped it
    closed   \* somebody called Stop: final
vars == <<phase, open, closed>>

Phases == {"new", "offered", "waiting", "running", "inline", "over", "refused"}

TypeOK == phase \in [Tasks -> Phases] /\ open \in BOOLEAN /\ closed \in BOOLEAN

Running == {t \in Tasks : phase[t] = "running"}

Init == phase = [t \in Tasks |-> "new"] /\ open = FALSE /\ closed = FALSE

Move(t, from, to) ==
    /\ phase[t] = from
    /\ phase' = [phase EXCEPT ![t] = to]
    /\ UNCHANGED <<open, closed>>

Open == open' = TRUE /\ UNCHANGED <<phase, closed>>
Close == closed' = TRUE /\ UNCHANGED <<phase, open>>
Closed == closed /\ open' = FALSE /\ UNCHANGED <<phase, closed>>

Offer(t) == open /\ Move(t, "new", "offered")
Accept(t) == Move(t, "offered", "waiting")
Refuse(t) == closed /\ Move(t, "offered", "refused")
Inline(t) == ~open /\ Move(t, "new", "inline")
Begin(t) == Cardinality(Running) < Slots /\ Move(t, "waiting", "running")
End(t) == Move(t, "running", "over") \/ Move(t, "inline", "over")

Next ==
    \/ Open \/ Close \/ Closed
    \/ \E t \in Tasks : \/ Offer(t) \/ Accept(t) \/ Refuse(t) \/ Inline(t)
                        \/ Begin(t) \/ End(t)

Safety == Init /\ [][Next]_vars

(* A task that waits is started unless somebody closes the pool; of those *)
(* that wait when it is closed nothing is promised.                       *)
Spec == Safety /\ \A t \in Tasks : WF_vars(~closed /\ Begin(t))

===============================================================================
