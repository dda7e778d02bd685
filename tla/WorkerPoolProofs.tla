--------------------------- MODULE WorkerPoolProofs ---------------------------
(* Proofs about WorkerPool, for any tasks and any non-empty pool. *)
EXTENDS WorkerPool, FiniteSetTheorems, TLAPS

LEMMA QueueCapType == QueueCap \in Nat
BY WorkersAssumption, FS_CardinalityType DEF QueueCap

(* Where a task is, and how often it ran, agree; a queue holds no task      *)
(* twice.  This is NothingVanishes made inductive.                          *)
Placed ==
    /\ \A i, k \in 1 .. Len(queue) : queue[i] = queue[k] => i = k
    /\ \A t \in Tasks : Queued(t) => caller[t] = "accepted" /\ runs[t] = 0
    /\ \A t \in Tasks : caller[t] = "accepted" /\ runs[t] = 0 => Queued(t)
    /\ \A t \in Tasks : caller[t] \in {"idle", "select", "refused"} => runs[t] = 0

(* How often Start took effect, and what that says of the stop channel. *)
Counted ==
    /\ started \/ stopClosed => starts > 0
    /\ started /\ stopClosed /\ stopper = "idle" => starts > 1
    /\ stopper # "idle" => started /\ stopClosed
    /\ queueClosed => stopClosed
    /\ PanicNeedsRaceOrRestart

PoolInv == RunsAtMostOnce /\ Placed /\ StopQuiesces /\ Counted

LEMMA InitPool == Init => TypeOK /\ PoolInv
<1> SUFFICES ASSUME Init PROVE TypeOK /\ PoolInv
  OBVIOUS
<1>1. TypeOK
  <2>1. queue \in Seq(Tasks) /\ Len(queue) = 0
    BY DEF Init
  <2>2. Len(queue) <= QueueCap /\ starts \in 0 .. MaxStarts
    BY <2>1, QueueCapType, MaxStartsAssumption DEF Init
  <2> QED
    BY <2>1, <2>2 DEF Init, TypeOK, WorkerStates, CallerStates, Stoppers
<1>2. \A t \in Tasks : ~Queued(t)
  BY DEF Init, Queued
<1>3. RunsAtMostOnce /\ Placed
  BY <1>2 DEF Init, RunsAtMostOnce, Placed
<1>4. StopQuiesces /\ Counted
  BY DEF Init, StopQuiesces, Counted, PanicNeedsRaceOrRestart
<1> QED
  BY <1>1, <1>3, <1>4 DEF PoolInv

LEMMA NextType == TypeOK /\ [Next]_vars => TypeOK'
<1> SUFFICES ASSUME TypeOK, [Next]_vars PROVE TypeOK'
  OBVIOUS
<1> USE QueueCapType, MaxStartsAssumption DEF TypeOK, poolVars, workVars
<1>1. CASE UNCHANGED vars
  BY <1>1 DEF vars
<1>2. CASE Start
  BY <1>2 DEF Start, WorkerStates
<1>3. CASE Stopper
  BY <1>3 DEF Stopper, StopBegin, StopCloseQueue, StopReturn, Stoppers
<1>4. ASSUME NEW t \in Tasks, Submitter(t) PROVE TypeOK'
  <2>1. CASE SubmitBegin(t) \/ SubmitRefused(t) \/ SubmitPanic(t) \/ InlineDone(t)
    BY <2>1 DEF SubmitBegin, SubmitRefused, SubmitPanic, InlineDone, CallerStates
  <2>2. CASE SubmitInline(t)
    BY <2>2 DEF SubmitInline, CallerStates
  <2>3. CASE SubmitSend(t)
    BY <2>3 DEF SubmitSend, CallerStates
  <2> QED
    BY <1>4, <2>1, <2>2, <2>3 DEF Submitter
<1>5. ASSUME NEW w \in Workers, Worker(w) PROVE TypeOK'
  <2>1. CASE Take(w)
    <3>1. Head(queue) \in Tasks /\ Tail(queue) \in Seq(Tasks)
          /\ Len(Tail(queue)) <= QueueCap
      BY <2>1 DEF Take
    <3> QED
      BY <2>1, <3>1 DEF Take, WorkerStates
  <2>2. CASE Finish(w) \/ Exit(w)
    BY <2>2 DEF Finish, Exit, WorkerStates
  <2> QED
    BY <1>5, <2>1, <2>2 DEF Worker
<1> QED
  BY <1>1, <1>2, <1>3, <1>4, <1>5 DEF Next

(* The queue after a send and after a receive. *)
LEMMA SendQueues ==
    ASSUME TypeOK, NEW t \in Tasks, SubmitSend(t)
    PROVE  \A u \in Tasks : Queued(u)' <=> Queued(u) \/ u = t
<1>1. /\ Len(queue') = Len(queue) + 1 /\ queue'[Len(queue) + 1] = t
      /\ \A i \in 1 .. Len(queue) : queue'[i] = queue[i]
      /\ Len(queue) \in Nat
  BY DEF SubmitSend, TypeOK
<1>2. Queued(t)'
  BY <1>1 DEF Queued
<1>3. \A u \in Tasks : Queued(u) => Queued(u)'
  BY <1>1 DEF Queued
<1>4. \A u \in Tasks : Queued(u)' => Queued(u) \/ u = t
  BY <1>1 DEF Queued
<1> QED
  BY <1>2, <1>3, <1>4

LEMMA TakeDequeues ==
    ASSUME TypeOK, Placed, NEW w \in Workers, Take(w)
    PROVE  /\ Head(queue) \in Tasks /\ Queued(Head(queue))
           /\ \A u \in Tasks : Queued(u)' <=> Queued(u) /\ u # Head(queue)
<1> DEFINE h == Head(queue)
<1>1. /\ Len(queue) \in Nat \ {0} /\ h = queue[1] /\ h \in Tasks
      /\ Len(queue') = Len(queue) - 1
      /\ \A i \in 1 .. Len(queue) - 1 : queue'[i] = queue[i + 1]
  BY DEF Take, TypeOK
<1>2. \A x, y \in 1 .. Len(queue) : queue[x] = queue[y] => x = y
  BY DEF Placed
<1>3. Queued(h)
  BY <1>1 DEF Queued
<1>4. ASSUME NEW u \in Tasks, Queued(u)' PROVE Queued(u) /\ u # h
  <2>1. PICK i \in 1 .. Len(queue') : queue'[i] = u
    BY <1>4 DEF Queued
  <2>2. i + 1 \in 1 .. Len(queue) /\ queue[i + 1] = u /\ i + 1 # 1
    BY <1>1, <2>1
  <2> QED
    BY <1>1, <1>2, <2>2 DEF Queued
<1>5. ASSUME NEW u \in Tasks, Queued(u), u # h PROVE Queued(u)'
  <2>1. PICK i \in 1 .. Len(queue) : queue[i] = u
    BY <1>5 DEF Queued
  <2>2. i - 1 \in 1 .. Len(queue) - 1
    BY <1>1, <1>5, <2>1
  <2>3. queue'[i - 1] = u
    BY <1>1, <2>1, <2>2
  <2> QED
    BY <1>1, <2>2, <2>3 DEF Queued
<1> QED
  BY <1>1, <1>3, <1>4, <1>5

LEMMA NextPlaced ==
    ASSUME TypeOK, PoolInv, [Next]_vars
    PROVE  RunsAtMostOnce' /\ Placed'
<1> USE DEF poolVars, workVars
<1>1. CASE UNCHANGED <<queue, caller, runs>>
  BY <1>1 DEF PoolInv, RunsAtMostOnce, Placed, Queued
<1>2. ASSUME NEW t \in Tasks, Submitter(t)
      PROVE  RunsAtMostOnce' /\ Placed'
  <2>1. CASE SubmitSend(t)
    <3>1. /\ Len(queue') = Len(queue) + 1 /\ queue'[Len(queue) + 1] = t
          /\ \A i \in 1 .. Len(queue) : queue'[i] = queue[i]
          /\ Len(queue) \in Nat
      BY <2>1 DEF SubmitSend, TypeOK
    <3>2. ~Queued(t) /\ runs[t] = 0 /\ runs' = runs
      BY <2>1 DEF SubmitSend, PoolInv, Placed
    <3>3. \A u \in Tasks : Queued(u)' <=> Queued(u) \/ u = t
      BY <2>1, SendQueues
    <3>4. \A i, k \in 1 .. Len(queue') : queue'[i] = queue'[k] => i = k
      <4>1. \A x \in 1 .. Len(queue) : queue[x] # t
        BY <3>2 DEF Queued
      <4>2. \A x, y \in 1 .. Len(queue) : queue[x] = queue[y] => x = y
        BY DEF PoolInv, Placed
      <4> QED
        BY <3>1, <4>1, <4>2
    <3>5. caller'[t] = "accepted" /\ \A u \in Tasks : u # t => caller'[u] = caller[u]
      BY <2>1 DEF SubmitSend, TypeOK
    <3> QED
      BY <3>2, <3>3, <3>4, <3>5 DEF PoolInv, RunsAtMostOnce, Placed
  <2>2. CASE SubmitInline(t)
    BY <2>2 DEF SubmitInline, PoolInv, RunsAtMostOnce, Placed, Queued, TypeOK
  <2>3. CASE SubmitBegin(t) \/ SubmitRefused(t) \/ SubmitPanic(t) \/ InlineDone(t)
    BY <2>3, SMTT(30) DEF SubmitBegin, SubmitRefused, SubmitPanic, InlineDone,
                PoolInv, RunsAtMostOnce, Placed, Queued, TypeOK
  <2> QED
    BY <1>2, <2>1, <2>2, <2>3 DEF Submitter
<1>3. ASSUME NEW w \in Workers, Take(w)
      PROVE  RunsAtMostOnce' /\ Placed'
  <2> DEFINE h == Head(queue)
  <2>1. /\ Len(queue) \in Nat \ {0} /\ h = queue[1] /\ h \in Tasks
        /\ Len(queue') = Len(queue) - 1
        /\ \A i \in 1 .. Len(queue) - 1 : queue'[i] = queue[i + 1]
    BY <1>3 DEF Take, TypeOK
  <2>2. \A x, y \in 1 .. Len(queue) : queue[x] = queue[y] => x = y
    BY DEF PoolInv, Placed
  <2>3. Queued(h) /\ caller[h] = "accepted" /\ runs[h] = 0
    BY <2>1 DEF Queued, PoolInv, Placed
  <2>4. runs'[h] = 1 /\ \A u \in Tasks : u # h => runs'[u] = runs[u]
    BY <1>3, <2>1, <2>3 DEF Take, TypeOK
  <2>5. \A u \in Tasks : Queued(u)' <=> Queued(u) /\ u # h
    BY <1>3, TakeDequeues DEF PoolInv
  <2>6. \A i, k \in 1 .. Len(queue') : queue'[i] = queue'[k] => i = k
    <3> SUFFICES ASSUME NEW i \in 1 .. Len(queue'), NEW k \in 1 .. Len(queue'),
                        queue'[i] = queue'[k]
                 PROVE  i = k
      OBVIOUS
    <3>1. i + 1 \in 1 .. Len(queue) /\ k + 1 \in 1 .. Len(queue)
      BY <2>1
    <3>2. queue[i + 1] = queue[k + 1]
      BY <2>1
    <3> QED
      BY <2>2, <3>1, <3>2
  <2>7. caller' = caller /\ h \in Tasks
    BY <1>3, <2>1 DEF Take
  <2> HIDE DEF h
  <2> QED
    BY <2>3, <2>4, <2>5, <2>6, <2>7 DEF PoolInv, RunsAtMostOnce, Placed
<1>4. CASE Start \/ Stopper
  BY <1>1, <1>4 DEF Start, Stopper, StopBegin, StopCloseQueue, StopReturn
<1>5. ASSUME NEW w \in Workers, Finish(w) \/ Exit(w)
      PROVE  RunsAtMostOnce' /\ Placed'
  BY <1>1, <1>5 DEF Finish, Exit
<1> QED
  BY <1>1, <1>2, <1>3, <1>4, <1>5 DEF Next, Worker, vars

LEMMA NextStopped ==
    ASSUME TypeOK, PoolInv, [Next]_vars
    PROVE  StopQuiesces' /\ Counted'
<1> USE DEF TypeOK, poolVars, workVars, PoolInv, StopQuiesces, Counted,
            PanicNeedsRaceOrRestart, Stoppers
<1>1. CASE UNCHANGED vars
  BY <1>1 DEF vars
<1>2. CASE Start
  BY <1>2 DEF Start, MuFree
<1>3. CASE Stopper
  BY <1>3 DEF Stopper, StopBegin, StopCloseQueue, StopReturn, MuFree
<1>4. ASSUME NEW t \in Tasks, Submitter(t) PROVE StopQuiesces' /\ Counted'
  BY <1>4 DEF Submitter, SubmitBegin, SubmitInline, SubmitSend, SubmitRefused,
              SubmitPanic, InlineDone
<1>5. ASSUME NEW w \in Workers, Worker(w) PROVE StopQuiesces' /\ Counted'
  BY <1>5 DEF Worker, Take, Finish, Exit
<1> QED
  BY <1>1, <1>2, <1>3, <1>4, <1>5 DEF Next

LEMMA Invariance == Spec => [](TypeOK /\ PoolInv)
<1>1. TypeOK /\ PoolInv /\ [Next]_vars => (TypeOK /\ PoolInv)'
  BY NextType, NextPlaced, NextStopped DEF PoolInv
<1> QED
  BY <1>1, InitPool, PTL DEF Spec

(* Every task handed to Submit is entered at most once, for any number of   *)
(* callers, workers, Starts and Stops.                                      *)
THEOREM TasksRunAtMostOnce == Spec => []RunsAtMostOnce
<1>1. PoolInv => RunsAtMostOnce
  BY DEF PoolInv
<1> QED
  BY <1>1, Invariance, PTL

(* What Submit accepted is in the buffer until a worker enters it, and what *)
(* it refused never runs.                                                   *)
THEOREM AcceptedTasksStayQueued == Spec => []NothingVanishes
<1>1. PoolInv => NothingVanishes
  BY DEF PoolInv, Placed, NothingVanishes
<1> QED
  BY <1>1, Invariance, PTL

(* After Stop no worker is inside a task, whatever calls of Start and       *)
(* Submit surround it.                                                      *)
THEOREM StopIsClean == Spec => []StopQuiesces
<1>1. PoolInv => StopQuiesces
  BY DEF PoolInv
<1> QED
  BY <1>1, Invariance, PTL

(* A client that lets Submit return before Stop, and starts the pool once,  *)
(* cannot make it panic by a send on, or a second close of, a channel.      *)
THEOREM PanicHasACause == Spec => []PanicNeedsRaceOrRestart
<1>1. PoolInv => PanicNeedsRaceOrRestart
  BY DEF PoolInv, Counted
<1> QED
  BY <1>1, Invariance, PTL

(* The pool's types, with the bound on the buffer of taskQueue.             *)
THEOREM TypeCorrect == Spec => []TypeOK
BY Invariance, PTL

-------------------------------------------------------------------------------
(* The refinement of PoolContract.                                          *)

(* A worker holds a task exactly while it runs it, no two workers hold the  *)
(* same one, and what a worker holds was accepted and has been entered.     *)
Holding ==
    /\ \A w \in Workers : wpc[w] = "busy" <=> wtask[w] # NoTask
    /\ \A w \in Workers : wtask[w] # NoTask =>
          caller[wtask[w]] = "accepted" /\ runs[wtask[w]] > 0
    /\ \A v, w \in Workers :
          wtask[v] = wtask[w] /\ wtask[v] # NoTask => v = w

LEMMA NextHolding ==
    ASSUME TypeOK, PoolInv, Holding, [Next]_vars
    PROVE  Holding'
<1> USE TasksAssumption DEF poolVars, workVars
<1>1. CASE UNCHANGED vars
  BY <1>1 DEF vars, Holding
<1>2. CASE Start
  BY <1>2 DEF Start, Holding, TypeOK, PoolInv, StopQuiesces
<1>3. CASE Stopper
  BY <1>3 DEF Stopper, StopBegin, StopCloseQueue, StopReturn, Holding
<1>4. ASSUME NEW t \in Tasks, Submitter(t) PROVE Holding'
  BY <1>4 DEF Submitter, SubmitBegin, SubmitInline, SubmitSend, SubmitRefused,
              SubmitPanic, InlineDone, Holding, TypeOK
<1>5. ASSUME NEW w \in Workers, Worker(w) PROVE Holding'
  <2>1. CASE Take(w)
    <3>1. PICK h \in Tasks : h = Head(queue) /\ h = queue[1] /\ 1 \in 1 .. Len(queue)
      BY <2>1 DEF Take, TypeOK
    <3>2. caller[h] = "accepted" /\ runs[h] = 0
      BY <3>1 DEF Queued, PoolInv, Placed
    <3>3. /\ wpc' = [wpc EXCEPT ![w] = "busy"]
          /\ wtask' = [wtask EXCEPT ![w] = h]
          /\ runs' = [runs EXCEPT ![h] = @ + 1]
          /\ caller' = caller
      BY <2>1, <3>1 DEF Take
    <3>4. h # NoTask /\ \A v \in Workers : wtask[v] # h
      BY <3>2 DEF Holding
    <3> QED
      BY <3>2, <3>3, <3>4 DEF Holding, TypeOK
  <2>2. CASE Finish(w) \/ Exit(w)
    BY <2>2 DEF Finish, Exit, Holding, TypeOK
  <2> QED
    BY <1>5, <2>1, <2>2 DEF Worker
<1> QED
  BY <1>1, <1>2, <1>3, <1>4, <1>5 DEF Next

(* A task whose caller, place in the queue and worker do not change keeps   *)
(* its phase; a step that changes the phase of one task is a move of it.    *)
Held(u) == \E w \in Workers : wtask[w] = u

LEMMA PhaseFrame ==
    ASSUME NEW u \in Tasks, caller'[u] = caller[u], Queued(u)' <=> Queued(u),
           Held(u)' <=> Held(u)
    PROVE  phase'[u] = phase[u]
BY DEF phase, Held

LEMMA PhaseMoves ==
    ASSUME NEW t \in Tasks, NEW from, NEW to, phase[t] = from, phase'[t] = to,
           \A u \in Tasks : u # t => phase'[u] = phase[u],
           UNCHANGED <<started, stopClosed>>
    PROVE  Contract!Move(t, from, to)
<1>1. phase = [u \in Tasks |-> phase[u]] /\ phase' = [u \in Tasks |-> phase'[u]]
  BY DEF phase
<1>2. phase' = [phase EXCEPT ![t] = to]
  BY <1>1
<1> QED
  BY <1>2 DEF Contract!Move

LEMMA PhaseStutters ==
    ASSUME \A u \in Tasks : phase'[u] = phase[u]
    PROVE  phase' = phase
<1>1. phase = [u \in Tasks |-> phase[u]] /\ phase' = [u \in Tasks |-> phase'[u]]
  BY DEF phase
<1> QED
  BY <1>1

(* While a worker waits in its select, the tasks that run are held by the   *)
(* others, so there are fewer of them than workers.                         *)
LEMMA RoomForOne ==
    ASSUME TypeOK, Holding, NEW w \in Workers, wpc[w] = "select"
    PROVE  Cardinality(Contract!Running) < Cardinality(Workers)
<1> DEFINE Busy == {v \in Workers : wpc[v] = "busy"}
           f == [v \in Busy |-> wtask[v]]
<1>1. IsFiniteSet(Workers \ {w}) /\ Cardinality(Workers \ {w}) = Cardinality(Workers) - 1
  BY WorkersAssumption, FS_RemoveElement
<1>2. Busy \subseteq Workers \ {w}
  OBVIOUS
<1>3. IsFiniteSet(Busy) /\ Cardinality(Busy) <= Cardinality(Workers) - 1
  BY <1>1, <1>2, FS_Subset
<1>4. \A u \in Contract!Running : \E v \in Busy : f[v] = u
  <2> SUFFICES ASSUME NEW u \in Contract!Running PROVE \E v \in Busy : f[v] = u
    OBVIOUS
  <2>1. u \in Tasks /\ phase[u] = "running"
    BY DEF Contract!Running
  <2>2. PICK v \in Workers : wtask[v] = u
    BY <2>1 DEF phase
  <2>3. v \in Busy
    BY <2>1, <2>2, TasksAssumption DEF Holding
  <2> QED
    BY <2>2, <2>3
<1>5. IsFiniteSet(Contract!Running) /\ Cardinality(Contract!Running) <= Cardinality(Busy)
  <2>1. f \in [Busy -> {f[v] : v \in Busy}]
    OBVIOUS
  <2>2. f \in Surjection(Busy, {f[v] : v \in Busy})
    BY <2>1 DEF Surjection
  <2>3. IsFiniteSet({f[v] : v \in Busy}) /\ Cardinality({f[v] : v \in Busy}) <= Cardinality(Busy)
    BY <1>3, <2>2, FS_Surjection
  <2>4. Contract!Running \subseteq {f[v] : v \in Busy}
    BY <1>4
  <2>5. Cardinality(Contract!Running) \in Nat /\ Cardinality({f[v] : v \in Busy}) \in Nat
        /\ IsFiniteSet(Contract!Running)
        /\ Cardinality(Contract!Running) <= Cardinality({f[v] : v \in Busy})
    BY <2>3, <2>4, FS_Subset, FS_CardinalityType
  <2> HIDE DEF f, Busy
  <2>6. Cardinality(Busy) \in Nat
    BY <1>3, FS_CardinalityType
  <2> QED
    BY <2>3, <2>5, <2>6
<1> HIDE DEF Busy
<1> QED
  <2>1. Cardinality(Busy) \in Nat /\ Cardinality(Workers) \in Nat
        /\ Cardinality(Contract!Running) \in Nat
    BY <1>3, <1>5, WorkersAssumption, FS_CardinalityType
  <2> QED
    BY <1>3, <1>5, <2>1

(* PoolContract counts with its own instance of FiniteSets. *)
LEMMA SameCount == \A S : Contract!Cardinality(S) = Cardinality(S)
BY DEF Cardinality, Contract!Cardinality

LEMMA SubmitterRefines ==
    ASSUME TypeOK, PoolInv, Holding, NEW t \in Tasks, Submitter(t)
    PROVE  Contract!Next \/ UNCHANGED Contract!vars
<1> USE DEF poolVars, workVars
<1>1. caller \in [Tasks -> CallerStates] /\ \A u \in Tasks : Held(u) => caller[u] = "accepted"
  BY TasksAssumption DEF TypeOK, Held, Holding
<1>2. UNCHANGED <<started, stopClosed, wtask>>
  BY DEF Submitter, SubmitBegin, SubmitInline, InlineDone, SubmitSend, SubmitRefused, SubmitPanic
<1>3. \A u \in Tasks : Held(u)' <=> Held(u)
  BY <1>2 DEF Held
<1>4. ASSUME \A u \in Tasks : u # t => caller'[u] = caller[u] /\ (Queued(u)' <=> Queued(u))
      PROVE  \A u \in Tasks : u # t => phase'[u] = phase[u]
  BY <1>3, <1>4, PhaseFrame
<1>5. CASE SubmitBegin(t)
  <2>1. started /\ phase[t] = "new" /\ phase'[t] = "offered"
    BY <1>1, <1>5 DEF SubmitBegin, phase
  <2>2. \A u \in Tasks : u # t => phase'[u] = phase[u]
    BY <1>1, <1>4, <1>5 DEF SubmitBegin, Queued
  <2> QED
    BY <1>2, <2>1, <2>2, PhaseMoves DEF Contract!Next, Contract!Offer
<1>6. CASE SubmitInline(t)
  <2>1. ~started /\ phase[t] = "new" /\ phase'[t] = "inline"
    BY <1>1, <1>6 DEF SubmitInline, phase
  <2>2. \A u \in Tasks : u # t => phase'[u] = phase[u]
    BY <1>1, <1>4, <1>6 DEF SubmitInline, Queued
  <2> QED
    BY <1>2, <2>1, <2>2, PhaseMoves DEF Contract!Next, Contract!Inline
<1>7. CASE InlineDone(t)
  <2>1. phase[t] = "inline" /\ phase'[t] = "over"
    BY <1>1, <1>7 DEF InlineDone, phase
  <2>2. \A u \in Tasks : u # t => phase'[u] = phase[u]
    BY <1>1, <1>4, <1>7 DEF InlineDone, Queued
  <2> QED
    BY <1>2, <2>1, <2>2, PhaseMoves DEF Contract!Next, Contract!End
<1>8. CASE SubmitSend(t)
  <2>1. caller[t] = "select" /\ caller' = [caller EXCEPT ![t] = "accepted"]
    BY <1>8 DEF SubmitSend
  <2>2. \A u \in Tasks : Queued(u)' <=> Queued(u) \/ u = t
    BY <1>8, SendQueues
  <2>3. phase[t] = "offered" /\ phase'[t] = "waiting"
    BY <1>1, <2>1, <2>2 DEF phase
  <2>4. \A u \in Tasks : u # t => phase'[u] = phase[u]
    BY <1>1, <1>4, <2>1, <2>2
  <2> QED
    BY <1>2, <2>3, <2>4, PhaseMoves DEF Contract!Next, Contract!Accept
<1>9. CASE SubmitRefused(t)
  <2>1. stopClosed /\ phase[t] = "offered" /\ phase'[t] = "refused"
    BY <1>1, <1>9 DEF SubmitRefused, phase
  <2>2. \A u \in Tasks : u # t => phase'[u] = phase[u]
    BY <1>1, <1>4, <1>9 DEF SubmitRefused, Queued
  <2> QED
    BY <1>2, <2>1, <2>2, PhaseMoves DEF Contract!Next, Contract!Refuse
<1>10. CASE SubmitPanic(t)
  <2>1. UNCHANGED <<caller, queue>>
    BY <1>10 DEF SubmitPanic
  <2>2. \A u \in Tasks : phase'[u] = phase[u]
    BY <1>3, <2>1, PhaseFrame DEF Queued
  <2> QED
    BY <1>2, <2>2, PhaseStutters DEF Contract!vars
<1> QED
  BY <1>5, <1>6, <1>7, <1>8, <1>9, <1>10 DEF Submitter

LEMMA WorkerRefines ==
    ASSUME TypeOK, PoolInv, Holding, NEW w \in Workers, Worker(w)
    PROVE  Contract!Next \/ UNCHANGED Contract!vars
<1> USE DEF poolVars, workVars
<1>1. UNCHANGED <<started, stopClosed, caller>>
  BY DEF Worker, Take, Finish, Exit
<1>2. CASE Take(w)
  <2>1. PICK h \in Tasks : h = Head(queue)
    BY <1>2, TakeDequeues DEF PoolInv
  <2>2. Queued(h) /\ \A u \in Tasks : Queued(u)' <=> Queued(u) /\ u # h
    BY <1>2, <2>1, TakeDequeues DEF PoolInv
  <2>3. wtask' = [wtask EXCEPT ![w] = h] /\ wpc[w] = "select" /\ wtask[w] = NoTask
    BY <1>2, <2>1 DEF Take, Holding
  <2>4. caller[h] = "accepted"
    BY <2>2 DEF PoolInv, Placed
  <2>5. Held(h)' /\ \A u \in Tasks : u # h => (Held(u)' <=> Held(u))
    BY <2>3, TasksAssumption DEF Held, TypeOK
  <2>6. phase[h] = "waiting" /\ phase'[h] = "running"
    BY <1>1, <2>2, <2>4, <2>5 DEF phase, Held
  <2>7. \A u \in Tasks : u # h => phase'[u] = phase[u]
    BY <1>1, <2>2, <2>5, PhaseFrame
  <2>8. Contract!Move(h, "waiting", "running")
    BY <1>1, <2>6, <2>7, PhaseMoves
  <2> QED
    BY <2>3, <2>8, RoomForOne, SameCount DEF Contract!Next, Contract!Begin
<1>3. CASE Finish(w)
  <2>1. PICK t \in Tasks : t = wtask[w]
    BY <1>3 DEF Finish, Holding, TypeOK
  <2>2. wtask' = [wtask EXCEPT ![w] = NoTask] /\ queue' = queue
    BY <1>3 DEF Finish
  <2>3. caller[t] = "accepted" /\ ~Queued(t) /\ Held(t)
    BY <2>1, TasksAssumption DEF Holding, PoolInv, Placed, Held
  <2>4. ~Held(t)' /\ \A u \in Tasks : u # t => (Held(u)' <=> Held(u))
    BY <2>1, <2>2, TasksAssumption DEF Held, Holding, TypeOK
  <2>5. \A u \in Tasks : Queued(u)' <=> Queued(u)
    BY <2>2 DEF Queued
  <2>6. phase[t] = "running" /\ phase'[t] = "over"
    BY <1>1, <2>3, <2>4, <2>5 DEF phase, Held
  <2>7. \A u \in Tasks : u # t => phase'[u] = phase[u]
    BY <1>1, <2>4, <2>5, PhaseFrame
  <2> QED
    BY <1>1, <2>6, <2>7, PhaseMoves DEF Contract!Next, Contract!End
<1>4. CASE Exit(w)
  <2>1. UNCHANGED <<queue, wtask>>
    BY <1>4 DEF Exit
  <2>2. \A u \in Tasks : phase'[u] = phase[u]
    BY <1>1, <2>1, PhaseFrame DEF Queued, Held
  <2> QED
    BY <1>1, <2>2, PhaseStutters DEF Contract!vars
<1> QED
  BY <1>2, <1>3, <1>4 DEF Worker

LEMMA NextRefines ==
    ASSUME TypeOK, PoolInv, Holding, [Next]_vars
    PROVE  [Contract!Next]_(Contract!vars)
<1> USE DEF poolVars, workVars
<1>1. CASE Start \/ Stopper \/ UNCHANGED vars
  <2>1. UNCHANGED <<queue, wtask, caller>>
    BY <1>1 DEF Start, Stopper, StopBegin, StopCloseQueue, StopReturn, vars
  <2>2. phase' = phase
    BY <2>1, PhaseFrame, PhaseStutters DEF Queued, Held
  <2>3. CASE Start
    BY <2>2, <2>3 DEF Start, Contract!Next, Contract!Open
  <2>4. CASE StopBegin
    BY <2>2, <2>4 DEF StopBegin, Contract!Next, Contract!Close, Contract!vars
  <2>5. CASE StopReturn
    BY <2>2, <2>5 DEF StopReturn, PoolInv, Counted, Contract!Next, Contract!Closed
  <2>6. CASE StopCloseQueue \/ UNCHANGED vars
    BY <2>2, <2>6 DEF StopCloseQueue, vars, Contract!vars
  <2> QED
    BY <1>1, <2>3, <2>4, <2>5, <2>6 DEF Stopper
<1> QED
  BY <1>1, SubmitterRefines, WorkerRefines DEF Next

(* The pool keeps the safety part of PoolContract: seen from its callers,   *)
(* every step of Submit, Start, Stop and the workers offers, takes on,      *)
(* starts, ends or refuses one task as the contract allows, never more      *)
(* tasks at once than there are workers, and nothing is refused before      *)
(* Stop.                                                                    *)
THEOREM ContractIsKept == Spec => Contract!Safety
<1> DEFINE I == TypeOK /\ PoolInv /\ Holding
<1>1. Init => Holding
  BY DEF Init, Holding
<1>2. Init => Contract!Init
  BY DEF Init, Contract!Init, phase
<1>3. I /\ [Next]_vars => Holding'
  BY NextHolding
<1>4. I /\ [Next]_vars => [Contract!Next]_(Contract!vars)
  BY NextRefines
<1> HIDE DEF I
<1>5. TypeOK /\ PoolInv /\ Holding => I
  BY DEF I
<1> QED
  BY <1>1, <1>2, <1>3, <1>4, <1>5, Invariance, PTL DEF Spec, Contract!Safety
===============================================================================
