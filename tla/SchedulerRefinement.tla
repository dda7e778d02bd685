-------------------------- MODULE SchedulerRefinement --------------------------
(***************************************************************************)
(* Scheduler implements OccurrenceLedger: the initial states agree, and    *)
(* every step of the nodes is a claim, the start of a run, the end of some *)
(* claims and runs, or nothing at all to the ledger.                       *)
(***************************************************************************)
EXTENDS SchedulerProofs

(* A quiet step only ends claims and runs. *)
LEMMA QuietEnds ==
    ASSUME TypeOK, TypeOK', ClaimInv, Quiet
    PROVE  Ledger!Next
<1> DEFINE S == {o \in Occs : stage'[o] # stage[o]}
<1>1. \A o \in Occs : status'[o] = "Absent" <=> status[o] = "Absent"
  BY DEF ClaimInv, StoreRemembers, Quiet, Final
<1>2. \A o \in Occs : Held(o)' => Held(o)
  BY DEF Quiet, Held, Holds, InQueue
<1>3. \A o \in Occs : Executing(o)' => Executing(o)
  BY DEF Quiet, Executing, Claimed
<1>4. ran' = ran
  BY DEF Quiet
<1>5. \A o \in S : /\ stage[o] \in {"claimed", "running"}
                   /\ stage'[o] = IF stage[o] = "running" THEN "over" ELSE "lost"
  BY <1>1, <1>2, <1>3, <1>4 DEF stage
<1>6. stage' = [o \in Occs |->
                  IF o \notin S THEN stage[o]
                  ELSE IF stage[o] = "running" THEN "over" ELSE "lost"]
  BY <1>5 DEF stage
<1>7. Ledger!End(S)
  BY <1>5, <1>6 DEF Ledger!End
<1> QED
  BY <1>7 DEF Ledger!Next
(* A step that concerns one occurrence. *)
LEMMA OneOcc ==
    ASSUME NEW c \in Occs,
           \A o \in Occs \ {c} : status'[o] = status[o] /\ ran'[o] = ran[o],
           \A o \in Occs \ {c} :
               (Held(o)' <=> Held(o)) /\ (Executing(o)' <=> Executing(o))
    PROVE  /\ stage' = [stage EXCEPT ![c] = stage'[c]]
           /\ stage'[c] = stage[c] => stage' = stage
<1>1. stage = [o \in Occs |-> stage[o]] /\ stage' = [o \in Occs |-> stage'[o]]
  BY DEF stage
<1>2. \A o \in Occs \ {c} : stage'[o] = stage[o]
  BY DEF stage
<1> HIDE DEF stage
<1> QED
  BY <1>1, <1>2

(* One goroutine moves, and what it handles, if anything, is c. *)
LEMMA OneThread ==
    ASSUME TypeOK, NEW n \in Nodes, NEW th \in Threads, NEW c \in Occs, NEW p, NEW x,
           Goto(n, th, p, x),
           pc[n][th] \in Claimed => cur[n][th] = c,
           p \in Claimed => x = c,
           NEW o \in Occs, o # c, \A m \in Nodes : InQueue(m, o)' <=> InQueue(m, o)
    PROVE  (Held(o)' <=> Held(o)) /\ (Executing(o)' <=> Executing(o))
<1>1. \A m \in Nodes, a \in Threads :
          /\ Holds(m, a, o)' <=> Holds(m, a, o)
          /\ pc'[m][a] = "tasks" /\ cur'[m][a] = o <=>
                pc[m][a] = "tasks" /\ cur[m][a] = o
  BY GotoEffect DEF Holds, Claimed
<1> QED
  BY <1>1 DEF Held, Executing

LEMMA CreateWinsClaims ==
    ASSUME TypeOK, HasOcc, ClaimInv, NEW n \in Nodes, NEW th \in Threads,
           CreateWins(n, th)
    PROVE  Ledger!Next
<1> USE DEF storeVars, recordVars, startVars, threadVars, tickVars, reapVars
<1>0. PICK c \in Occs : c = cur[n][th]
  BY DEF CreateWins, HasOcc
<1>1. /\ c = cur[n][th] /\ status[c] = "Absent" /\ ran[c] = 0
      /\ pc[n][th] = "create" /\ Goto(n, th, "submit", c)
      /\ status' = [status EXCEPT ![c] = "Pending"] /\ UNCHANGED <<ran, queue>>
  BY <1>0 DEF CreateWins, Record, ClaimInv, HeldIsPending
<1>2. /\ \A o \in Occs \ {c} : status'[o] = status[o] /\ ran'[o] = ran[o]
      /\ status'[c] = "Pending" /\ ran'[c] = 0
  BY <1>1 DEF TypeOK
<1>3. Held(c)'
  <2>1. Holds(n, th, c)'
    BY <1>1, GotoEffect DEF Holds, Claimed
  <2> QED
    BY <2>1 DEF Held
<1>4. \A o \in Occs \ {c} : (Held(o)' <=> Held(o)) /\ (Executing(o)' <=> Executing(o))
  <2>1. \A m \in Nodes, o \in Occs : InQueue(m, o)' <=> InQueue(m, o)
    BY <1>1 DEF InQueue
  <2> QED
    BY <1>1, <2>1, OneThread DEF Claimed
<1>5. stage[c] = "free" /\ stage'[c] = "claimed"
  BY <1>1, <1>2, <1>3 DEF stage
<1>6. stage' = [stage EXCEPT ![c] = "claimed"]
  BY <1>1, <1>2, <1>4, <1>5, OneOcc
<1> QED
  BY <1>1, <1>5, <1>6 DEF Ledger!Next, Ledger!Claim

LEMMA ExecStartRuns ==
    ASSUME TypeOK, HasOcc, ClaimInv, NEW n \in Nodes, NEW th \in Threads,
           ExecStart(n, th)
    PROVE  Ledger!Next
<1> USE DEF storeVars, recordVars, startVars, threadVars, tickVars, reapVars
<1>0. PICK c \in Occs : c = cur[n][th]
  BY DEF ExecStart, HasOcc
<1>1. /\ c = cur[n][th] /\ pc[n][th] = "exec" /\ Goto(n, th, "tasks", c)
      /\ status' = [status EXCEPT ![c] = "Running"]
      /\ ran' = [ran EXCEPT ![c] = @ + 1] /\ queue' = queue
  BY <1>0 DEF ExecStart
<1>2. Holds(n, th, c)
  BY <1>1 DEF Holds, Claimed
<1>3. status[c] = "Pending" /\ ran[c] = 0 /\ Held(c)
  BY <1>1, <1>2 DEF ClaimInv, HeldIsPending, Held
<1>4. /\ \A o \in Occs \ {c} : status'[o] = status[o] /\ ran'[o] = ran[o]
      /\ status'[c] = "Running" /\ ran'[c] = 1
  BY <1>1, <1>3 DEF TypeOK
<1>5. Executing(c)'
  BY <1>1, GotoEffect DEF Executing
<1>6. \A o \in Occs \ {c} : (Held(o)' <=> Held(o)) /\ (Executing(o)' <=> Executing(o))
  <2>1. \A m \in Nodes, o \in Occs : InQueue(m, o)' <=> InQueue(m, o)
    BY <1>1 DEF InQueue
  <2> QED
    BY <1>1, <2>1, OneThread
<1>7. stage[c] = "claimed" /\ stage'[c] = "running"
  BY <1>1, <1>3, <1>4, <1>5 DEF stage
<1>8. stage' = [stage EXCEPT ![c] = "running"]
  BY <1>1, <1>4, <1>6, <1>7, OneOcc
<1> QED
  BY <1>1, <1>7, <1>8 DEF Ledger!Next, Ledger!Run

LEMMA SubmitSendStutters ==
    ASSUME TypeOK, HasOcc, ClaimInv, NEW n \in Nodes, NEW th \in Threads,
           SubmitSend(n, th)
    PROVE  stage' = stage
<1> USE DEF storeVars, recordVars, startVars, threadVars, tickVars, reapVars
<1>0. PICK c \in Occs : c = cur[n][th]
  BY DEF SubmitSend, HasOcc
<1>1. /\ c = cur[n][th] /\ pc[n][th] = "select" /\ Goto(n, th, "idle", NoOcc)
      /\ queue' = [queue EXCEPT ![n] = Append(@, c)]
      /\ UNCHANGED <<status, ran>>
  BY <1>0 DEF SubmitSend
<1>2. Holds(n, th, c)
  BY <1>1 DEF Holds, Claimed
<1>3. status[c] = "Pending" /\ ran[c] = 0 /\ Held(c)
  BY <1>1, <1>2 DEF ClaimInv, HeldIsPending, Held
<1>4. /\ Len(queue'[n]) = Len(queue[n]) + 1
      /\ queue'[n][Len(queue[n]) + 1] = c
      /\ \A i \in 1 .. Len(queue[n]) : queue'[n][i] = queue[n][i]
      /\ Len(queue[n]) \in Nat
  BY <1>1 DEF TypeOK
<1>5. \A m \in Nodes \ {n} : queue'[m] = queue[m]
  BY <1>1 DEF TypeOK
<1>6. Held(c)'
  <2>1. Len(queue[n]) + 1 \in 1 .. Len(queue'[n])
    BY <1>4
  <2>2. InQueue(n, c)'
    BY <1>4, <2>1 DEF InQueue
  <2> QED
    BY <2>2 DEF Held
<1>7. \A m \in Nodes, o \in Occs \ {c} : InQueue(m, o)' <=> InQueue(m, o)
  <2>1. ASSUME NEW o \in Occs \ {c}, InQueue(n, o) PROVE InQueue(n, o)'
    <3>1. PICK i \in 1 .. Len(queue[n]) : queue[n][i] = o
      BY <2>1 DEF InQueue
    <3>2. i \in 1 .. Len(queue'[n]) /\ queue'[n][i] = o
      BY <1>4, <3>1
    <3> QED
      BY <3>2 DEF InQueue
  <2>2. ASSUME NEW o \in Occs \ {c}, InQueue(n, o)' PROVE InQueue(n, o)
    <3>1. PICK i \in 1 .. Len(queue'[n]) : queue'[n][i] = o
      BY <2>2 DEF InQueue
    <3>2. i \in 1 .. Len(queue[n])
      BY <1>4, <3>1
    <3> QED
      BY <1>4, <3>1, <3>2 DEF InQueue
  <2>3. \A m \in Nodes \ {n}, o \in Occs : InQueue(m, o)' <=> InQueue(m, o)
    BY <1>5 DEF InQueue
  <2> QED
    BY <2>1, <2>2, <2>3
<1>8. \A o \in Occs \ {c} : (Held(o)' <=> Held(o)) /\ (Executing(o)' <=> Executing(o))
  BY <1>1, <1>7, OneThread DEF Claimed
<1>9. stage'[c] = stage[c]
  BY <1>1, <1>3, <1>6 DEF stage
<1> QED
  BY <1>1, <1>8, <1>9, OneOcc

LEMMA TakeStutters ==
    ASSUME TypeOK, ClaimInv, NEW n \in Nodes, NEW w \in Workers, Take(n, w)
    PROVE  stage' = stage
<1> USE ThreadTypes
        DEF storeVars, recordVars, startVars, threadVars, tickVars, reapVars
<1>0. PICK h \in Occs : h = Head(queue[n])
  BY DEF Take, TypeOK
<1>1. /\ pc[n][w] = "idle" /\ Goto(n, w, "exec", h) /\ queue[n] # <<>>
      /\ queue' = [queue EXCEPT ![n] = Tail(@)] /\ UNCHANGED <<status, ran>>
  BY <1>0 DEF Take
<1>2. /\ Len(queue[n]) \in Nat \ {0}
      /\ h = queue[n][1]
      /\ Len(queue'[n]) = Len(queue[n]) - 1
      /\ \A i \in 1 .. Len(queue[n]) - 1 : queue'[n][i] = queue[n][i + 1]
  BY <1>0, <1>1 DEF TypeOK
<1>3. InQueue(n, h)
  BY <1>2 DEF InQueue
<1>4. status[h] = "Pending" /\ ran[h] = 0 /\ Held(h)
  BY <1>2, <1>3 DEF ClaimInv, HeldIsPending, Held
<1>5. Held(h)'
  <2>1. Holds(n, w, h)'
    BY <1>1, GotoEffect DEF Holds, Claimed
  <2> QED
    BY <2>1 DEF Held
<1>6. \A m \in Nodes \ {n} : queue'[m] = queue[m]
  BY <1>1 DEF TypeOK
<1>7. \A m \in Nodes, o \in Occs \ {h} : InQueue(m, o)' <=> InQueue(m, o)
  <2>1. ASSUME NEW o \in Occs \ {h}, InQueue(n, o) PROVE InQueue(n, o)'
    <3>1. PICK i \in 1 .. Len(queue[n]) : queue[n][i] = o
      BY <2>1 DEF InQueue
    <3>2. i # 1
      BY <1>2, <2>1, <3>1
    <3>3. i - 1 \in 1 .. Len(queue[n]) - 1 /\ (i - 1) + 1 = i
      BY <1>2, <3>2
    <3>4. queue'[n][i - 1] = o /\ i - 1 \in 1 .. Len(queue'[n])
      BY <1>2, <3>1, <3>3
    <3> QED
      BY <3>4 DEF InQueue
  <2>2. ASSUME NEW o \in Occs \ {h}, InQueue(n, o)' PROVE InQueue(n, o)
    <3>1. PICK i \in 1 .. Len(queue'[n]) : queue'[n][i] = o
      BY <2>2 DEF InQueue
    <3>2. i + 1 \in 1 .. Len(queue[n]) /\ queue[n][i + 1] = o
      BY <1>2, <3>1
    <3> QED
      BY <3>2 DEF InQueue
  <2>3. \A m \in Nodes \ {n}, o \in Occs : InQueue(m, o)' <=> InQueue(m, o)
    BY <1>6 DEF InQueue
  <2> QED
    BY <2>1, <2>2, <2>3
<1>8. \A o \in Occs \ {h} : (Held(o)' <=> Held(o)) /\ (Executing(o)' <=> Executing(o))
  BY <1>1, <1>2, <1>7, OneThread DEF Claimed
<1>9. stage'[h] = stage[h]
  BY <1>1, <1>2, <1>4, <1>5 DEF stage
<1> QED
  BY <1>1, <1>2, <1>8, <1>9, OneOcc

LEMMA NextRefines ==
    ASSUME TypeOK, TypeOK', HasOcc, ClaimInv, [Next]_vars
    PROVE  [Ledger!Next]_stage
<1> USE DEF storeVars, recordVars, startVars, threadVars, tickVars, reapVars
<1>1. CASE UNCHANGED vars \/ Advance \/ \E j \in Jobs : DeleteJob(j)
  <2>1. Quiet
    BY <1>1 DEF vars, Advance, DeleteJob, Quiet
  <2> QED
    BY <2>1, QuietEnds
<1>2. ASSUME NEW n \in Nodes, Process(n) \/ Recover(n) \/ Reaper(n)
      PROVE  [Ledger!Next]_stage
  BY <1>2, ProcessQuiet, RecoverQuiet, ReaperQuiet, QuietEnds
<1>3. ASSUME NEW n \in Nodes, NEW j \in Jobs, Ticker(n, j) \/ Watcher(n, j)
      PROVE  [Ledger!Next]_stage
  BY <1>3, WatchQuiet, QuietEnds
<1>4. ASSUME NEW n \in Nodes, NEW w \in Workers, Worker(n, w)
      PROVE  [Ledger!Next]_stage
  BY <1>4, ThreadTypes, TakeStutters, ScheduleQuiet, QuietEnds DEF Worker
<1>5. ASSUME NEW n \in Nodes, NEW th \in Threads, Schedule(n, th)
      PROVE  [Ledger!Next]_stage
  BY <1>5, CreateWinsClaims, SubmitSendStutters, ScheduleQuiet, QuietEnds DEF Schedule
<1>6. ASSUME NEW n \in Nodes, NEW th \in Threads, Execute(n, th)
      PROVE  [Ledger!Next]_stage
  BY <1>6, ExecStartRuns, ScheduleQuiet, FinishQuiet, QuietEnds DEF Execute
<1> QED
  BY <1>1, <1>2, <1>3, <1>4, <1>5, <1>6 DEF Next, NodeStep

(* The schedulers implement the ledger: however nodes race, crash, recover *)
(* and reap, an occurrence is claimed once, run at most once under that    *)
(* claim, and never taken up again once its claim or its run is gone.      *)
THEOREM LedgerIsImplemented == Spec => ImplementsLedger
<1> DEFINE I == TypeOK /\ HasOcc /\ ClaimInv
<1>1. Init => Ledger!Init
  BY DEF Init, stage, Ledger!Init
<1>2. I /\ I' /\ [Next]_vars => [Ledger!Next]_stage
  BY NextRefines
<1>3. Spec => []I
  BY Invariance
<1> HIDE DEF I
<1>4. Spec => Ledger!Spec
  BY <1>1, <1>2, <1>3, PTL DEF Spec, Ledger!Spec
<1> QED
  BY <1>4 DEF ImplementsLedger

===============================================================================
