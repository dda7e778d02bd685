----------------------------- MODULE JobUpdateProofs -----------------------------
(***************************************************************************)
(* What holds of JobUpdate for any number of callers, tasks, updates,      *)
(* tickers and instants: updates cancel nothing that was due when they     *)
(* read their clock, and the tickers follow Start, UpdateJob and Shutdown. *)
(***************************************************************************)
EXTENDS JobUpdate, TLAPS

CallShape == [pc : PCs, base : Nat, update : JobUpdate, left : JobUpdate,
              found : Keys \cup {<<>>}, clock : Nat, doomed : SUBSET Times]

(* The part of the type that the two theorems need. *)
Shape ==
    /\ now \in Nat
    /\ version \in Nat
    /\ occ \in [Times -> {"Absent", "Pending", "Running", "Canceled"}]
    /\ call \in [Callers -> CallShape]
    /\ life \in Lives
    /\ ticker \in Tickers
    /\ ticking \in [Tickers -> {"new", "on", "off"}]
    /\ ch \in [Tickers -> Seq(Times)]
    /\ watcher \in [pc : {"off", "select", "handle"}, of : Nat, at : Nat]
    /\ run \in [Times -> {"none", "queued", "started"}]

(* An update with a new ticker was let in only while there was room, and   *)
(* a watcher waits on a channel of the job.                                *)
Room ==
    /\ call[Sched].pc # "idle" /\ call[Sched].update.NewTicker => ticker < MaxTickers
    /\ watcher.pc # "off" => watcher.of \in Tickers
    /\ watcher.pc = "handle" => watcher.at \in Times

(* What the call r is going to cancel has come since it read its clock. *)
Later(r) ==
    /\ r.clock <= now
    /\ r.pc # "cancel" => r.doomed = {}
    /\ \A t \in r.doomed : r.clock < t /\ t <= now

(* No record, tick or trigger is ahead of the clock.  So a policy finds    *)
(* only what has come between its reading the clock and its listing.       *)
NotAhead ==
    /\ \A t \in Times : occ[t] # "Absent" => t <= now
    /\ \A k \in Tickers : \A i \in 1 .. Len(ch[k]) : ch[k][i] <= now
    /\ watcher.pc = "handle" => watcher.at <= now
    /\ \A t \in Times : run[t] # "none" => occ[t] # "Absent"
    /\ \A c \in Callers : Later(call[c])

(* Where the ticker stands in each life of the node. *)
TickerInv ==
    /\ \A k \in Tickers : ticking[k] = "on" => k = ticker
    /\ life = "new" => watcher.pc = "off"
    /\ watcher.pc # "off" => Enabled
    /\ life \in {"starting", "running"} /\ watcher.pc # "off"
          /\ "starting" \notin swaps => ticking[ticker] = "on"
    /\ life \in {"draining", "stopped"} /\ "draining" \notin swaps
          => ticking[ticker] # "on"

Inv == Shape /\ Room /\ NotAhead /\ TickerInv

-------------------------------------------------------------------------------
LEMMA IdleShape ==
    /\ Idle \in CallShape /\ Idle.pc = "idle"
    /\ now \in Nat => Later(Idle)
BY DEF Idle, CallShape, PCs, NoUpdate, JobUpdate, Later

LEMMA InitInv == Init => Inv
<1> SUFFICES ASSUME Init PROVE Inv
  OBVIOUS
<1>1. Shape
  BY IdleShape, UpdateAssumption DEF Init, Shape, Tickers, Times, Lives
<1>2. Room
  BY <1>1, IdleShape DEF Init, Room, Callers
<1>3. NotAhead
  BY <1>1, IdleShape DEF Init, NotAhead, Shape
<1>4. TickerInv
  BY DEF Init, TickerInv
<1> QED
  BY <1>1, <1>2, <1>3, <1>4 DEF Inv

(* A step of a caller that touches the call and the records only. *)
CallStep ==
    /\ UNCHANGED <<now, occ, life, tickVars, runVars, swaps>>
    /\ version' \in Nat
    /\ call' \in [Callers -> CallShape]
    /\ call'[Sched].pc # "idle" /\ call'[Sched].update.NewTicker
          => ticker < MaxTickers
    /\ \A c \in Callers : Later(call'[c])

LEMMA CallStepKeepsInv == Inv /\ CallStep => Inv'
<1> SUFFICES ASSUME Inv, CallStep PROVE Inv'
  OBVIOUS
<1> USE DEF Inv, CallStep, tickVars, runVars
<1>1. Shape'
  BY DEF Shape
<1>2. Room'
  BY DEF Room
<1>3. NotAhead'
  BY DEF NotAhead, Later
<1>4. TickerInv'
  BY DEF TickerInv
<1> QED
  BY <1>1, <1>2, <1>3, <1>4

(* Going on with a call of the same update, or returning, leaves room. *)
LEMMA ContinuesInShape ==
    ASSUME Inv, NEW c \in Callers, NEW new \in CallShape, Continues(c, new), Later(new),
           new.pc = "idle" \/ c # Sched \/ ~new.update.NewTicker
              \/ (call[c].pc # "idle" /\ new.update = call[c].update)
              \/ ticker < MaxTickers
    PROVE  /\ call' \in [Callers -> CallShape]
           /\ call'[Sched].pc # "idle" /\ call'[Sched].update.NewTicker
                 => ticker < MaxTickers
           /\ \A d \in Callers : Later(call'[d])
<1>1. /\ call' \in [Callers -> CallShape]
      /\ \A d \in Callers : Later(call'[d])
  BY DEF Continues, Inv, Shape, NotAhead
<1>2. CASE c = Sched
  <2>1. call'[Sched] = new
    BY <1>2 DEF Continues, Inv, Shape
  <2> QED
    BY <1>1, <1>2, <2>1 DEF Inv, Room
<1>3. CASE c # Sched
  <2>1. call'[Sched] = call[Sched]
    BY <1>3 DEF Continues, Inv, Shape, Callers
  <2> QED
    BY <1>1, <2>1 DEF Inv, Room
<1> QED
  BY <1>2, <1>3

LEMMA ReturnsInShape ==
    ASSUME Inv, NEW c \in Callers, Returns(c)
    PROVE  /\ call' \in [Callers -> CallShape]
           /\ call'[Sched].pc # "idle" /\ call'[Sched].update.NewTicker
                 => ticker < MaxTickers
           /\ \A d \in Callers : Later(call'[d])
<1>1. Continues(c, Idle)
  BY DEF Returns, Continues
<1>2. Later(Idle)
  BY IdleShape DEF Inv, Shape
<1> QED
  BY <1>1, <1>2, IdleShape, ContinuesInShape

-------------------------------------------------------------------------------
(* Steps of the calls. *)

LEMMA RegisterJobKeeps == Inv /\ RegisterJob => CallStep
<1> SUFFICES ASSUME Inv, RegisterJob PROVE CallStep
  OBVIOUS
<1> DEFINE new == [Idle EXCEPT !.pc = "register", !.left.AddedTasks = Initial]
<1>1. new \in CallShape /\ new.update.NewTicker = FALSE
  BY UpdateAssumption DEF Idle, CallShape, PCs, NoUpdate, JobUpdate
<1>3. Later(new)
  BY DEF Idle, Later, Inv, Shape
<1>2. Continues(Sched, new)
  BY DEF RegisterJob
<1> QED
  BY <1>1, <1>2, <1>3, ContinuesInShape DEF RegisterJob, CallStep, Callers

LEMMA RegisteredKeeps == Inv /\ Registered => CallStep
BY ReturnsInShape DEF Registered, CallStep, Callers, storeVars, Inv, Shape

LEMMA ReadJobKeeps == ASSUME Inv, NEW c \in Callers, ReadJob(c) PROVE CallStep
<1>1. PICK u \in Updates :
          /\ c = Sched /\ u.NewTicker => ticker < MaxTickers
          /\ Continues(c, [Idle EXCEPT !.pc = "write", !.base = version,
                                       !.update = u, !.left = u])
  BY DEF ReadJob
<1> DEFINE new == [Idle EXCEPT !.pc = "write", !.base = version,
                               !.update = u, !.left = u]
<1>2. u \in JobUpdate
  BY UpdateAssumption
<1>3. new \in CallShape /\ new.update = u
  BY <1>2 DEF Idle, CallShape, PCs, Inv, Shape
<1>4. Later(new)
  BY DEF Idle, Later, Inv, Shape
<1> QED
  BY <1>1, <1>3, <1>4, ContinuesInShape DEF ReadJob, CallStep, storeVars, Inv, Shape

LEMMA WriteJobKeeps == ASSUME Inv, NEW c \in Callers, WriteJob(c) PROVE CallStep
<1> DEFINE new == [call[c] EXCEPT !.pc = "tasks"]
<1>1. call[c] \in CallShape /\ Later(call[c])
  BY DEF Inv, Shape, NotAhead
<1>2. /\ new \in CallShape /\ new.update = call[c].update /\ Later(new)
      /\ call[c].base + 1 \in Nat
  BY <1>1 DEF CallShape, PCs, Later, WriteJob
<1> QED
  BY <1>2, ContinuesInShape DEF WriteJob, CallStep

LEMMA CreateTaskKeeps ==
    ASSUME Inv, NEW c \in Callers, NEW t \in Tasks, CreateTask(c, t) PROVE CallStep
<1> DEFINE new == [call[c] EXCEPT !.left.AddedTasks = @ \ {t}]
<1>1. call[c] \in CallShape /\ Later(call[c])
  BY DEF Inv, Shape, NotAhead
<1>2. new \in CallShape /\ new.update = call[c].update /\ Later(new)
  BY <1>1 DEF CallShape, JobUpdate, Later
<1>3. CASE Continues(c, new)
  BY <1>2, <1>3, ContinuesInShape DEF CreateTask, CallStep, Inv, Shape
<1>4. CASE Returns(c)
  BY <1>4, ReturnsInShape DEF CreateTask, CallStep, Inv, Shape
<1> QED
  BY <1>3, <1>4 DEF CreateTask

LEMMA GetTaskKeeps ==
    ASSUME Inv, NEW c \in Callers, NEW t \in Tasks, GetTask(c, t) PROVE CallStep
<1>1. call[c] \in CallShape /\ Later(call[c])
  BY DEF Inv, Shape, NotAhead
<1>2. ASSUME NEW k \in Found(t), Continues(c, [call[c] EXCEPT !.found = k])
      PROVE  CallStep
  <2> DEFINE new == [call[c] EXCEPT !.found = k]
  <2>1. k \in Keys
    BY DEF Found
  <2>2. new \in CallShape /\ new.update = call[c].update /\ Later(new)
    BY <1>1, <2>1 DEF CallShape, Later
  <2> QED
    BY <1>2, <2>2, ContinuesInShape DEF GetTask, CallStep, storeVars, Inv, Shape
<1>3. CASE Returns(c)
  BY <1>3, ReturnsInShape DEF GetTask, CallStep, storeVars, Inv, Shape
<1> QED
  BY <1>2, <1>3 DEF GetTask

LEMMA DeleteTaskKeeps ==
    ASSUME Inv, NEW c \in Callers, DeleteTask(c) PROVE CallStep
<1> DEFINE k == call[c].found
           new == [call[c] EXCEPT !.found = <<>>,
                                  !.left.RemovedTaskIDs = @ \ {k[2]}]
<1>1. call[c] \in CallShape /\ Later(call[c])
  BY DEF Inv, Shape, NotAhead
<1>2. new \in CallShape /\ new.update = call[c].update /\ Later(new)
  BY <1>1 DEF CallShape, JobUpdate, Later
<1>3. Continues(c, new)
  BY DEF DeleteTask
<1> QED
  BY <1>2, <1>3, ContinuesInShape DEF DeleteTask, CallStep, Inv, Shape

LEMMA UpdateTaskKeeps ==
    ASSUME Inv, NEW c \in Callers, UpdateTask(c) PROVE CallStep
<1> DEFINE k == call[c].found
           new == [call[c] EXCEPT !.found = <<>>,
                                  !.left.UpdatedTasks = @ \ {k[2]}]
<1>1. call[c] \in CallShape /\ Later(call[c])
  BY DEF Inv, Shape, NotAhead
<1>2. new \in CallShape /\ new.update = call[c].update /\ Later(new)
  BY <1>1 DEF CallShape, JobUpdate, Later
<1>3. CASE Continues(c, new)
  BY <1>2, <1>3, ContinuesInShape DEF UpdateTask, CallStep, Inv, Shape
<1>4. CASE Returns(c)
  BY <1>4, ReturnsInShape DEF UpdateTask, CallStep, Inv, Shape
<1> QED
  BY <1>3, <1>4 DEF UpdateTask

LEMMA FailsKeeps == ASSUME Inv, NEW c \in Callers, Fails(c) PROVE CallStep
BY ReturnsInShape DEF Fails, CallStep, Inv, Shape

-------------------------------------------------------------------------------
(* The other steps. *)

LEMMA ApplyScheduleKeeps ==
    ASSUME Inv, NEW c \in Callers, ApplySchedule(c) PROVE CallStep
<1> DEFINE new == [call[c] EXCEPT !.pc = "list", !.clock = now]
<1>1. call[c] \in CallShape /\ Later(call[c]) /\ now \in Nat
  BY DEF Inv, Shape, NotAhead
<1>2. new \in CallShape /\ new.update = call[c].update
  BY <1>1 DEF CallShape, PCs
<1>3. call[c].doomed = {}
  BY <1>1 DEF Later, ApplySchedule, ListsDone
<1>4. Later(new)
  BY <1>1, <1>3 DEF Later, CallShape
<1>5. Continues(c, new)
  BY DEF ApplySchedule
<1> QED
  BY <1>2, <1>4, <1>5, ContinuesInShape
     DEF ApplySchedule, ListsDone, CallStep, storeVars, Inv, Shape

(* A policy finds only what has come since m. *)
LEMMA OnlyLater ==
    ASSUME Inv, NEW policy, NEW m \in Nat, NEW t \in Canceled(policy, m)
    PROVE  t \in Times /\ m < t /\ t <= now
<1>1. \A u \in Immediate(ListPendingOccurrences, m) : u \in Times /\ m < u /\ u <= now
  BY DEF Immediate, ListPendingOccurrences, Inv, Shape, NotAhead, Times
<1>2. Graceful(ListPendingOccurrences, m) \subseteq Immediate(ListPendingOccurrences, m)
  BY DEF Graceful
<1>3. Windowed(ListPendingOccurrences, m) \subseteq Immediate(ListPendingOccurrences, m)
  BY DEF Windowed, Immediate
<1>4. t \in Immediate(ListPendingOccurrences, m)
  BY <1>2, <1>3 DEF Canceled
<1> QED
  BY <1>1, <1>4

LEMMA ListOccurrencesKeeps ==
    ASSUME Inv, NEW c \in Callers, ListOccurrences(c) PROVE CallStep
<1> DEFINE m == call[c].clock
           again == [call[c] EXCEPT !.pc = "immediate"]
           new(policy) == [call[c] EXCEPT !.pc = "cancel",
                                          !.doomed = Canceled(policy, m)]
<1>1. call[c] \in CallShape /\ Later(call[c]) /\ m \in Nat
  BY DEF Inv, Shape, NotAhead, CallShape
<1>2. again \in CallShape /\ again.update = call[c].update /\ Later(again)
  BY <1>1 DEF CallShape, PCs, Later, ListOccurrences
<1>3. ASSUME NEW policy
      PROVE  /\ new(policy) \in CallShape
             /\ new(policy).update = call[c].update
             /\ Later(new(policy))
  <2>1. \A t \in Canceled(policy, m) : t \in Times /\ m < t /\ t <= now
    BY <1>1, OnlyLater
  <2>2. Canceled(policy, m) \in SUBSET Times
    BY <2>1
  <2> HIDE DEF m
  <2>3. new(policy) \in CallShape /\ new(policy).update = call[c].update
    BY <1>1, <2>2 DEF CallShape, PCs
  <2>4. Later(new(policy))
    BY <1>1, <2>1 DEF CallShape, Later, m
  <2> QED
    BY <2>3, <2>4
<1>4. Continues(c, again) \/ \E policy \in Policies : Continues(c, new(policy))
  BY DEF ListOccurrences, Policies
<1>5. CASE Continues(c, again)
  BY <1>2, <1>5, ContinuesInShape DEF ListOccurrences, CallStep, storeVars, Inv, Shape
<1>6. ASSUME NEW policy \in Policies, Continues(c, new(policy)) PROVE CallStep
  <2> HIDE DEF new
  <2>1. /\ new(policy) \in CallShape
        /\ new(policy).update = call[c].update
        /\ Later(new(policy))
    BY <1>3
  <2> QED
    BY <1>6, <2>1, ContinuesInShape
       DEF ListOccurrences, CallStep, storeVars, Inv, Shape
<1> QED
  BY <1>4, <1>5, <1>6

LEMMA AppliedKeeps == ASSUME Inv, NEW c \in Callers, Applied(c) PROVE CallStep
<1> DEFINE new == [call[c] EXCEPT !.pc = "copy", !.clock = 0]
<1>1. call[c] \in CallShape /\ Later(call[c]) /\ now \in Nat
  BY DEF Inv, Shape, NotAhead
<1>2. new \in CallShape /\ new.update = call[c].update
  BY <1>1 DEF CallShape, PCs
<1>3. call[c].doomed = {}
  BY <1>1 DEF Later, Applied, ListsDone
<1>4. Later(new)
  BY <1>1, <1>3 DEF Later, CallShape
<1>5. CASE Continues(c, new)
  BY <1>2, <1>4, <1>5, ContinuesInShape
     DEF Applied, ListsDone, CallStep, storeVars, Inv, Shape
<1>6. CASE Returns(c)
  BY <1>6, ReturnsInShape DEF Applied, CallStep, storeVars, Inv, Shape
<1> QED
  BY <1>5, <1>6 DEF Applied

(* What CancelOccurrence writes has come since the call read its clock. *)
LEMMA CanceledIsLater ==
    ASSUME Inv, NEW c \in Callers, NEW t \in Times, CancelOccurrence(c, t)
    PROVE  /\ call[c].clock < t /\ t <= now
           /\ \A u \in Times \ {t} : occ'[u] = occ[u]
BY DEF CancelOccurrence, Inv, Shape, NotAhead, Later

LEMMA CancelOccurrenceKeeps ==
    ASSUME Inv, NEW c \in Callers, NEW t \in Times, CancelOccurrence(c, t) PROVE Inv'
<1> DEFINE new == [call[c] EXCEPT !.doomed = @ \ {t}]
<1>1. call[c] \in CallShape /\ Later(call[c])
  BY DEF Inv, Shape, NotAhead
<1>2. new \in CallShape /\ new.update = call[c].update /\ new.pc = "cancel" /\ Later(new)
  BY <1>1 DEF CallShape, Later, CancelOccurrence
<1>3. Continues(c, new)
  BY DEF CancelOccurrence
<1>4. /\ call' \in [Callers -> CallShape]
      /\ call'[Sched].pc # "idle" /\ call'[Sched].update.NewTicker
            => ticker < MaxTickers
      /\ \A d \in Callers : Later(call'[d])
  BY <1>2, <1>3, ContinuesInShape DEF CancelOccurrence
<1>6. occ' \in [Times -> {"Absent", "Pending", "Running", "Canceled"}]
  BY DEF CancelOccurrence, Inv, Shape
<1>7. Shape'
  BY <1>4, <1>6 DEF CancelOccurrence, Inv, Shape, tickVars, runVars
<1>8. Room'
  BY <1>4 DEF CancelOccurrence, Inv, Room, tickVars, runVars
<1>9. NotAhead'
  <2>1. \A u \in Times : occ'[u] # "Absent" => u <= now
    BY CanceledIsLater DEF Inv, NotAhead
  <2>2. \A u \in Times : run[u] # "none" => occ'[u] # "Absent"
    BY CanceledIsLater DEF CancelOccurrence, Inv, Shape, NotAhead
  <2> QED
    BY <1>4, <2>1, <2>2 DEF CancelOccurrence, Inv, NotAhead, Later, tickVars, runVars
<1>10. TickerInv'
  BY DEF CancelOccurrence, Inv, TickerInv, tickVars, runVars
<1> QED
  BY <1>7, <1>8, <1>9, <1>10 DEF Inv

LEMMA UpdateCopyKeeps == Inv /\ UpdateCopy => Inv'
<1> SUFFICES ASSUME Inv, UpdateCopy PROVE Inv'
  OBVIOUS
<1>1. /\ call' \in [Callers -> CallShape]
      /\ call'[Sched].pc = "idle"
      /\ \A c \in Callers : Later(call'[c])
  BY IdleShape, ReturnsInShape DEF UpdateCopy, Returns, Inv, Shape, Callers
<1>2. CASE call[Sched].update.NewTicker
  <2>1. /\ ticker' = ticker + 1 /\ ticker' \in Tickers /\ ticker \in Tickers
        /\ ReplaceTicker
    BY <1>2, UpdateAssumption DEF UpdateCopy, ReplaceTicker, Inv, Shape, Room, Tickers
  <2>2. ticking' \in [Tickers -> {"new", "on", "off"}]
    BY <2>1 DEF ReplaceTicker, Inv, Shape
  <2>3. ticking'[ticker'] = IF Enabled /\ Running THEN "on" ELSE "new"
    BY <2>1 DEF ReplaceTicker, Inv, Shape
  <2>4. \A k \in Tickers : ticking'[k] = "on" => k = ticker'
    <3> SUFFICES ASSUME NEW k \in Tickers, k # ticker' PROVE ticking'[k] # "on"
      OBVIOUS
    <3>1. CASE k = ticker
      <4>1. ticking'[k] = IF ticking[k] = "on" THEN "off" ELSE ticking[k]
        BY <2>1, <3>1 DEF ReplaceTicker, Inv, Shape, Tickers
      <4> QED
        BY <4>1
    <3>2. CASE k # ticker
      <4>1. ticking'[k] = ticking[k]
        BY <2>1, <3>2 DEF ReplaceTicker, Inv, Shape
      <4> QED
        BY <3>2, <4>1 DEF Inv, TickerInv
    <3> QED
      BY <3>1, <3>2
  <2>5. Shape' /\ Room' /\ NotAhead'
    <3>1. Shape'
      BY <1>1, <2>1, <2>2 DEF UpdateCopy, Inv, Shape, storeVars, runVars
    <3>2. Room'
      BY <1>1 DEF UpdateCopy, Inv, Room, runVars
    <3>3. NotAhead'
      BY <1>1 DEF UpdateCopy, Inv, NotAhead, Later, storeVars, runVars
    <3> QED
      BY <3>1, <3>2, <3>3
  <2>6. TickerInv'
    <3>1. /\ life' = life /\ watcher' = watcher /\ swaps' = swaps \cup {life}
      BY <2>1 DEF UpdateCopy, ReplaceTicker, runVars
    <3> QED
      BY <2>3, <2>4, <3>1 DEF Inv, TickerInv, Running
  <2> QED
    BY <2>5, <2>6 DEF Inv
<1>3. CASE ~call[Sched].update.NewTicker
  <2>1. UNCHANGED <<now, storeVars, life, tickVars, runVars, swaps>>
    BY <1>3 DEF UpdateCopy, tickVars
  <2>2. CallStep
    BY <1>1, <2>1 DEF CallStep, storeVars, Inv, Shape
  <2> QED
    BY <2>2, CallStepKeepsInv
<1> QED
  BY <1>2, <1>3

LEMMA StartTickersKeeps == Inv /\ StartTickers => Inv'
<1> SUFFICES ASSUME Inv, StartTickers PROVE Inv'
  OBVIOUS
<1>1. CASE copy.version > 0 /\ Enabled
  <2>1. /\ ticking' = [ticking EXCEPT ![ticker] = "on"]
        /\ watcher' = [pc |-> "select", of |-> ticker, at |-> 0]
    BY <1>1 DEF StartTickers
  <2>2. Shape' /\ ticking'[ticker] = "on"
    BY <2>1 DEF StartTickers, Inv, Shape, storeVars, Lives, Tickers
  <2>3. Room' /\ NotAhead'
    BY <2>1 DEF StartTickers, Inv, Shape, Room, NotAhead, Later, storeVars
  <2>4. \A k \in Tickers : ticking'[k] = "on" => k = ticker'
    BY <2>1 DEF StartTickers, Inv, Shape, TickerInv
  <2> QED
    BY <1>1, <2>2, <2>3, <2>4 DEF StartTickers, Inv, TickerInv
<1>2. CASE ~(copy.version > 0 /\ Enabled)
  <2>1. UNCHANGED <<now, storeVars, call, tickVars, runVars, swaps>> /\ life' = "starting"
    BY <1>2 DEF StartTickers, tickVars, runVars
  <2>2. Shape' /\ Room' /\ NotAhead'
    BY <2>1 DEF Inv, Shape, Room, NotAhead, Later, storeVars, tickVars, runVars, Lives
  <2>3. TickerInv'
    BY <2>1 DEF StartTickers, Inv, TickerInv, tickVars, runVars
  <2> QED
    BY <2>2, <2>3 DEF Inv
<1> QED
  BY <1>1, <1>2

LEMMA LifeKeeps ==
    Inv /\ (StartReturns \/ ShutdownReturns) => Inv'
<1> SUFFICES ASSUME Inv, StartReturns \/ ShutdownReturns PROVE Inv'
  OBVIOUS
<1>1. Shape' /\ Room' /\ NotAhead'
  BY DEF StartReturns, ShutdownReturns, LifeEnds, Inv, Shape, Room, NotAhead, Later,
         storeVars, tickVars, runVars, Lives
<1>2. TickerInv'
  BY DEF StartReturns, ShutdownReturns, LifeEnds, Inv, TickerInv, tickVars, runVars
<1> QED
  BY <1>1, <1>2 DEF Inv

LEMMA ShutdownKeeps == Inv /\ Shutdown => Inv'
<1> SUFFICES ASSUME Inv, Shutdown PROVE Inv'
  OBVIOUS
<1>1. Shape'
  BY DEF Shutdown, Inv, Shape, storeVars, runVars, Lives
<1>2. Room' /\ NotAhead'
  BY DEF Shutdown, Inv, Room, NotAhead, Later, storeVars, runVars
<1>3. \A k \in Tickers : ticking'[k] # "on"
  BY DEF Shutdown, Inv, Shape, TickerInv
<1>4. TickerInv'
  BY <1>1, <1>3 DEF Shutdown, Inv, Shape, TickerInv, runVars
<1> QED
  BY <1>1, <1>2, <1>4 DEF Inv

LEMMA AdvanceKeeps == Inv /\ Advance => Inv'
<1> SUFFICES ASSUME Inv, Advance PROVE Inv'
  OBVIOUS
<1>1. now' = now + 1 /\ now + 1 \in Times
  BY UpdateAssumption DEF Advance, Inv, Shape, Times
<1>2. Shape'
  <2>1. ch' \in [Tickers -> Seq(Times)]
    BY <1>1 DEF Advance, Inv, Shape
  <2> QED
    BY <1>1, <2>1 DEF Advance, Inv, Shape, storeVars, runVars
<1>3. Room' /\ TickerInv'
  BY DEF Advance, Inv, Room, TickerInv, runVars
<1>4. \A k \in Tickers : \A i \in 1 .. Len(ch'[k]) : ch'[k][i] <= now'
  <2> SUFFICES ASSUME NEW k \in Tickers, NEW i \in 1 .. Len(ch'[k])
               PROVE  ch'[k][i] <= now'
    OBVIOUS
  <2>1. ch[k] \in Seq(Times) /\ \A j \in 1 .. Len(ch[k]) : ch[k][j] <= now
    BY DEF Inv, Shape, NotAhead
  <2>2. ch'[k] = Append(ch[k], now + 1) \/ ch'[k] = ch[k]
    BY DEF Advance
  <2>3. \A j \in 1 .. Len(ch[k]) : ch[k][j] \in Nat
    <3>1. \A j \in 1 .. Len(ch[k]) : ch[k][j] \in Times
      BY <2>1
    <3> QED
      BY <3>1 DEF Times
  <2>4. CASE ch'[k] = Append(ch[k], now + 1)
    <3>1. CASE i = Len(ch[k]) + 1
      BY <1>1, <2>1, <2>4, <3>1
    <3>2. CASE i # Len(ch[k]) + 1
      <4>1. i \in 1 .. Len(ch[k]) /\ ch'[k][i] = ch[k][i]
        BY <2>1, <2>4, <3>2
      <4> QED
        BY <1>1, <2>1, <2>3, <4>1 DEF Inv, Shape
    <3> QED
      BY <3>1, <3>2
  <2> QED
    BY <1>1, <2>1, <2>2, <2>3, <2>4 DEF Inv, Shape
<1>5. \A c \in Callers : Later(call[c])'
  BY <1>1 DEF Advance, Inv, Shape, CallShape, NotAhead, Later, Times
<1>6. NotAhead'
  BY <1>1, <1>4, <1>5 DEF Advance, Inv, Shape, NotAhead, storeVars, runVars, Times
<1> QED
  BY <1>2, <1>3, <1>6 DEF Inv

LEMMA ReceiveKeeps == Inv /\ Receive => Inv'
<1> SUFFICES ASSUME Inv, Receive PROVE Inv'
  OBVIOUS
<1> DEFINE k == watcher.of
<1>1. k \in Tickers /\ ch[k] \in Seq(Times) /\ ch[k] # <<>>
  BY DEF Receive, Inv, Shape, Room
<1>2. Head(ch[k]) \in Times /\ Head(ch[k]) = ch[k][1] /\ 1 \in 1 .. Len(ch[k])
  BY <1>1
<1>3. /\ Tail(ch[k]) \in Seq(Times)
      /\ \A i \in 1 .. Len(Tail(ch[k])) :
            Tail(ch[k])[i] = ch[k][i + 1] /\ i + 1 \in 1 .. Len(ch[k])
  BY <1>1
<1>4. watcher' = [pc |-> "handle", of |-> k, at |-> Head(ch[k])]
  BY DEF Receive, Inv, Shape
<1>5. Shape'
  <2>1. k \in Nat /\ Head(ch[k]) \in Nat
    BY <1>1, <1>2 DEF Times, Tickers
  <2>2. ch' \in [Tickers -> Seq(Times)]
    BY <1>1, <1>3 DEF Receive, Inv, Shape
  <2> QED
    BY <1>4, <2>1, <2>2 DEF Receive, Inv, Shape, storeVars
<1>6. Room'
  BY <1>1, <1>2, <1>4 DEF Receive, Inv, Room
<1>7. \A m \in Tickers : \A i \in 1 .. Len(ch'[m]) : ch'[m][i] <= now
  <2> SUFFICES ASSUME NEW m \in Tickers, NEW i \in 1 .. Len(ch'[m])
               PROVE  ch'[m][i] <= now
    OBVIOUS
  <2>1. CASE m = k
    BY <1>1, <1>3, <2>1 DEF Receive, Inv, Shape, NotAhead
  <2>2. CASE m # k
    BY <2>2 DEF Receive, Inv, Shape, NotAhead
  <2> QED
    BY <2>1, <2>2
<1>8. NotAhead'
  BY <1>1, <1>2, <1>4, <1>7 DEF Receive, Inv, NotAhead, Later, storeVars
<1>9. TickerInv'
  BY <1>4 DEF Receive, Inv, TickerInv
<1> QED
  BY <1>5, <1>6, <1>8, <1>9 DEF Inv

LEMMA HandleKeeps == Inv /\ Handle => Inv'
<1> SUFFICES ASSUME Inv, Handle PROVE Inv'
  OBVIOUS
<1> DEFINE t == watcher.at
<1>1. t \in Times /\ t <= now
  BY DEF Handle, Inv, Room, NotAhead
<1>2. watcher' = [pc |-> "select", of |-> ticker, at |-> 0]
  BY DEF Handle
<1>3. occ' = [occ EXCEPT ![t] = "Pending"] \/ occ' = occ
  BY DEF Handle
<1>4. run' = [run EXCEPT ![t] = "queued"] \/ run' = run
  BY DEF Handle
<1>5. Shape'
  BY <1>1, <1>2, <1>3, <1>4 DEF Handle, Inv, Shape, tickVars, Tickers
<1>6. Room'
  BY <1>2 DEF Handle, Inv, Shape, Room, tickVars
<1>7. NotAhead'
  <2>1. \A u \in Times : u # t => occ'[u] = occ[u] /\ run'[u] = run[u]
    BY <1>3, <1>4 DEF Inv, Shape
  <2>2. occ'[t] # "Absent"
    BY <1>1 DEF Handle, Inv, Shape, NotAhead
  <2>3. now' = now /\ ch' = ch /\ call' = call
    BY DEF Handle, tickVars
  <2> QED
    BY <1>1, <1>2, <2>1, <2>2, <2>3 DEF Inv, NotAhead, Later
<1>8. TickerInv'
  BY <1>2 DEF Handle, Inv, TickerInv, tickVars
<1> QED
  BY <1>5, <1>6, <1>7, <1>8 DEF Inv

LEMMA WatcherExitsKeeps == Inv /\ WatcherExits => Inv'
<1> SUFFICES ASSUME Inv, WatcherExits PROVE Inv'
  OBVIOUS
<1>1. Shape' /\ Room' /\ NotAhead'
  BY DEF WatcherExits, Inv, Shape, Room, NotAhead, Later, storeVars, tickVars
<1>2. TickerInv'
  BY DEF WatcherExits, Inv, TickerInv, tickVars
<1> QED
  BY <1>1, <1>2 DEF Inv

LEMMA ExecStartKeeps == ASSUME Inv, NEW t \in Times, ExecStart(t) PROVE Inv'
<1>1. Shape'
  BY DEF ExecStart, Inv, Shape, tickVars
<1>2. Room' /\ TickerInv'
  BY DEF ExecStart, Inv, Room, TickerInv, tickVars
<1>3. NotAhead'
  BY DEF ExecStart, Inv, Shape, NotAhead, Later, tickVars
<1> QED
  BY <1>1, <1>2, <1>3 DEF Inv

-------------------------------------------------------------------------------
LEMMA NextInv == Inv /\ [Next]_vars => Inv'
<1> SUFFICES ASSUME Inv, [Next]_vars PROVE Inv'
  OBVIOUS
<1>1. CASE RegisterJob
  BY <1>1, RegisterJobKeeps, CallStepKeepsInv
<1>2. ASSUME NEW c \in Callers, ReadJob(c) \/ Fails(c) PROVE Inv'
  BY <1>2, ReadJobKeeps, FailsKeeps, CallStepKeepsInv
<1>3. ASSUME NEW c \in Callers, Caller(c) PROVE Inv'
  <2>1. CASE WriteJob(c)
    BY <2>1, WriteJobKeeps, CallStepKeepsInv
  <2>2. ASSUME NEW t \in Tasks, CreateTask(c, t) \/ GetTask(c, t) PROVE Inv'
    BY <2>2, CreateTaskKeeps, GetTaskKeeps, CallStepKeepsInv
  <2>3. CASE DeleteTask(c) \/ UpdateTask(c)
    BY <2>3, DeleteTaskKeeps, UpdateTaskKeeps, CallStepKeepsInv
  <2>4. CASE ApplySchedule(c) \/ ListOccurrences(c) \/ Applied(c)
    BY <2>4, ApplyScheduleKeeps, ListOccurrencesKeeps, AppliedKeeps, CallStepKeepsInv
  <2>5. CASE Registered
    BY <2>5, RegisteredKeeps, CallStepKeepsInv
  <2>6. CASE UpdateCopy
    BY <2>6, UpdateCopyKeeps
  <2>7. ASSUME NEW t \in Times, CancelOccurrence(c, t) PROVE Inv'
    BY <2>7, CancelOccurrenceKeeps
  <2> QED
    BY <1>3, <2>1, <2>2, <2>3, <2>4, <2>5, <2>6, <2>7 DEF Caller
<1>4. CASE StartTickers \/ StartReturns \/ Shutdown \/ ShutdownReturns
  BY <1>4, StartTickersKeeps, LifeKeeps, ShutdownKeeps
<1>5. CASE Advance
  BY <1>5, AdvanceKeeps
<1>6. CASE Watch
  BY <1>6, ReceiveKeeps, HandleKeeps, WatcherExitsKeeps DEF Watch
<1>7. ASSUME NEW t \in Times, ExecStart(t) PROVE Inv'
  BY <1>7, ExecStartKeeps
<1>8. CASE UNCHANGED vars
  BY <1>8, CallStepKeepsInv
     DEF vars, CallStep, storeVars, tickVars, runVars, Inv, Shape, Room, NotAhead
<1> QED
  BY <1>1, <1>2, <1>3, <1>4, <1>5, <1>6, <1>7, <1>8 DEF Next

LEMMA Invariance == Spec => []Inv
BY InitInv, NextInv, PTL DEF Spec

(* From however many callers, under whatever policy and however late its   *)
(* writes come, an update cancels nothing that was due when it read the    *)
(* clock.                                                                  *)
THEOREM UpdatesSpare == Spec => UpdatesSpareWhatIsDue
<1>1. ASSUME Inv, [Next]_vars, NEW t \in Times, occ'[t] = "Canceled", occ[t] # "Canceled"
      PROVE  \E c \in Callers : call[c].clock < t /\ t <= now
  <2>1. ASSUME NEW c \in Callers, NEW u \in Times, CancelOccurrence(c, u)
        PROVE  \E d \in Callers : call[d].clock < t /\ t <= now
    BY <1>1, <2>1, CanceledIsLater
  <2>3. CASE UNCHANGED occ
    BY <1>1, <2>3
  <2>4. CASE Handle
    BY <1>1, <2>4 DEF Handle, Inv, Shape
  <2>5. ASSUME NEW u \in Times, ExecStart(u)
        PROVE  \E d \in Callers : call[d].clock < t /\ t <= now
    BY <1>1, <2>5 DEF ExecStart, Inv, Shape
  <2>6. ASSUME NEW c \in Callers, Caller(c)
        PROVE  \E d \in Callers : call[d].clock < t /\ t <= now
    BY <1>1, <2>1, <2>3, <2>6
       DEF Caller, WriteJob, CreateTask, GetTask, DeleteTask, UpdateTask, ApplySchedule,
           ListOccurrences, Applied, Registered, UpdateCopy, storeVars
  <2>7. ASSUME NEW c \in Callers, ReadJob(c) \/ Fails(c)
        PROVE  \E d \in Callers : call[d].clock < t /\ t <= now
    BY <2>3, <2>7 DEF ReadJob, Fails, storeVars
  <2>8. CASE \/ RegisterJob \/ StartTickers \/ StartReturns \/ Shutdown
             \/ ShutdownReturns \/ Advance \/ Receive \/ WatcherExits
             \/ UNCHANGED vars
    BY <2>3, <2>8 DEF RegisterJob, StartTickers, StartReturns, Shutdown, ShutdownReturns,
         LifeEnds, Advance, Receive, WatcherExits, storeVars, vars
  <2> QED
    BY <1>1, <2>4, <2>5, <2>6, <2>7, <2>8 DEF Next, Watch
<1>2. Inv /\ [Next]_vars =>
         [\A t \in Times : occ'[t] = "Canceled" /\ occ[t] # "Canceled" =>
             \E c \in Callers : call[c].clock < t /\ t <= now]_vars
  BY <1>1
<1> QED
  BY <1>2, Invariance, PTL DEF Spec, UpdatesSpareWhatIsDue

(* At most the current ticker of a job runs; it does while the started node *)
(* runs, and does not after Shutdown, but for the two windows in Start and  *)
(* Shutdown in which running says something else.                           *)
THEOREM TickersAreStartedAndStopped == Spec => []TickerFollowsLife
<1>1. Inv => TickerFollowsLife
  BY DEF Inv, TickerInv, TickerFollowsLife
<1> QED
  BY <1>1, Invariance, PTL
===============================================================================
