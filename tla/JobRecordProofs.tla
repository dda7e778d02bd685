---------------------------- MODULE JobRecordProofs ----------------------------
(***************************************************************************)
(* The two descriptions of a job, its records and the copy in s.jobs, for  *)
(* any callers, tasks and updates: when the versions agree so do the       *)
(* tasks, and an accepted update brings the copy to the record's version.  *)
(* JobUpdateProofs!Inv is about tickers and occurrences; this module adds  *)
(* what has to be known of the calls under way.                            *)
(***************************************************************************)
EXTENDS JobUpdateProofs

(* Where a call is that has done its lists, and where it is once let in. *)
Done == {"list", "immediate", "cancel", "copy"}
Working == {"write", "tasks"} \cup Done

(* The versions a call works with, and what there is before the first.     *)
Versions ==
    /\ \A c \in Callers : call[c].pc \in Working => call[c].base \in 1 .. MaxVersion - 1
    /\ \A c \in Callers : call[c].pc = "register" =>
          c = Sched /\ call[c].base = 0 /\ copy.version = 0
    /\ \A c \in Callers : call[c].pc = "copy" => c = Sched
    /\ call[Sched].pc \in Working => copy.version = call[Sched].base
    /\ version = 0 =>
          /\ ~overlap /\ copy.version = 0
          /\ \A c \in Callers : call[c].pc = "idle"
          /\ \A t \in Tasks : recs[<<"job", t>>] = 0 /\ copy.revs[t] = 0

(* What is left of a call's lists, and the record GetTask found for it.    *)
Lists ==
    /\ \A c \in Callers : call[c].pc \in Working =>
          /\ call[c].left.AddedTasks \subseteq call[c].update.AddedTasks
          /\ call[c].left.RemovedTaskIDs \subseteq call[c].update.RemovedTaskIDs
          /\ call[c].left.UpdatedTasks \subseteq call[c].update.UpdatedTasks
          /\ call[c].left.AddedTasks # {} =>
                call[c].left.RemovedTaskIDs = call[c].update.RemovedTaskIDs
          /\ call[c].pc = "write" => call[c].left = call[c].update
          /\ call[c].pc \in Done => call[c].left.AddedTasks = {} /\ NextTasks(c) = {}
    /\ \A c \in Callers : call[c].found # <<>> =>
          /\ call[c].pc = "tasks"
          /\ call[c].found[2] \in NextTasks(c)
          /\ call[c].found[1] = "other" => call[c].found[2] \in Foreign
    /\ \A t \in Tasks : recs[<<"other", t>>] # 0 => t \in Foreign

(* The records of the tasks that only this job uses, compared with the     *)
(* copy: equal, or changed by as much of a call as is done.                *)
Own == Tasks \ Foreign

Agree == \A t \in Own : recs[<<"job", t>>] = copy.revs[t]

ProgressOf(t) ==
    LET u == call[Sched].update
        left == call[Sched].left
    IN  /\ recs[<<"job", t>>] =
              IF t \in u.RemovedTaskIDs \ left.RemovedTaskIDs THEN 0
              ELSE IF \/ t \in u.AddedTasks \ left.AddedTasks
                      \/ t \in u.UpdatedTasks \ left.UpdatedTasks
              THEN copy.version + 1 ELSE copy.revs[t]
        /\ t \in u.UpdatedTasks \ left.UpdatedTasks =>
              t \in u.AddedTasks \/ copy.revs[t] # 0

Progress == \A t \in Own : ProgressOf(t)

RegisterProgress ==
    /\ version = 1
    /\ call[Sched].left.AddedTasks \subseteq Initial
    /\ \A t \in Tasks : recs[<<"job", t>>] =
          IF t \in Initial \ call[Sched].left.AddedTasks THEN 1 ELSE 0

(* As long as no two calls were under way together. *)
OneByOne ==
    ~overlap =>
        /\ \A c, d \in Callers : call[c].pc # "idle" /\ call[d].pc # "idle" => c = d
        /\ copy.version <= version
        /\ \A c \in Callers : call[c].pc \in Working => copy.version <= call[c].base
        /\ \A c \in Callers : call[c].pc = "write" => call[c].base = version
        /\ \A c \in Callers : call[c].pc \in {"tasks"} \cup Done =>
              version = call[c].base + 1
        /\ call[Sched].pc \in {"idle", "write"} /\ copy.version = version => Agree
        /\ call[Sched].pc \in {"tasks"} \cup Done => Progress
        /\ call[Sched].pc = "register" => RegisterProgress

RecordInv == Versions /\ Lists /\ OneByOne

StoreTypes ==
    /\ version \in Revs
    /\ recs \in [Keys -> Revs]
    /\ faults \in 0 .. MaxFaults
    /\ copy \in [version : Revs, revs : [Tasks -> Revs]]
    /\ \A c \in Callers : call[c].base \in Revs
    /\ overlap \in BOOLEAN
    /\ swaps \subseteq Lives

(* The induction hypothesis, and what is to be shown of a step. *)
Known == Inv /\ StoreTypes /\ RecordInv
Kept == StoreTypes /\ RecordInv

-------------------------------------------------------------------------------
LEMMA SchedCalls == Sched \in Callers
BY DEF Callers

LEMMA JobKeys == \A t \in Tasks : <<"job", t>> \in Keys /\ <<"other", t>> \in Keys
BY DEF Keys

LEMMA KeyParts ==
    ASSUME NEW k \in Keys
    PROVE  k[1] \in {"job", "other"} /\ k[2] \in Tasks /\ k = <<k[1], k[2]>>
BY DEF Keys

(* The record found for a task that no other job uses is the job's own. *)
LEMMA OwnKey ==
    ASSUME NEW k \in Keys, k[1] = "other" => k[2] \in Foreign, NEW t \in Own
    PROVE  <<"job", t>> = k <=> t = k[2]
<1>1. k[1] \in {"job", "other"} /\ k = <<k[1], k[2]>>
  BY KeyParts
<1>2. ASSUME t = k[2] PROVE <<"job", t>> = k
  BY <1>1, <1>2 DEF Own
<1>3. ASSUME <<"job", t>> = k PROVE t = k[2]
  BY <1>3
<1> QED
  BY <1>2, <1>3

(* Revisions fit their type. *)
LEMMA RevTypes ==
    /\ 0 \in Revs /\ 1 \in Revs /\ Revs \subseteq Nat
    /\ \A b \in 1 .. MaxVersion - 1 : b \in Revs /\ b + 1 \in Revs /\ b + 1 # 0
BY UpdateAssumption DEF Revs

LEMMA InitRecord == Init => Kept
<1> SUFFICES ASSUME Init PROVE Kept
  OBVIOUS
<1>1. /\ \A c \in Callers : call[c] = Idle
      /\ Idle.pc = "idle" /\ Idle.base = 0 /\ Idle.found = <<>>
  BY DEF Init, Idle
<1>2. StoreTypes
  <2>1. recs \in [Keys -> Revs]
    BY RevTypes DEF Init
  <2>2. copy \in [version : Revs, revs : [Tasks -> Revs]]
    BY RevTypes DEF Init
  <2>3. faults \in 0 .. MaxFaults
    BY UpdateAssumption DEF Init
  <2> QED
    BY <1>1, <2>1, <2>2, <2>3, RevTypes DEF Init, StoreTypes
<1>3. \A t \in Tasks : recs[<<"job", t>>] = 0 /\ (recs[<<"other", t>>] # 0 => t \in Foreign)
  BY JobKeys DEF Init
<1>4. Versions
  BY <1>1, <1>3, SchedCalls DEF Init, Versions, Working, Done
<1>5. Lists
  BY <1>1, <1>3 DEF Init, Lists, Working, Done
<1>6. OneByOne
  <2>1. Agree
    BY <1>3 DEF Init, Agree, Own
  <2>2. copy.version = 0 /\ version = 0
    BY DEF Init
  <2> QED
    BY <1>1, <2>1, <2>2, SchedCalls DEF OneByOne, Working, Done
<1> QED
  BY <1>2, <1>4, <1>5, <1>6 DEF Kept, RecordInv

(* Steps that leave the records, the copy and the calls alone. *)
LEMMA RecordFrame ==
    ASSUME Known, UNCHANGED <<version, recs, faults, copy, call, overlap>>,
           swaps' \subseteq Lives
    PROVE  Kept'
<1>1. StoreTypes'
  BY DEF Known, StoreTypes
<1>2. Versions' /\ Lists'
  BY DEF Known, RecordInv, Versions, Lists, NextTasks
<1>3. OneByOne'
  BY DEF Known, RecordInv, OneByOne, Agree, Progress, ProgressOf, RegisterProgress
<1> QED
  BY <1>1, <1>2, <1>3 DEF Kept, RecordInv

LEMMA RegisterJobRecord == ASSUME Known, RegisterJob PROVE Kept'
<1> DEFINE new == [Idle EXCEPT !.pc = "register", !.left.AddedTasks = Initial]
<1>1. /\ new.pc = "register" /\ new.base = 0 /\ new.found = <<>>
      /\ new.left.AddedTasks = Initial
  BY DEF Idle, NoUpdate
<1>2. /\ version = 0 /\ version' = 1 /\ UNCHANGED <<recs, faults, copy, overlap, swaps>>
      /\ call' = [call EXCEPT ![Sched] = new]
  BY DEF RegisterJob, Continues
<1>3. /\ ~overlap /\ copy.version = 0
      /\ \A c \in Callers : call[c].pc = "idle"
      /\ \A t \in Tasks : recs[<<"job", t>>] = 0
  BY <1>2 DEF Known, RecordInv, Versions
<1>4. /\ call'[Sched] = new
      /\ \A c \in Callers : c # Sched => call'[c] = call[c]
  BY <1>2, SchedCalls DEF Known, Inv, Shape
<1> HIDE DEF new
<1>5. StoreTypes'
  BY <1>1, <1>2, <1>4, RevTypes DEF Known, StoreTypes
<1>6. Versions'
  BY <1>1, <1>2, <1>3, <1>4, SchedCalls DEF Versions, Working, Done
<1>7. Lists'
  BY <1>1, <1>2, <1>3, <1>4 DEF Known, RecordInv, Lists, NextTasks, Working, Done
<1>8. OneByOne'
  BY <1>1, <1>2, <1>3, <1>4 DEF OneByOne, RegisterProgress, Working, Done
<1> QED
  BY <1>5, <1>6, <1>7, <1>8 DEF Kept, RecordInv

LEMMA RegisteredRecord == ASSUME Known, Registered PROVE Kept'
<1>1. /\ call[Sched].pc = "register" /\ call[Sched].left.AddedTasks = {}
      /\ copy' = [version |-> 1, revs |-> [t \in Tasks |-> IF t \in Initial THEN 1 ELSE 0]]
      /\ UNCHANGED <<version, recs, faults, overlap, swaps>>
      /\ call' = [call EXCEPT ![Sched] = Idle]
  BY DEF Registered, Returns, storeVars
<1>2. /\ call'[Sched] = Idle
      /\ \A c \in Callers : c # Sched => call'[c] = call[c]
  BY <1>1, SchedCalls DEF Known, Inv, Shape
<1>3. Idle.pc = "idle" /\ Idle.base = 0 /\ Idle.found = <<>>
  BY DEF Idle
<1>4. version # 0
  BY <1>1, SchedCalls DEF Known, RecordInv, Versions
<1>5. StoreTypes'
  BY <1>1, <1>2, <1>3, RevTypes DEF Known, StoreTypes
<1>6. Versions'
  BY <1>1, <1>2, <1>3, <1>4, SchedCalls DEF Known, RecordInv, Versions, Working, Done
<1>7. Lists'
  BY <1>1, <1>2, <1>3 DEF Known, RecordInv, Lists, NextTasks, Working, Done
<1>8. OneByOne'
  <2> SUFFICES ASSUME ~overlap PROVE OneByOne'
    BY <1>1 DEF OneByOne
  <2>1. version = 1 /\ \A c \in Callers : c # Sched => call[c].pc = "idle"
    BY <1>1, SchedCalls DEF Known, RecordInv, OneByOne, RegisterProgress
  <2>2. Agree'
    BY <1>1 DEF Known, RecordInv, OneByOne, RegisterProgress, Agree, Own
  <2>3. \A c \in Callers : call'[c].pc = "idle"
    BY <1>2, <1>3, <2>1
  <2> QED
    BY <1>1, <2>1, <2>2, <2>3, SchedCalls DEF OneByOne, Working, Done
<1> QED
  BY <1>5, <1>6, <1>7, <1>8 DEF Kept, RecordInv

(* A call that ends early, whatever it has done so far. *)
LEMMA ReturnsRecord ==
    ASSUME Known, NEW c \in Callers, Returns(c), call[c].pc \notin {"idle", "copy"},
           UNCHANGED <<version, recs, copy, overlap, swaps>>, faults' \in 0 .. MaxFaults
    PROVE  Kept'
<1>1. /\ call'[c] = Idle
      /\ \A d \in Callers : d # c => call'[d] = call[d]
  BY DEF Returns, Known, Inv, Shape
<1>2. Idle.pc = "idle" /\ Idle.base = 0 /\ Idle.found = <<>>
  BY DEF Idle
<1>3. StoreTypes'
  BY <1>1, <1>2, RevTypes DEF Known, StoreTypes
<1>4. Versions'
  BY <1>1, <1>2, SchedCalls DEF Known, RecordInv, Versions, Working, Done
<1>5. Lists'
  BY <1>1, <1>2 DEF Known, RecordInv, Lists, NextTasks, Working, Done
<1>6. OneByOne'
  <2> SUFFICES ASSUME ~overlap PROVE OneByOne'
    BY DEF OneByOne
  <2>1. \A d \in Callers : call'[d].pc = "idle"
    BY <1>1, <1>2 DEF Known, RecordInv, OneByOne
  <2>2. copy.version = version => Agree
    <3>1. CASE c = Sched
      <4>1. call[Sched].pc \in {"register", "write", "tasks"} \cup Done
        BY <3>1 DEF Known, Inv, Shape, CallShape, PCs, Done
      <4>2. CASE call[Sched].pc = "register"
        BY <4>2, SchedCalls DEF Known, RecordInv, OneByOne, RegisterProgress, Versions
      <4>3. CASE call[Sched].pc = "write"
        BY <4>3 DEF Known, RecordInv, OneByOne
      <4>4. CASE call[Sched].pc \in {"tasks"} \cup Done
        BY <4>4, SchedCalls DEF Known, RecordInv, OneByOne, Versions, Working, Done
      <4> QED
        BY <4>1, <4>2, <4>3, <4>4
    <3>2. CASE c # Sched
      BY <3>2, SchedCalls DEF Known, RecordInv, OneByOne
    <3> QED
      BY <3>1, <3>2
  <2>3. Agree' = Agree
    BY DEF Agree
  <2>4. copy.version <= version
    BY DEF Known, RecordInv, OneByOne
  <2> QED
    BY <2>1, <2>2, <2>3, <2>4, SchedCalls DEF OneByOne, Working, Done
<1> QED
  BY <1>3, <1>4, <1>5, <1>6 DEF Kept, RecordInv

LEMMA ReadJobRecord == ASSUME Known, NEW c \in Callers, ReadJob(c) PROVE Kept'
<1>1. PICK u \in Updates :
          Continues(c, [Idle EXCEPT !.pc = "write", !.base = version,
                                    !.update = u, !.left = u])
  BY DEF ReadJob
<1>2. PICK new : new = [Idle EXCEPT !.pc = "write", !.base = version,
                                    !.update = u, !.left = u]
  OBVIOUS
<1>3. /\ new.pc = "write" /\ new.base = version /\ new.update = u /\ new.left = u
      /\ new.found = <<>>
  BY <1>2 DEF Idle
<1>4. /\ call'[c] = new
      /\ \A d \in Callers : d # c => call'[d] = call[d]
  BY <1>1, <1>2 DEF Continues, Known, Inv, Shape
<1>5. /\ UNCHANGED <<version, recs, faults, copy, swaps>>
      /\ version \in 1 .. MaxVersion - 1
      /\ c = Sched => copy.version = version
      /\ call[c].pc = "idle"
      /\ overlap' = (overlap \/ \E d \in Callers : call[d].pc # "idle")
  BY DEF ReadJob, storeVars, VersionMatches
<1>6. StoreTypes'
  <2>1. overlap' \in BOOLEAN
    BY <1>5 DEF Known, StoreTypes
  <2> QED
    BY <1>3, <1>4, <1>5, <2>1 DEF Known, StoreTypes
<1>7. Versions'
  BY <1>3, <1>4, <1>5, SchedCalls DEF Known, RecordInv, Versions, Working, Done
<1>8. Lists'
  BY <1>3, <1>4, <1>5 DEF Known, RecordInv, Lists, NextTasks, Working, Done
<1>9. OneByOne'
  <2> SUFFICES ASSUME ~overlap, \A d \in Callers : call[d].pc = "idle"
               PROVE  OneByOne'
    BY <1>5 DEF OneByOne
  <2>1. (copy.version = version => Agree) /\ copy.version <= version
    BY SchedCalls DEF Known, RecordInv, OneByOne
  <2>2. Agree' = Agree
    BY <1>5 DEF Agree
  <2>3. \A d \in Callers : d # c => call'[d].pc = "idle"
    BY <1>4
  <2> QED
    BY <1>3, <1>4, <1>5, <2>1, <2>2, <2>3, SchedCalls DEF OneByOne, Working, Done
<1> QED
  BY <1>6, <1>7, <1>8, <1>9 DEF Kept, RecordInv

LEMMA WriteJobRecord == ASSUME Known, NEW c \in Callers, WriteJob(c) PROVE Kept'
<1>1. PICK new : new = [call[c] EXCEPT !.pc = "tasks"]
  OBVIOUS
<1>2. /\ new.pc = "tasks" /\ new.base = call[c].base /\ new.update = call[c].update
      /\ new.left = call[c].left /\ new.found = call[c].found
  BY <1>1 DEF Known, Inv, Shape, CallShape
<1>3. /\ call'[c] = new
      /\ \A d \in Callers : d # c => call'[d] = call[d]
  BY <1>1 DEF WriteJob, Continues, Known, Inv, Shape
<1>4. /\ call[c].pc = "write" /\ version' = call[c].base + 1
      /\ UNCHANGED <<recs, faults, copy, overlap, swaps>>
  BY DEF WriteJob
<1>5. call[c].base \in 1 .. MaxVersion - 1 /\ version' # 0 /\ version' \in Revs
  BY <1>4, RevTypes DEF Known, RecordInv, Versions, Working, Done
<1>6. call[c].found = <<>> /\ call[c].left = call[c].update
  BY <1>4 DEF Known, RecordInv, Lists, Working, Done
<1>7. StoreTypes'
  BY <1>2, <1>3, <1>4, <1>5 DEF Known, StoreTypes
<1>8. Versions'
  BY <1>2, <1>3, <1>4, <1>5, SchedCalls DEF Known, RecordInv, Versions, Working, Done
<1>9. Lists'
  BY <1>2, <1>3, <1>4, <1>6 DEF Known, RecordInv, Lists, NextTasks, Working, Done
<1>10. OneByOne'
  <2> SUFFICES ASSUME ~overlap PROVE OneByOne'
    BY <1>4 DEF OneByOne
  <2>1. \A d \in Callers : d # c => call'[d].pc = "idle"
    BY <1>3, <1>4 DEF Known, RecordInv, OneByOne
  <2>2. copy.version <= call[c].base /\ call[c].base = version
    BY <1>4 DEF Known, RecordInv, OneByOne, Working, Done
  <2>3. copy'.version < version' /\ copy'.version \in Nat /\ version' \in Nat
    <3>1. copy.version \in Revs /\ call[c].base \in Revs
      BY DEF Known, StoreTypes
    <3>2. copy.version \in Nat /\ call[c].base \in Nat
      BY <3>1, RevTypes
    <3>3. copy' = copy /\ version' = call[c].base + 1
      BY <1>4
    <3> QED
      BY <2>2, <3>2, <3>3
  <2>4. c = Sched => Progress'
    <3> SUFFICES ASSUME c = Sched PROVE Progress'
      OBVIOUS
    <3>1. Agree
      BY <1>4, <2>2, SchedCalls DEF Known, RecordInv, OneByOne, Versions, Working, Done
    <3>2. call'[Sched].left = call'[Sched].update
      BY <1>2, <1>3, <1>6
    <3> QED
      BY <1>4, <3>1, <3>2 DEF Progress, ProgressOf, Agree
  <2> QED
    <3>1. \A d \in Callers : call'[d].pc # "idle" => d = c
      BY <2>1
    <3>2. copy'.version <= version' /\ copy'.version # version'
      BY <2>3
    <3>3. call'[c].pc = "tasks" /\ call'[c].base = call[c].base
      BY <1>2, <1>3
    <3>4. copy'.version <= call'[c].base /\ version' = call'[c].base + 1
      BY <1>4, <2>2, <3>3
    <3> QED
      BY <2>4, <3>1, <3>2, <3>3, <3>4, SchedCalls DEF OneByOne, Working, Done
<1> QED
  BY <1>7, <1>8, <1>9, <1>10 DEF Kept, RecordInv

(* A call that goes on with its lists: what there is to show of the records *)
(* is the progress of the scheduler's own call.                             *)
LEMMA ListStep ==
    ASSUME Known, NEW c \in Callers, NEW new, Continues(c, new),
           call[c].pc \in {"register", "tasks"} \cup Done,
           \/ new.pc = call[c].pc
           \/ call[c].pc # "register" /\ new.pc \in Done,
           new.pc = "copy" => c = Sched,
           new.base = call[c].base,
           UNCHANGED <<version, copy, overlap>>,
           ~overlap /\ c = Sched /\ new.pc # "register" => Progress',
           ~overlap /\ new.pc = "register" => RegisterProgress'
    PROVE  Versions' /\ OneByOne'
<1>1. /\ call'[c] = new
      /\ \A d \in Callers : d # c => call'[d] = call[d]
  BY DEF Continues, Known, Inv, Shape
<1>2. version # 0
  BY DEF Known, RecordInv, Versions, Done
<1>3. Versions'
  BY <1>1, <1>2, SchedCalls DEF Known, RecordInv, Versions, Working, Done
<1>4. OneByOne'
  <2> SUFFICES ASSUME ~overlap PROVE OneByOne'
    BY DEF OneByOne
  <2>1. \A d \in Callers : d # c => call'[d].pc = "idle"
    BY <1>1 DEF Known, RecordInv, OneByOne, Done
  <2>2. copy.version <= version /\ copy.version \in Nat /\ version \in Nat
    BY RevTypes DEF Known, RecordInv, OneByOne, StoreTypes
  <2>3. CASE call[c].pc = "register"
    <3>1. c = Sched /\ new.pc = "register"
      BY <2>3 DEF Known, RecordInv, Versions
    <3> QED
      BY <1>1, <2>1, <2>2, <3>1 DEF OneByOne, Working, Done
  <2>4. CASE call[c].pc \in {"tasks"} \cup Done
    <3>1. copy.version <= call[c].base /\ version = call[c].base + 1
      BY <2>4 DEF Known, RecordInv, OneByOne, Working, Done
    <3>2. call[c].base \in Nat
      BY RevTypes DEF Known, StoreTypes
    <3>3. copy.version # version
      BY <2>2, <3>1, <3>2
    <3>4. \A d \in Callers : call'[d].pc # "idle" => d = c
      BY <2>1
    <3>5. call'[c].pc \in {"tasks"} \cup Done /\ call'[c].base = call[c].base
      BY <1>1, <2>4
    <3>6. c = Sched => Progress'
      BY <1>1, <3>5 DEF Done
    <3> QED
      BY <2>2, <3>1, <3>3, <3>4, <3>5, <3>6, SchedCalls DEF OneByOne, Working, Done
  <2> QED
    BY <2>3, <2>4
<1> QED
  BY <1>3, <1>4

LEMMA CreateTaskRecord ==
    ASSUME Known, NEW c \in Callers, NEW t \in Tasks, CreateTask(c, t) PROVE Kept'
<1>1. call[c].pc \in {"register", "tasks"} /\ t \in call[c].left.AddedTasks
      /\ UNCHANGED <<version, faults, copy, overlap, swaps>>
  BY DEF CreateTask
<1>2. CASE recs[<<"job", t>>] # 0
  BY <1>1, <1>2, ReturnsRecord DEF CreateTask, Known, StoreTypes
<1>3. CASE recs[<<"job", t>>] = 0
  <2>1. PICK new : new = [call[c] EXCEPT !.left.AddedTasks = @ \ {t}]
    OBVIOUS
  <2>2. /\ new.pc = call[c].pc /\ new.base = call[c].base /\ new.update = call[c].update
        /\ new.left.AddedTasks = call[c].left.AddedTasks \ {t}
        /\ new.left.RemovedTaskIDs = call[c].left.RemovedTaskIDs
        /\ new.left.UpdatedTasks = call[c].left.UpdatedTasks
        /\ new.found = call[c].found
    <3>1. call[c] \in CallShape
      BY DEF Known, Inv, Shape
    <3>2. call[c].left \in JobUpdate
      BY <3>1 DEF CallShape
    <3>3. new.left = [call[c].left EXCEPT !.AddedTasks = @ \ {t}]
      BY <2>1, <3>1 DEF CallShape
    <3>4. /\ new.left.AddedTasks = call[c].left.AddedTasks \ {t}
          /\ new.left.RemovedTaskIDs = call[c].left.RemovedTaskIDs
          /\ new.left.UpdatedTasks = call[c].left.UpdatedTasks
      BY <3>2, <3>3 DEF JobUpdate
    <3>5. /\ new.pc = call[c].pc /\ new.base = call[c].base
          /\ new.update = call[c].update /\ new.found = call[c].found
      BY <2>1, <3>1 DEF CallShape
    <3> QED
      BY <3>4, <3>5
  <2>3. Continues(c, new) /\ recs' = [recs EXCEPT ![<<"job", t>>] = call[c].base + 1]
    BY <1>3, <2>1 DEF CreateTask
  <2>4. /\ call'[c] = new
        /\ \A d \in Callers : d # c => call'[d] = call[d]
    BY <2>3 DEF Continues, Known, Inv, Shape
  <2>5. call[c].base + 1 \in Revs
    BY <1>1, RevTypes DEF Known, RecordInv, Versions, Working, Done
  <2>6. call[c].found = <<>>
    BY <1>1 DEF Known, RecordInv, Lists, NextTasks
  <2>7. /\ recs'[<<"job", t>>] = call[c].base + 1
        /\ \A s \in Tasks : s # t => recs'[<<"job", s>>] = recs[<<"job", s>>]
        /\ \A s \in Tasks : recs'[<<"other", s>>] = recs[<<"other", s>>]
    BY <2>3, JobKeys DEF Known, StoreTypes
  <2>8. StoreTypes'
    <3>1. recs' \in [Keys -> Revs]
      BY <2>3, <2>5 DEF Known, StoreTypes
    <3> QED
      BY <1>1, <2>2, <2>4, <3>1 DEF Known, StoreTypes
  <2>9. Lists'
    BY <1>1, <2>2, <2>4, <2>6, <2>7 DEF Known, RecordInv, Lists, NextTasks, Working, Done
  <2>10. ASSUME ~overlap, c = Sched, new.pc # "register" PROVE Progress'
    <3>1. call[Sched].pc = "tasks" /\ Progress
      BY <1>1, <2>2, <2>10 DEF Known, RecordInv, OneByOne
    <3>2. /\ call[c].left.RemovedTaskIDs = call[c].update.RemovedTaskIDs
          /\ t \in call[c].update.AddedTasks
      BY <1>1, <2>10, <3>1 DEF Known, RecordInv, Lists, Working, Done
    <3>3. call[c].base = copy.version
      BY <2>10, <3>1 DEF Known, RecordInv, Versions, Working, Done
    <3>4. ASSUME NEW s \in Own PROVE ProgressOf(s)'
      <4>1. ProgressOf(s) /\ s \in Tasks
        BY <3>1 DEF Progress, Own
      <4>2. s = t \/ recs'[<<"job", s>>] = recs[<<"job", s>>]
        BY <2>7, <4>1
      <4>3. call'[Sched] = new
        BY <2>4, <2>10
      <4> QED
        BY <1>1, <2>2, <2>7, <2>10, <3>2, <3>3, <4>1, <4>2, <4>3 DEF ProgressOf
    <3> QED
      BY <3>4 DEF Progress
  <2>11. ASSUME ~overlap, new.pc = "register" PROVE RegisterProgress'
    <3>1. call[c].pc = "register" /\ c = Sched /\ call[c].base = 0
      BY <2>2, <2>11 DEF Known, RecordInv, Versions
    <3>2. RegisterProgress
      BY <2>11, <3>1 DEF Known, RecordInv, OneByOne
    <3> QED
      BY <1>1, <2>2, <2>4, <2>7, <3>1, <3>2 DEF RegisterProgress
  <2> QED
    BY <1>1, <2>2, <2>3, <2>8, <2>9, <2>10, <2>11, ListStep DEF Kept, RecordInv
<1> QED
  BY <1>2, <1>3

LEMMA GetTaskRecord ==
    ASSUME Known, NEW c \in Callers, NEW t \in Tasks, GetTask(c, t) PROVE Kept'
<1>1. /\ call[c].pc = "tasks" /\ call[c].found = <<>> /\ t \in NextTasks(c)
      /\ UNCHANGED <<version, recs, faults, copy, overlap, swaps>>
  BY DEF GetTask, storeVars
<1>2. CASE Returns(c)
  BY <1>1, <1>2, ReturnsRecord DEF Known, StoreTypes
<1>3. ASSUME NEW k \in Found(t), Continues(c, [call[c] EXCEPT !.found = k])
      PROVE  Kept'
  <2>1. PICK new : new = [call[c] EXCEPT !.found = k]
    OBVIOUS
  <2>2. /\ new.pc = call[c].pc /\ new.base = call[c].base /\ new.update = call[c].update
        /\ new.left = call[c].left /\ new.found = k
    BY <2>1 DEF Known, Inv, Shape, CallShape
  <2>3. /\ call'[c] = new
        /\ \A d \in Callers : d # c => call'[d] = call[d]
    BY <1>3, <2>1 DEF Continues, Known, Inv, Shape
  <2>4. k \in Keys /\ k[2] = t /\ recs[k] # 0
    BY DEF Found
  <2>5. k[1] = "other" => t \in Foreign
    BY <2>4, KeyParts DEF Known, RecordInv, Lists
  <2>6. StoreTypes'
    BY <1>1, <2>2, <2>3 DEF Known, StoreTypes
  <2>7. Lists'
    BY <1>1, <2>2, <2>3, <2>4, <2>5 DEF Known, RecordInv, Lists, NextTasks, Working, Done
  <2>8. ASSUME ~overlap, c = Sched PROVE Progress'
    BY <1>1, <2>2, <2>3, <2>8 DEF Known, RecordInv, OneByOne, Progress, ProgressOf
  <2>9. Versions' /\ OneByOne'
    BY <1>1, <1>3, <2>1, <2>2, <2>8, ListStep
  <2> QED
    BY <2>6, <2>7, <2>9 DEF Kept, RecordInv
<1> QED
  BY <1>2, <1>3 DEF GetTask

LEMMA DeleteTaskRecord == ASSUME Known, NEW c \in Callers, DeleteTask(c) PROVE Kept'
<1>1. PICK k : k = call[c].found
  OBVIOUS
<1>2. /\ call[c].pc = "tasks" /\ k # <<>> /\ k[2] \in call[c].left.RemovedTaskIDs
      /\ recs' = [recs EXCEPT ![k] = 0]
      /\ UNCHANGED <<version, faults, copy, overlap, swaps>>
  BY <1>1 DEF DeleteTask
<1>3. PICK new : new = [call[c] EXCEPT !.found = <<>>,
                                       !.left.RemovedTaskIDs = @ \ {k[2]}]
  OBVIOUS
<1>4. call[c] \in CallShape /\ k \in Keys
  BY <1>1, <1>2 DEF Known, Inv, Shape, CallShape
<1>5. /\ new.pc = call[c].pc /\ new.base = call[c].base /\ new.update = call[c].update
      /\ new.found = <<>>
  BY <1>3, <1>4 DEF CallShape
<1>6. /\ new.left.AddedTasks = call[c].left.AddedTasks
      /\ new.left.RemovedTaskIDs = call[c].left.RemovedTaskIDs \ {k[2]}
      /\ new.left.UpdatedTasks = call[c].left.UpdatedTasks
  <2>1. call[c].left \in JobUpdate
    BY <1>4 DEF CallShape
  <2>2. new.left = [call[c].left EXCEPT !.RemovedTaskIDs = @ \ {k[2]}]
    BY <1>3, <1>4 DEF CallShape
  <2> QED
    BY <2>1, <2>2 DEF JobUpdate
<1>7. Continues(c, new)
  BY <1>1, <1>3 DEF DeleteTask
<1>8. /\ call'[c] = new
      /\ \A d \in Callers : d # c => call'[d] = call[d]
  BY <1>7 DEF Continues, Known, Inv, Shape
<1>9. /\ k[1] \in {"job", "other"} /\ k[2] \in Tasks /\ k = <<k[1], k[2]>>
      /\ k[1] = "other" => k[2] \in Foreign
      /\ call[c].left.AddedTasks = {}
  BY <1>1, <1>2, <1>4, KeyParts DEF Known, RecordInv, Lists, NextTasks
<1>10. recs'[k] = 0 /\ \A m \in Keys : m # k => recs'[m] = recs[m]
  BY <1>2, <1>4 DEF Known, StoreTypes
<1>11. StoreTypes'
  <2>1. recs' \in [Keys -> Revs]
    BY <1>2, RevTypes DEF Known, StoreTypes
  <2> QED
    BY <1>2, <1>5, <1>8, <2>1 DEF Known, StoreTypes
<1>12. Lists'
  <2>1. \A t \in Tasks : recs'[<<"other", t>>] # 0 => t \in Foreign
    BY <1>10, JobKeys DEF Known, RecordInv, Lists
  <2> QED
    BY <1>2, <1>5, <1>6, <1>8, <1>9, <2>1
       DEF Known, RecordInv, Lists, NextTasks, Working, Done
<1>13. ASSUME ~overlap, c = Sched PROVE Progress'
  <2>1. Progress /\ k[2] \in call[c].update.RemovedTaskIDs
    BY <1>2, <1>13 DEF Known, RecordInv, OneByOne, Lists, Working, Done
  <2>2. \A t \in Own : recs'[<<"job", t>>] = IF t = k[2] THEN 0 ELSE recs[<<"job", t>>]
    BY <1>4, <1>9, <1>10, OwnKey, JobKeys DEF Own
  <2>3. /\ call'[Sched].update = call[Sched].update
        /\ call'[Sched].left.AddedTasks = call[Sched].left.AddedTasks
        /\ call'[Sched].left.UpdatedTasks = call[Sched].left.UpdatedTasks
        /\ \A t : t \in call'[Sched].update.RemovedTaskIDs \ call'[Sched].left.RemovedTaskIDs
              <=> t \in call[Sched].update.RemovedTaskIDs \ call[Sched].left.RemovedTaskIDs
                  \/ t = k[2]
    BY <1>5, <1>6, <1>8, <1>13, <2>1
  <2>4. ASSUME NEW t \in Own PROVE ProgressOf(t)'
    <3>1. ProgressOf(t)
      BY <2>1 DEF Progress
    <3> QED
      BY <1>2, <2>2, <2>3, <3>1 DEF ProgressOf
  <2> QED
    BY <2>4 DEF Progress
<1>14. Versions' /\ OneByOne'
  BY <1>2, <1>5, <1>7, <1>13, ListStep
<1> QED
  BY <1>11, <1>12, <1>14 DEF Kept, RecordInv

LEMMA UpdateTaskRecord == ASSUME Known, NEW c \in Callers, UpdateTask(c) PROVE Kept'
<1>1. PICK k : k = call[c].found
  OBVIOUS
<1>2. /\ call[c].pc = "tasks" /\ k # <<>> /\ call[c].left.RemovedTaskIDs = {}
      /\ UNCHANGED <<version, faults, copy, overlap, swaps>>
  BY <1>1 DEF UpdateTask
<1>3. CASE recs[k] = 0
  BY <1>1, <1>2, <1>3, ReturnsRecord DEF UpdateTask, Known, StoreTypes
<1>4. CASE recs[k] # 0
  <2>1. PICK new : new = [call[c] EXCEPT !.found = <<>>,
                                         !.left.UpdatedTasks = @ \ {k[2]}]
    OBVIOUS
  <2>2. call[c] \in CallShape /\ k \in Keys
    BY <1>1, <1>2 DEF Known, Inv, Shape, CallShape
  <2>3. /\ new.pc = call[c].pc /\ new.base = call[c].base /\ new.update = call[c].update
        /\ new.found = <<>>
    BY <2>1, <2>2 DEF CallShape
  <2>4. /\ new.left.AddedTasks = call[c].left.AddedTasks
        /\ new.left.RemovedTaskIDs = call[c].left.RemovedTaskIDs
        /\ new.left.UpdatedTasks = call[c].left.UpdatedTasks \ {k[2]}
    <3>1. call[c].left \in JobUpdate
      BY <2>2 DEF CallShape
    <3>2. new.left = [call[c].left EXCEPT !.UpdatedTasks = @ \ {k[2]}]
      BY <2>1, <2>2 DEF CallShape
    <3> QED
      BY <3>1, <3>2 DEF JobUpdate
  <2>5. Continues(c, new) /\ recs' = [recs EXCEPT ![k] = call[c].base + 1]
    BY <1>1, <1>4, <2>1 DEF UpdateTask
  <2>6. /\ call'[c] = new
        /\ \A d \in Callers : d # c => call'[d] = call[d]
    BY <2>5 DEF Continues, Known, Inv, Shape
  <2>7. /\ k[1] \in {"job", "other"} /\ k[2] \in Tasks /\ k = <<k[1], k[2]>>
        /\ k[1] = "other" => k[2] \in Foreign
        /\ call[c].left.AddedTasks = {} /\ k[2] \in call[c].left.UpdatedTasks
    BY <1>1, <1>2, <2>2, KeyParts DEF Known, RecordInv, Lists, NextTasks
  <2>8. recs'[k] = call[c].base + 1 /\ \A m \in Keys : m # k => recs'[m] = recs[m]
    BY <2>2, <2>5 DEF Known, StoreTypes
  <2>9. StoreTypes'
    <3>1. call[c].base + 1 \in Revs
      BY <1>2, RevTypes DEF Known, RecordInv, Versions, Working, Done
    <3>2. recs' \in [Keys -> Revs]
      BY <2>5, <3>1 DEF Known, StoreTypes
    <3> QED
      BY <1>2, <2>3, <2>6, <3>2 DEF Known, StoreTypes
  <2>10. Lists'
    <3>1. \A t \in Tasks : recs'[<<"other", t>>] # 0 => t \in Foreign
      <4> SUFFICES ASSUME NEW t \in Tasks, recs'[<<"other", t>>] # 0 PROVE t \in Foreign
        OBVIOUS
      <4>1. CASE <<"other", t>> = k
        <5>1. k[1] = "other" /\ k[2] = t
          BY <4>1
        <5> QED
          BY <2>7, <5>1
      <4>2. CASE <<"other", t>> # k
        BY <2>8, <4>2, JobKeys DEF Known, RecordInv, Lists
      <4> QED
        BY <4>1, <4>2
    <3> QED
      BY <1>2, <2>3, <2>4, <2>6, <2>7, <3>1
         DEF Known, RecordInv, Lists, NextTasks, Working, Done
  <2>11. ASSUME ~overlap, c = Sched PROVE Progress'
    <3>1. /\ Progress /\ call[c].base = copy.version
          /\ k[2] \in call[c].update.UpdatedTasks
      BY <1>2, <2>7, <2>11 DEF Known, RecordInv, OneByOne, Lists, Versions, Working, Done
    <3>2. \A t \in Own : recs'[<<"job", t>>] =
              IF t = k[2] THEN copy.version + 1 ELSE recs[<<"job", t>>]
      BY <2>2, <2>7, <2>8, <3>1, OwnKey, JobKeys DEF Own
    <3>3. \A t \in Own : t = k[2] => recs[<<"job", t>>] # 0
      BY <1>4, <2>2, <2>7, OwnKey
    <3>4. /\ call'[Sched].update = call[Sched].update
          /\ call'[Sched].left.AddedTasks = call[Sched].left.AddedTasks
          /\ call'[Sched].left.RemovedTaskIDs = call[Sched].left.RemovedTaskIDs
          /\ \A t : t \in call'[Sched].update.UpdatedTasks \ call'[Sched].left.UpdatedTasks
                <=> t \in call[Sched].update.UpdatedTasks \ call[Sched].left.UpdatedTasks
                    \/ t = k[2]
      BY <2>3, <2>4, <2>6, <2>7, <2>11, <3>1
    <3> QED
      <4> DEFINE u == call[Sched].update
                 left == call[Sched].left
                 Gone(t) == t \in u.RemovedTaskIDs \ left.RemovedTaskIDs
                 New(t) == t \in u.AddedTasks \ left.AddedTasks
                 Upd(t) == t \in u.UpdatedTasks \ left.UpdatedTasks
      <4>1. \A t \in Own :
              /\ recs[<<"job", t>>] = IF Gone(t) THEN 0
                    ELSE IF New(t) \/ Upd(t) THEN copy.version + 1 ELSE copy.revs[t]
              /\ Upd(t) => t \in u.AddedTasks \/ copy.revs[t] # 0
        BY <3>1 DEF Progress, ProgressOf
      <4>2. \A t \in Own : t = k[2] => ~Gone(t) /\ (t \in u.AddedTasks \/ copy.revs[t] # 0)
        BY <3>3, <4>1
      <4>3. copy' = copy
        BY <1>2
      <4>4. \A t \in Own :
              /\ recs'[<<"job", t>>] = IF Gone(t) THEN 0
                    ELSE IF New(t) \/ Upd(t) \/ t = k[2]
                    THEN copy.version + 1 ELSE copy.revs[t]
              /\ Upd(t) \/ t = k[2] => t \in u.AddedTasks \/ copy.revs[t] # 0
        <5> HIDE DEF Gone, New, Upd
        <5> QED
          BY <3>2, <4>1, <4>2
      <4> QED
        BY <3>4, <4>3, <4>4 DEF Progress, ProgressOf
  <2>12. Versions' /\ OneByOne'
    BY <1>2, <2>3, <2>5, <2>11, ListStep
  <2> QED
    BY <2>9, <2>10, <2>12 DEF Kept, RecordInv
<1> QED
  BY <1>3, <1>4

(* A call whose lists are done goes on, with what it has. *)
LEMMA ScheduleStep ==
    ASSUME Known, NEW c \in Callers, NEW new, Continues(c, new),
           call[c].pc \in {"tasks", "list", "immediate", "cancel"},
           call[c].left.AddedTasks = {}, NextTasks(c) = {},
           new.pc \in Done, new.pc = "copy" => c = Sched,
           new.base = call[c].base, new.update = call[c].update,
           new.left = call[c].left, new.found = call[c].found,
           UNCHANGED <<version, recs, faults, copy, overlap, swaps>>
    PROVE  Kept'
<1>1. /\ call'[c] = new
      /\ \A d \in Callers : d # c => call'[d] = call[d]
  BY DEF Continues, Known, Inv, Shape
<1>2. StoreTypes'
  BY <1>1 DEF Known, StoreTypes
<1>3. call[c].found = <<>>
  BY DEF Known, RecordInv, Lists
<1>4. Lists'
  BY <1>1, <1>3 DEF Known, RecordInv, Lists, NextTasks, Working, Done
<1>5. ASSUME ~overlap, c = Sched PROVE Progress'
  <2>1. Progress
    BY <1>5 DEF Known, RecordInv, OneByOne, Done
  <2> QED
    BY <1>1, <1>5, <2>1 DEF Progress, ProgressOf
<1>6. Versions' /\ OneByOne'
  BY <1>5, ListStep DEF Done
<1> QED
  BY <1>2, <1>4, <1>6 DEF Kept, RecordInv

(* The lists of a call that is at its schedule are done. *)
LEMMA ListsAreDone ==
    ASSUME Known, NEW c \in Callers, call[c].pc \in Done
    PROVE  call[c].left.AddedTasks = {} /\ NextTasks(c) = {}
BY DEF Known, RecordInv, Lists, Working

LEMMA ApplyScheduleRecord ==
    ASSUME Known, NEW c \in Callers,
           \/ ApplySchedule(c) \/ ListOccurrences(c)
           \/ \E t \in Times : CancelOccurrence(c, t)
    PROVE  Kept'
<1>1. /\ call[c].pc \in {"tasks", "list", "immediate", "cancel"}
      /\ UNCHANGED <<version, recs, faults, copy, overlap, swaps>>
  BY DEF ApplySchedule, ListOccurrences, CancelOccurrence, ListsDone, storeVars
<1>2. call[c].left.AddedTasks = {} /\ NextTasks(c) = {}
  <2>1. CASE ApplySchedule(c)
    BY <2>1 DEF ApplySchedule, ListsDone
  <2>2. CASE ~ApplySchedule(c)
    BY <1>1, <2>2, ListsAreDone DEF ListOccurrences, CancelOccurrence, Done
  <2> QED
    BY <2>1, <2>2
<1>3. ASSUME NEW new, Continues(c, new), new.pc \in Done \ {"copy"},
             new.base = call[c].base, new.update = call[c].update,
             new.left = call[c].left, new.found = call[c].found
      PROVE  Kept'
  BY <1>1, <1>2, <1>3, ScheduleStep
<1>4. call[c] \in CallShape
  BY DEF Known, Inv, Shape
<1>5. CASE ApplySchedule(c)
  <2>1. PICK new : new = [call[c] EXCEPT !.pc = "list", !.clock = now]
    OBVIOUS
  <2>2. /\ new.pc = "list" /\ new.base = call[c].base /\ new.update = call[c].update
        /\ new.left = call[c].left /\ new.found = call[c].found
    BY <1>4, <2>1 DEF CallShape
  <2>3. Continues(c, new)
    BY <1>5, <2>1 DEF ApplySchedule
  <2> QED
    BY <1>3, <2>2, <2>3 DEF Done
<1>6. CASE ListOccurrences(c)
  <2>1. ASSUME NEW d, Continues(c, [call[c] EXCEPT !.pc = "cancel", !.doomed = d])
        PROVE  Kept'
    <3>1. PICK new : new = [call[c] EXCEPT !.pc = "cancel", !.doomed = d]
      OBVIOUS
    <3>2. /\ new.pc = "cancel" /\ new.base = call[c].base /\ new.update = call[c].update
          /\ new.left = call[c].left /\ new.found = call[c].found
      BY <1>4, <3>1 DEF CallShape
    <3> QED
      BY <1>3, <2>1, <3>1, <3>2 DEF Done
  <2>2. ASSUME Continues(c, [call[c] EXCEPT !.pc = "immediate"])
        PROVE  Kept'
    <3>1. PICK new : new = [call[c] EXCEPT !.pc = "immediate"]
      OBVIOUS
    <3>2. /\ new.pc = "immediate" /\ new.base = call[c].base
          /\ new.update = call[c].update
          /\ new.left = call[c].left /\ new.found = call[c].found
      BY <1>4, <3>1 DEF CallShape
    <3> QED
      BY <1>3, <2>2, <3>1, <3>2 DEF Done
  <2> QED
    BY <1>6, <2>1, <2>2 DEF ListOccurrences
<1>7. ASSUME NEW t \in Times, CancelOccurrence(c, t) PROVE Kept'
  <2>1. PICK new : new = [call[c] EXCEPT !.doomed = @ \ {t}]
    OBVIOUS
  <2>2. /\ new.pc = "cancel" /\ new.base = call[c].base /\ new.update = call[c].update
        /\ new.left = call[c].left /\ new.found = call[c].found
    BY <1>4, <1>7, <2>1 DEF CallShape, CancelOccurrence
  <2>3. Continues(c, new)
    BY <1>7, <2>1 DEF CancelOccurrence
  <2> QED
    BY <1>3, <2>2, <2>3 DEF Done
<1> QED
  BY <1>5, <1>6, <1>7

LEMMA AppliedRecord == ASSUME Known, NEW c \in Callers, Applied(c) PROVE Kept'
<1>1. /\ call[c].pc \in {"tasks", "cancel"}
      /\ UNCHANGED <<version, recs, faults, copy, overlap, swaps>>
  BY DEF Applied, ListsDone, storeVars
<1>2. call[c].left.AddedTasks = {} /\ NextTasks(c) = {}
  BY <1>1, ListsAreDone DEF Applied, ListsDone, Done
<1>3. CASE c # Sched
  BY <1>1, <1>3, ReturnsRecord DEF Applied, Known, StoreTypes
<1>4. CASE c = Sched
  <2>1. PICK new : new = [call[c] EXCEPT !.pc = "copy", !.clock = 0]
    OBVIOUS
  <2>2. /\ new.pc = "copy" /\ new.base = call[c].base /\ new.update = call[c].update
        /\ new.left = call[c].left /\ new.found = call[c].found
    BY <2>1 DEF Known, Inv, Shape, CallShape
  <2>3. Continues(c, new)
    BY <1>4, <2>1 DEF Applied
  <2> QED
    BY <1>1, <1>2, <1>4, <2>2, <2>3, ScheduleStep DEF Done
<1> QED
  BY <1>3, <1>4

LEMMA UpdateCopyRecord == ASSUME Known, UpdateCopy PROVE Kept'
<1>1. PICK u : u = call[Sched].update
  OBVIOUS
<1>2. /\ call[Sched].pc = "copy"
      /\ copy' = [version |-> copy.version + 1, revs |-> UpdatedCopy(u)]
      /\ UNCHANGED <<version, recs, faults, overlap>>
      /\ call' = [call EXCEPT ![Sched] = Idle]
  BY <1>1 DEF UpdateCopy, Returns, storeVars
<1>3. swaps' \subseteq Lives
  BY DEF UpdateCopy, ReplaceTicker, Known, StoreTypes, Inv, Shape
<1>4. /\ call'[Sched] = Idle
      /\ \A c \in Callers : c # Sched => call'[c] = call[c]
  BY <1>2, SchedCalls DEF Known, Inv, Shape
<1>5. Idle.pc = "idle" /\ Idle.base = 0 /\ Idle.found = <<>>
  BY DEF Idle
<1>6. version # 0 /\ copy.version = call[Sched].base /\ copy.version \in 1 .. MaxVersion - 1
  BY <1>2, SchedCalls DEF Known, RecordInv, Versions, Working, Done
<1>7. copy.version + 1 \in Revs
  BY <1>6, RevTypes
<1>8. StoreTypes'
  <2>1. UpdatedCopy(u) \in [Tasks -> Revs]
    BY <1>7, RevTypes DEF UpdatedCopy, Known, StoreTypes
  <2>2. copy' \in [version : Revs, revs : [Tasks -> Revs]]
    BY <1>2, <1>7, <2>1
  <2>3. \A c \in Callers : call'[c].base \in Revs
    BY <1>4, <1>5, RevTypes DEF Known, StoreTypes
  <2> QED
    BY <1>2, <1>3, <2>2, <2>3 DEF Known, StoreTypes
<1>9. Versions'
  BY <1>2, <1>4, <1>5, <1>6, SchedCalls DEF Known, RecordInv, Versions, Working, Done
<1>10. Lists'
  BY <1>2, <1>4, <1>5 DEF Known, RecordInv, Lists, NextTasks, Working, Done
<1>11. OneByOne'
  <2> SUFFICES ASSUME ~overlap PROVE OneByOne'
    BY <1>2 DEF OneByOne
  <2>1. \A c \in Callers : call'[c].pc = "idle"
    BY <1>2, <1>4, <1>5, SchedCalls DEF Known, RecordInv, OneByOne
  <2>2. copy'.version = version'
    BY <1>2, <1>6, SchedCalls DEF Known, RecordInv, OneByOne, Done
  <2>3. Agree'
    <3>1. Progress
      BY <1>2 DEF Known, RecordInv, OneByOne, Done
    <3>2. /\ call[Sched].left.AddedTasks = {} /\ call[Sched].left.RemovedTaskIDs = {}
          /\ call[Sched].left.UpdatedTasks = {}
      BY <1>2, SchedCalls DEF Known, RecordInv, Lists, NextTasks, Working, Done
    <3>3. \A t \in Own : recs[<<"job", t>>] = UpdatedCopy(u)[t]
      BY <1>1, <3>1, <3>2 DEF Progress, ProgressOf, UpdatedCopy, Own
    <3> QED
      BY <1>2, <3>3 DEF Agree
  <2>4. version' \in Nat
    BY <1>2, RevTypes DEF Known, StoreTypes
  <2> QED
    BY <2>1, <2>2, <2>3, <2>4, SchedCalls DEF OneByOne, Working, Done
<1> QED
  BY <1>8, <1>9, <1>10, <1>11 DEF Kept, RecordInv

LEMMA FailsRecord == ASSUME Known, NEW c \in Callers, Fails(c) PROVE Kept'
<1>1. call[c].pc \notin {"idle", "copy"} /\ Returns(c)
      /\ UNCHANGED <<version, recs, copy, overlap, swaps>>
  BY DEF Fails, AtStore
<1>2. faults' \in 0 .. MaxFaults
  BY UpdateAssumption DEF Fails, Known, StoreTypes
<1> QED
  BY <1>1, <1>2, ReturnsRecord

LEMMA NextRecord == ASSUME Known, [Next]_vars PROVE Kept'
<1>1. CASE RegisterJob
  BY <1>1, RegisterJobRecord
<1>2. ASSUME NEW c \in Callers, ReadJob(c) \/ Fails(c) PROVE Kept'
  BY <1>2, ReadJobRecord, FailsRecord
<1>3. ASSUME NEW c \in Callers, Caller(c) PROVE Kept'
  <2>1. ASSUME NEW t \in Tasks, CreateTask(c, t) \/ GetTask(c, t) PROVE Kept'
    BY <2>1, CreateTaskRecord, GetTaskRecord
  <2>2. CASE WriteJob(c) \/ DeleteTask(c) \/ UpdateTask(c)
    BY <2>2, WriteJobRecord, DeleteTaskRecord, UpdateTaskRecord
  <2>4. CASE \/ ApplySchedule(c) \/ ListOccurrences(c) \/ Applied(c)
             \/ \E t \in Times : CancelOccurrence(c, t)
    BY <2>4, ApplyScheduleRecord, AppliedRecord
  <2>3. CASE Registered \/ UpdateCopy
    BY <2>3, RegisteredRecord, UpdateCopyRecord
  <2> QED
    BY <1>3, <2>1, <2>2, <2>3, <2>4 DEF Caller
<1>4. CASE StartTickers \/ StartReturns \/ Shutdown \/ ShutdownReturns
  BY <1>4, RecordFrame DEF StartTickers, StartReturns, Shutdown, ShutdownReturns,
     LifeEnds, storeVars, Known, StoreTypes
<1>5. CASE Advance \/ Watch
  BY <1>5, RecordFrame DEF Advance, Watch, Receive, Handle, WatcherExits, storeVars,
     Known, StoreTypes
<1>6. ASSUME NEW t \in Times, ExecStart(t) PROVE Kept'
  BY <1>6, RecordFrame DEF ExecStart, Known, StoreTypes
<1>7. CASE UNCHANGED vars
  BY <1>7, RecordFrame DEF vars, storeVars, Known, StoreTypes
<1> QED
  BY <1>1, <1>2, <1>3, <1>4, <1>5, <1>6, <1>7 DEF Next

LEMMA RecordInvariance == Spec => []Known
<1>1. Init => Known
  BY InitInv, InitRecord DEF Known, Kept
<1>2. Known /\ [Next]_vars => Known'
  BY NextInv, NextRecord DEF Known, Kept
<1> QED
  BY <1>1, <1>2, PTL DEF Spec

(* When no calls overlapped and none is under way, and the scheduler's copy *)
(* has the version of the record, the copy and the records describe the     *)
(* same tasks, whichever updates failed half way before.                    *)
THEOREM VersionsVouchForTasks == Spec => []StoreDescribesMemory
<1>1. Known => StoreDescribesMemory
  BY SchedCalls DEF Known, RecordInv, OneByOne, Agree, Own, StoreDescribesMemory, AllIdle
<1> QED
  BY <1>1, RecordInvariance, PTL

(* UpdateJob changes the copy only to the version of the record, unless     *)
(* calls overlapped: no update through ApplyUpdate is passed over.          *)
THEOREM AcceptedUpdatesAreCurrent == Spec => AcceptedIsCurrent
<1> DEFINE A == copy'.version # copy.version => overlap \/ copy'.version = version'
<1>1. ASSUME Known, [Next]_vars PROVE A
  <2> SUFFICES ASSUME copy'.version # copy.version, ~overlap
               PROVE  copy'.version = version'
    OBVIOUS
  <2>1. Registered \/ UpdateCopy
    BY <1>1 DEF Next, Caller, vars, RegisterJob, ReadJob, Fails, WriteJob, CreateTask,
       GetTask, DeleteTask, UpdateTask, ApplySchedule, ListOccurrences, CancelOccurrence,
       Applied, StartTickers, StartReturns,
       Shutdown, ShutdownReturns, LifeEnds, Advance, Watch, Receive, Handle,
       WatcherExits, ExecStart
  <2>2. CASE Registered
    BY <1>1, <2>2 DEF Registered, storeVars, Known, RecordInv, OneByOne, RegisterProgress
  <2>3. CASE UpdateCopy
    BY <1>1, <2>3, SchedCalls
       DEF UpdateCopy, storeVars, Known, RecordInv, OneByOne, Versions, Working, Done
  <2> QED
    BY <2>1, <2>2, <2>3
<1>2. Known /\ [Next]_vars => [A]_vars
  BY <1>1
<1> HIDE DEF A
<1>3. Spec => [][A]_vars
  BY <1>2, RecordInvariance, PTL DEF Spec
<1> QED
  BY <1>3 DEF A, AcceptedIsCurrent

-------------------------------------------------------------------------------
(* The rest of the type: the clock, and channels that hold each instant     *)
(* once, in order, because a tick is sent only when the clock moves.        *)
Sorted(q) == \A i, j \in 1 .. Len(q) : i < j => q[i] < q[j]

ClockTypes ==
    /\ now \in 0 .. MaxTime
    /\ \A k \in Tickers : Sorted(ch[k])
    /\ watcher \in [pc : {"off", "select", "handle"}, of : 0 .. MaxTickers,
                    at : 0 .. MaxTime]

LEMMA BoundTypes ==
    /\ MaxTime \in Nat /\ MaxTickers \in Nat
    /\ Times \subseteq 0 .. MaxTime /\ Tickers \subseteq 0 .. MaxTickers
    /\ 0 \in 0 .. MaxTime /\ 0 \in 0 .. MaxTickers
BY UpdateAssumption DEF Times, Tickers

LEMMA NextClock ==
    ASSUME Inv, ClockTypes, [Next]_vars
    PROVE  ClockTypes'
<1>1. CASE UNCHANGED <<now, ch, watcher>>
  BY <1>1 DEF ClockTypes, Sorted
<1>2. CASE StartTickers
  <2>1. watcher' \in [pc : {"off", "select", "handle"}, of : 0 .. MaxTickers,
                      at : 0 .. MaxTime]
    BY <1>2, BoundTypes DEF StartTickers, Inv, Shape, ClockTypes
  <2> QED
    BY <1>2, <2>1 DEF StartTickers, ClockTypes, Sorted
<1>3. CASE Advance
  <2>1. now' \in 0 .. MaxTime /\ now' = now + 1 /\ watcher' = watcher
    BY <1>3, BoundTypes DEF Advance, ClockTypes, runVars
  <2>2. ASSUME NEW k \in Tickers PROVE Sorted(ch'[k])
    <3>1. /\ ch[k] \in Seq(Times) /\ Sorted(ch[k])
          /\ \A j \in 1 .. Len(ch[k]) : ch[k][j] <= now /\ ch[k][j] \in Nat
      <4>1. ch[k] \in Seq(Times) /\ Sorted(ch[k])
        BY DEF Inv, Shape, ClockTypes
      <4>2. \A j \in 1 .. Len(ch[k]) : ch[k][j] \in Times
        BY <4>1
      <4> QED
        BY <4>1, <4>2 DEF Inv, NotAhead, Times
    <3>2. CASE ch'[k] = Append(ch[k], now + 1)
      <4>1. PICK q : q = ch'[k]
        OBVIOUS
      <4>2. /\ Len(ch[k]) \in Nat /\ Len(q) = Len(ch[k]) + 1
            /\ q[Len(ch[k]) + 1] = now + 1
            /\ \A j \in 1 .. Len(ch[k]) : q[j] = ch[k][j]
        BY <3>1, <3>2, <4>1
      <4>3. \A i, j \in 1 .. Len(q) : i < j => q[i] < q[j]
        <5> SUFFICES ASSUME NEW i \in 1 .. Len(q), NEW j \in 1 .. Len(q), i < j
                     PROVE  q[i] < q[j]
          OBVIOUS
        <5>1. i \in 1 .. Len(ch[k]) /\ q[i] = ch[k][i]
          BY <4>2
        <5>2. CASE j = Len(ch[k]) + 1
          <6>1. ch[k][i] <= now /\ ch[k][i] \in Nat /\ now \in Nat
            BY <3>1, <5>1 DEF Inv, Shape
          <6> QED
            BY <4>2, <5>1, <5>2, <6>1
        <5>3. CASE j # Len(ch[k]) + 1
          <6>1. j \in 1 .. Len(ch[k]) /\ q[j] = ch[k][j]
            BY <4>2, <5>3
          <6> QED
            BY <3>1, <5>1, <6>1 DEF Sorted
        <5> QED
          BY <5>2, <5>3
      <4> QED
        BY <4>1, <4>3 DEF Sorted
    <3>3. CASE ch'[k] = ch[k]
      BY <3>1, <3>3
    <3> QED
      BY <1>3, <3>2, <3>3 DEF Advance
  <2> QED
    BY <2>1, <2>2 DEF ClockTypes, Sorted
<1>4. CASE Receive
  <2>1. PICK k \in Tickers : k = watcher.of
    BY <1>4 DEF Receive, Inv, Room
  <2>2. PICK q : q = ch[k]
    OBVIOUS
  <2>3. q \in Seq(Times) /\ q # <<>> /\ Sorted(q)
    BY <1>4, <2>1, <2>2 DEF Receive, Inv, Shape, ClockTypes
  <2>4. Head(q) \in Times /\ ch' = [ch EXCEPT ![k] = Tail(q)]
    BY <1>4, <2>1, <2>2, <2>3 DEF Receive
  <2>5. watcher' \in [pc : {"off", "select", "handle"}, of : 0 .. MaxTickers,
                      at : 0 .. MaxTime]
    BY <1>4, <2>1, <2>2, <2>4, BoundTypes DEF Receive, ClockTypes
  <2>6. Sorted(Tail(q))
    <3>1. /\ Len(q) \in Nat /\ Len(Tail(q)) = Len(q) - 1
          /\ \A i \in 1 .. Len(Tail(q)) : Tail(q)[i] = q[i + 1]
      BY <2>3
    <3> SUFFICES ASSUME NEW i \in 1 .. Len(Tail(q)), NEW j \in 1 .. Len(Tail(q)), i < j
                 PROVE  Tail(q)[i] < Tail(q)[j]
      BY DEF Sorted
    <3>2. i + 1 \in 1 .. Len(q) /\ j + 1 \in 1 .. Len(q) /\ i + 1 < j + 1
      BY <3>1
    <3>3. q[i + 1] < q[j + 1]
      BY <2>3, <3>2 DEF Sorted
    <3> QED
      BY <3>1, <3>3
  <2>7. ASSUME NEW m \in Tickers PROVE Sorted(ch'[m])
    <3>1. ch'[m] = IF m = k THEN Tail(q) ELSE ch[m]
      BY <2>4 DEF Inv, Shape
    <3> QED
      BY <2>6, <3>1 DEF ClockTypes
  <2> QED
    BY <1>4, <2>5, <2>7 DEF Receive, ClockTypes, Sorted
<1>5. CASE Handle \/ WatcherExits
  <2>1. watcher' \in [pc : {"off", "select", "handle"}, of : 0 .. MaxTickers,
                      at : 0 .. MaxTime]
    BY <1>5, BoundTypes DEF Handle, WatcherExits, Inv, Shape
  <2> QED
    BY <1>5, <2>1 DEF Handle, WatcherExits, tickVars, ClockTypes, Sorted
<1>6. UNCHANGED <<now, ch, watcher>> \/ StartTickers \/ Advance \/ Watch
  BY ZenonT(60) DEF Next, Caller, vars, RegisterJob, ReadJob, Fails, WriteJob, CreateTask,
     GetTask, DeleteTask, UpdateTask, ApplySchedule, ListOccurrences, CancelOccurrence,
     Applied, Registered, UpdateCopy,
     StartReturns, Shutdown, ShutdownReturns, LifeEnds, ExecStart, tickVars, runVars
<1> QED
  BY <1>1, <1>2, <1>3, <1>4, <1>5, <1>6 DEF Watch

(* The types of the records, the copy, the calls and the tickers; the       *)
(* versions stay within their range, and no channel has a tick twice.       *)
THEOREM TypeCorrect == Spec => []TypeOK
<1>1. Init => ClockTypes
  BY BoundTypes DEF Init, ClockTypes, Sorted
<1>2. Known /\ ClockTypes /\ [Next]_vars => ClockTypes'
  BY NextClock DEF Known
<1>3. Known /\ ClockTypes => TypeOK
  <2> SUFFICES ASSUME Known, ClockTypes PROVE TypeOK
    OBVIOUS
  <2>1. call \in [Callers -> Call]
    <3>1. \A c \in Callers : call[c] \in CallShape /\ call[c].base \in Revs
      BY DEF Known, Inv, Shape, StoreTypes
    <3>2. \A c \in Callers : call[c] \in Call
      <4>1. \A c \in Callers : call[c].clock \in 0 .. MaxTime
        <5>1. \A c \in Callers : call[c].clock <= now /\ call[c].clock \in Nat
          BY <3>1 DEF CallShape, Known, Inv, NotAhead, Later
        <5> QED
          BY <5>1, BoundTypes DEF ClockTypes
      <4> QED
        BY <3>1, <4>1 DEF CallShape, Call
    <3> QED
      BY <3>2 DEF Known, Inv, Shape
  <2> QED
    BY <2>1 DEF Known, Inv, Shape, StoreTypes, ClockTypes, Sorted, TypeOK
<1> QED
  BY <1>1, <1>2, <1>3, RecordInvariance, PTL DEF Spec
=================================================================================
