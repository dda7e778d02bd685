------------------------------ MODULE TickerProofs ------------------------------
(***************************************************************************)
(* The safety of the tickers, for any schedule, window, channel capacity   *)
(* and number of loops: ticks are in order, on time and in the window,     *)
(* every counted run is accounted for, and the loop ticks what             *)
(* GetOccurrencesBetween lists.                                            *)
(***************************************************************************)
EXTENDS Ticker, FiniteSetTheorems, WellFoundedInduction, TLAPS

(* What the listing of this kind of ticker may hold: an instant of the     *)
(* schedule, within the repetitions.                                       *)
Scheduled(t) ==
    \/ kind = "cron" /\ t > 0 /\ \E k \in 0 .. t : t = Due(k)
    \/ /\ kind = "iso"
       /\ \E k \in 0 .. t : t = Due(k) /\ (Repetitions > 0 => k < Repetitions)
    \/ kind = "once" /\ t = First

(* What a loop waits for and what it is about to send is an instant of the *)
(* schedule; what was sent or dropped is one that has come.                *)
TickInv ==
    /\ \A l \in Loops : loop[l].pc \in {"armed", "send"} =>
          InWindow(loop[l].next) /\ Scheduled(loop[l].next)
    /\ \A l \in Loops : loop[l].pc = "send" =>
          loop[l].next <= now /\ (kind # "cron" => runCount > 0)
    /\ \A t \in Sent \cup dropped : t <= now /\ InWindow(t) /\ Scheduled(t)

(* A loop leaves only for good reason, and "running" has a loop behind it. *)
LeaveInv ==
    /\ running => \E l \in Loops : loop[l].pc # "new"
    /\ \A l \in Loops : loop[l].pc \in {"exit", "off"} =>
          stopped \/ Finished \/ Expired

(* No second loop was ever spawned. *)
Alone == \A l, m \in Loops : loop[l].pc # "new" /\ loop[m].pc # "new" => l = m

Sending == \E l \in Loops : loop[l].pc = "send"

(* Then the ticks are in order, and the count of an iso8601 or once ticker *)
(* says which instants are through: all but the one that is being sent.    *)
CountInv ==
    Alone =>
        /\ \A i, j \in 1 .. Len(sent) : i < j => sent[i] < sent[j]
        /\ Sent \cap dropped = {}
        /\ \A l \in Loops : loop[l].pc \in {"armed", "send"} =>
              \A t \in Sent \cup dropped : t < loop[l].next
        /\ kind # "cron" =>
              /\ Sending => Sent \cup dropped = {Due(k) : k \in 0 .. runCount - 2}
              /\ ~Sending => Sent \cup dropped = {Due(k) : k \in 0 .. runCount - 1}
              /\ \A l \in Loops : loop[l].pc = "armed" =>
                    loop[l].next = Due(runCount) /\ ~Finished
              /\ \A l \in Loops : loop[l].pc = "send" =>
                    runCount > 0 /\ loop[l].next = Due(runCount - 1)
        /\ kind = "once" => runCount <= 1
        /\ kind = "iso" /\ Repetitions > 0 => runCount <= Repetitions

Inv == TypeOK /\ TickInv /\ LeaveInv /\ CountInv

-------------------------------------------------------------------------------
(* The schedule. *)

LEMMA DueGrows ==
    ASSUME NEW j \in Nat, NEW k \in Nat
    PROVE  /\ Due(k) \in Nat /\ k <= Due(k)
           /\ j < k => Due(j) < Due(k)
<1>1. First \in Nat /\ Interval \in Nat /\ Interval >= 1
  BY ScheduleAssumption
<1>2. k * Interval \in Nat /\ k * Interval >= k
  BY <1>1
<1>3. ASSUME j < k PROVE j * Interval < k * Interval
  <2>1. PICK d \in Nat : d >= 1 /\ k = j + d
    <3>1. k - j \in Nat /\ k - j >= 1 /\ k = j + (k - j)
      BY <1>3
    <3> QED
      BY <3>1
  <2>2. k * Interval = j * Interval + d * Interval
    BY <1>1, <2>1
  <2>3. d * Interval >= 1 /\ d * Interval \in Nat /\ j * Interval \in Nat
    BY <1>1, <2>1
  <2> QED
    BY <2>2, <2>3
<1>4. j * Interval \in Nat
  BY <1>1
<1> QED
  BY <1>1, <1>2, <1>3, <1>4 DEF Due

LEMMA LeastNatural ==
    ASSUME NEW S, S \subseteq Nat, S # {}
    PROVE  \E x \in S : \A y \in S : x <= y
<1> DEFINE R == OpToRel(<, Nat)
<1>1. IsWellFoundedOn(R, Nat)
  BY NatLessThanWellFounded, Zenon
<1> HIDE DEF R
<1>2. PICK x \in S : \A y \in S : ~(<<y, x>> \in R)
  BY <1>1, WFMin
<1>3. \A y \in S : ~(y < x)
  BY <1>2 DEF R, OpToRel
<1> QED
  BY <1>3

(* schedule.Next goes forward, to an instant of the schedule. *)
LEMMA NextAfterIsNext ==
    ASSUME NEW t \in Nat
    PROVE  /\ NextAfter(t) \in Nat /\ NextAfter(t) > t
           /\ \E k \in 0 .. NextAfter(t) : NextAfter(t) = Due(k)
<1> DEFINE S == {k \in 0 .. t + 1 : Due(k) > t}
<1>1. t + 1 \in S
  <2>1. Due(t + 1) \in Nat /\ t + 1 <= Due(t + 1)
    BY DueGrows
  <2> QED
    BY <2>1
<1>2. PICK x \in S : \A y \in S : x <= y
  <2>1. S \subseteq Nat /\ S # {}
    BY <1>1
  <2> HIDE DEF S
  <2> QED
    BY <2>1, LeastNatural
<1>3. \E k \in 0 .. t + 1 : Due(k) > t /\ \A j \in 0 .. t + 1 : Due(j) > t => k <= j
  BY <1>2
<1>4. PICK k \in 0 .. t + 1 : NextAfter(t) = Due(k) /\ Due(k) > t
  BY <1>3 DEF NextAfter
<1>5. Due(k) \in Nat /\ k <= Due(k)
  BY DueGrows
<1> QED
  BY <1>4, <1>5

(* What the loop waits for. *)
LEMMA UpcomingIsScheduled ==
    ASSUME TypeOK
    PROVE  /\ Upcoming \in Nat
           /\ ~Finished => Scheduled(Upcoming)
           /\ kind = "cron" => Upcoming > now
           /\ kind = "iso" => Upcoming = Due(runCount)
           /\ kind = "once" => Upcoming = Due(0)
<1>1. kind \in {"cron", "iso", "once"} /\ now \in Nat /\ runCount \in Nat
  BY KindsAssumption DEF TypeOK
<1>2. Due(0) = First /\ First \in Nat
  BY ScheduleAssumption DEF Due
<1>3. CASE kind = "cron"
  <2>1. Upcoming = NextAfter(now)
    BY <1>3 DEF Upcoming
  <2> QED
    BY <1>1, <1>3, <2>1, NextAfterIsNext DEF Scheduled
<1>4. CASE kind = "iso"
  <2>1. Upcoming = Due(runCount)
    BY <1>4 DEF Upcoming
  <2>2. Due(runCount) \in Nat /\ runCount \in 0 .. Due(runCount)
    BY <1>1, DueGrows
  <2>3. ~Finished => (Repetitions > 0 => runCount < Repetitions)
    BY <1>1, <1>4, ScheduleAssumption DEF Finished
  <2> QED
    BY <1>4, <2>1, <2>2, <2>3 DEF Scheduled
<1>5. CASE kind = "once"
  BY <1>2, <1>5 DEF Upcoming, Scheduled
<1> QED
  BY <1>1, <1>3, <1>4, <1>5

-------------------------------------------------------------------------------
LEMMA QueueParts ==
    ASSUME NEW S, NEW q \in Seq(S), q # <<>>
    PROVE  /\ Head(q) \in S /\ Tail(q) \in Seq(S)
           /\ Len(Tail(q)) <= Len(q) /\ Len(q) \in Nat /\ Len(Tail(q)) \in Nat
OBVIOUS

LEMMA QueueGrows ==
    ASSUME NEW S, NEW q \in Seq(S), NEW x \in S
    PROVE  /\ Append(q, x) \in Seq(S) /\ Len(Append(q, x)) = Len(q) + 1
           /\ <<x>> \in Seq(S) /\ Len(<<x>>) = 1
OBVIOUS

LEMMA LoopMoves ==
    ASSUME TypeOK, NEW l \in Loops, NEW pc \in LoopStates, NEW next \in Nat,
           NEW value \in BOOLEAN, Moves(l, pc, next, value)
    PROVE  /\ loop' \in [Loops -> Loop]
           /\ loop'[l] = [pc |-> pc, next |-> next, value |-> value]
           /\ \A m \in Loops : m # l => loop'[m] = loop[m]
BY DEF Moves, TypeOK, Loop

LEMMA LoopGoes ==
    ASSUME TypeOK, NEW l \in Loops, NEW pc \in LoopStates, GoesTo(l, pc)
    PROVE  /\ loop'[l].pc = pc
           /\ \A m \in Loops : m # l => loop'[m] = loop[m]
BY DEF GoesTo, Moves, TypeOK, Loop

(* Where Top leads, and what the other steps of a loop do to it. *)
LEMMA TopMoves ==
    ASSUME TypeOK, NEW l \in Loops, Top(l)
    PROVE  \E pc \in {"exit", "paused", "armed", "window"} :
              /\ Moves(l, pc, IF pc = "armed" THEN Upcoming ELSE 0, FALSE)
              /\ pc = "armed" => ~Finished /\ InWindow(Upcoming)
              /\ pc = "exit" => Finished \/ Expired
BY DEF Top

LEMMA ReceivesMoves ==
    ASSUME TypeOK, NEW l \in Loops, Receives(l)
    PROVE  \E value \in BOOLEAN : Moves(l, "apply", 0, value)
<1> DEFINE v == IF kind # "cron" /\ loop[l].pc = "paused"
                THEN ~Head(pauseCh) ELSE Head(pauseCh)
<1>1. Head(pauseCh) \in BOOLEAN
  <2>1. pauseCh \in Seq(BOOLEAN) /\ pauseCh # <<>>
    BY DEF Receives, TypeOK
  <2> QED
    BY <2>1, QueueParts
<1>2. v \in BOOLEAN
  BY <1>1
<1>3. Moves(l, "apply", 0, v)
  BY DEF Receives
<1> QED
  BY <1>2, <1>3

LEMMA NextType == TypeOK /\ [Next]_vars => TypeOK'
<1> SUFFICES ASSUME TypeOK, [Next]_vars PROVE TypeOK'
  OBVIOUS
<1> USE DEF flags, history
<1>1. CASE UNCHANGED vars
  BY <1>1 DEF vars, TypeOK
<1>2. CASE Advance
  BY <1>2, ScheduleAssumption DEF Advance, TypeOK
<1>3. CASE Stop
  <2>1. {running, paused, stopped, accepted, panicked} \subseteq BOOLEAN
    BY DEF TypeOK
  <2>2. /\ running' = FALSE /\ stopped' = TRUE /\ panicked' = stopped
        /\ UNCHANGED <<paused, accepted>>
    BY <1>3 DEF Stop
  <2>3. {running', paused', stopped', accepted', panicked'} \subseteq BOOLEAN
    BY <2>1, <2>2, Zenon
  <2>4. calls' \in 0 .. MaxCalls
    BY <1>3, ScheduleAssumption DEF Stop, TypeOK
  <2> QED
    BY <1>3, <2>3, <2>4 DEF Stop, TypeOK
<1>4. CASE Pause \/ Resume
  <2>1. PICK v \in BOOLEAN : SetPaused(v)
    BY <1>4 DEF Pause, Resume
  <2>2. pauseCh' \in Seq(BOOLEAN) /\ Len(pauseCh') <= 1
    <3>1. pauseCh \in Seq(BOOLEAN) /\ Len(pauseCh) <= 1
      BY DEF TypeOK
    <3>2. <<v>> \in Seq(BOOLEAN) /\ Len(<<v>>) <= 1
      BY <3>1, QueueGrows
    <3>3. pauseCh' = <<v>> \/ pauseCh' = pauseCh
      BY <2>1 DEF SetPaused
    <3> QED
      BY <3>1, <3>2, <3>3, Zenon
  <2>3. {running', paused', stopped', accepted', panicked'} \subseteq BOOLEAN
    BY <2>1 DEF SetPaused, TypeOK
  <2>4. calls' \in 0 .. MaxCalls
    BY <2>1, ScheduleAssumption DEF SetPaused, TypeOK
  <2> QED
    BY <2>1, <2>2, <2>3, <2>4 DEF SetPaused, TypeOK
<1>5. CASE Consume
  <2>1. Tail(ch) \in Seq(Nat) /\ Len(Tail(ch)) <= ChanCap
    BY <1>5, ScheduleAssumption DEF Consume, TypeOK
  <2> QED
    BY <1>5, <2>1 DEF Consume, TypeOK
<1>6. ASSUME NEW l \in Loops, Start(l) PROVE TypeOK'
  <2>1. loop' \in [Loops -> Loop]
    BY <1>6, LoopMoves DEF Start, GoesTo, LoopStates
  <2> QED
    BY <1>6, <2>1 DEF Start, TypeOK
<1>7. ASSUME NEW l \in Loops, Run(l) PROVE TypeOK'
  <2>1. CASE Top(l)
    <3>1. PICK pc \in {"exit", "paused", "armed", "window"} :
              Moves(l, pc, IF pc = "armed" THEN Upcoming ELSE 0, FALSE)
      BY <2>1, TopMoves
    <3>2. loop' \in [Loops -> Loop]
      BY <3>1, LoopMoves, UpcomingIsScheduled DEF LoopStates
    <3> QED
      BY <2>1, <3>2 DEF Top, TypeOK
  <2>2. CASE Wakes(l) \/ Stops(l)
    <3>1. loop' \in [Loops -> Loop]
      BY <2>2, LoopMoves DEF Wakes, Stops, GoesTo, LoopStates
    <3> QED
      BY <2>2, <3>1 DEF Wakes, Stops, TypeOK
  <2>3. CASE Receives(l)
    <3>1. Head(pauseCh) \in BOOLEAN /\ Tail(pauseCh) \in Seq(BOOLEAN) /\ Len(Tail(pauseCh)) <= 1
      <4>1. pauseCh \in Seq(BOOLEAN) /\ pauseCh # <<>> /\ Len(pauseCh) <= 1
        BY <2>3 DEF Receives, TypeOK
      <4>2. /\ Head(pauseCh) \in BOOLEAN /\ Tail(pauseCh) \in Seq(BOOLEAN)
            /\ Len(Tail(pauseCh)) <= Len(pauseCh) /\ Len(pauseCh) \in Nat
            /\ Len(Tail(pauseCh)) \in Nat
        BY <4>1, QueueParts
      <4>3. Len(Tail(pauseCh)) <= 1
        BY <4>1, <4>2
      <4> QED
        BY <4>2, <4>3
    <3>2. \E value \in BOOLEAN : Moves(l, "apply", 0, value)
      BY <2>3, ReceivesMoves
    <3>3. loop' \in [Loops -> Loop]
      BY <3>2, LoopMoves DEF LoopStates
    <3> QED
      BY <2>3, <3>1, <3>3 DEF Receives, TypeOK
  <2>4. CASE Applies(l)
    <3>1. loop' \in [Loops -> Loop]
      BY <2>4, LoopMoves DEF Applies, GoesTo, LoopStates
    <3>2. paused' \in BOOLEAN
      BY <2>4 DEF Applies, TypeOK, Loop
    <3> QED
      BY <2>4, <3>1, <3>2 DEF Applies, TypeOK
  <2>5. CASE Fires(l)
    <3>1. loop' \in [Loops -> Loop]
      <4>1. loop[l].next \in Nat
        BY DEF TypeOK, Loop
      <4> QED
        BY <2>5, <4>1, LoopMoves DEF Fires, LoopStates
    <3> QED
      BY <2>5, <3>1 DEF Fires, TypeOK
  <2>6. CASE Sends(l)
    <3>1. loop' \in [Loops -> Loop]
      BY <2>6, LoopMoves DEF Sends, GoesTo, LoopStates
    <3>2. loop[l].next \in Nat
      BY DEF TypeOK, Loop
    <3>3. ch' \in Seq(Nat) /\ Len(ch') <= ChanCap
      <4>1. ch \in Seq(Nat) /\ Len(ch) <= ChanCap /\ ChanCap \in Nat
        BY ScheduleAssumption DEF TypeOK
      <4>2. (ch' = Append(ch, loop[l].next) /\ Len(ch) < ChanCap) \/ ch' = ch
        BY <2>6 DEF Sends
      <4> QED
        <5>1. Append(ch, loop[l].next) \in Seq(Nat) /\ Len(Append(ch, loop[l].next)) = Len(ch) + 1
          BY <3>2, <4>1, QueueGrows
        <5> QED
          BY <4>1, <4>2, <5>1
    <3>4. sent' \in Seq(Nat) /\ dropped' \subseteq Nat
      <4>1. sent \in Seq(Nat) /\ dropped \subseteq Nat
        BY DEF TypeOK
      <4>2. /\ sent' = Append(sent, loop[l].next) \/ sent' = sent
            /\ dropped' = dropped \cup {loop[l].next} \/ dropped' = dropped
        BY <2>6 DEF Sends
      <4>3. Append(sent, loop[l].next) \in Seq(Nat)
        BY <3>2, <4>1, QueueGrows
      <4>4. dropped' \subseteq Nat
        BY <3>2, <4>1, <4>2
      <4> QED
        BY <4>1, <4>2, <4>3, <4>4
    <3> QED
      BY <2>6, <3>1, <3>3, <3>4 DEF Sends, TypeOK
  <2>7. CASE Exits(l)
    <3>1. loop' \in [Loops -> Loop]
      BY <2>7, LoopMoves DEF Exits, GoesTo, LoopStates
    <3>2. running' \in BOOLEAN
      BY <2>7 DEF Exits
    <3> QED
      BY <2>7, <3>1, <3>2 DEF Exits, TypeOK
  <2> QED
    BY <1>7, <2>1, <2>2, <2>3, <2>4, <2>5, <2>6, <2>7 DEF Run
<1> QED
  BY <1>1, <1>2, <1>3, <1>4, <1>5, <1>6, <1>7 DEF Next

(* The history of the instants that were sent. *)
LEMMA SentGrows ==
    ASSUME sent \in Seq(Nat), NEW x \in Nat, sent' = Append(sent, x)
    PROVE  /\ Sent' = Sent \cup {x}
           /\ (\A t \in Sent : t < x) /\ (\A i, j \in 1 .. Len(sent) : i < j => sent[i] < sent[j])
                 => \A i, j \in 1 .. Len(sent') : i < j => sent'[i] < sent'[j]
<1>1. /\ Len(sent) \in Nat /\ Len(sent') = Len(sent) + 1 /\ sent'[Len(sent) + 1] = x
      /\ \A i \in 1 .. Len(sent) : sent'[i] = sent[i]
  OBVIOUS
<1>2. ASSUME NEW t \in Sent' PROVE t \in Sent \cup {x}
  <2>1. PICK i \in 1 .. Len(sent') : t = sent'[i]
    BY <1>2 DEF Sent
  <2>2. CASE i = Len(sent) + 1
    BY <1>1, <2>1, <2>2
  <2>3. CASE i # Len(sent) + 1
    <3>1. i \in 1 .. Len(sent) /\ t = sent[i]
      BY <1>1, <2>1, <2>3
    <3> QED
      BY <3>1 DEF Sent
  <2> QED
    BY <2>2, <2>3
<1>3. ASSUME NEW t \in Sent \cup {x} PROVE t \in Sent'
  <2>1. CASE t = x
    <3>1. Len(sent) + 1 \in 1 .. Len(sent')
      BY <1>1
    <3> QED
      BY <1>1, <2>1, <3>1 DEF Sent
  <2>2. CASE t \in Sent
    <3>1. PICK i \in 1 .. Len(sent) : t = sent[i]
      BY <2>2 DEF Sent
    <3>2. i \in 1 .. Len(sent') /\ t = sent'[i]
      BY <1>1, <3>1
    <3> QED
      BY <3>2 DEF Sent
  <2> QED
    BY <1>3, <2>1, <2>2
<1>4. ASSUME \A t \in Sent : t < x, \A i, j \in 1 .. Len(sent) : i < j => sent[i] < sent[j],
             NEW i \in 1 .. Len(sent'), NEW j \in 1 .. Len(sent'), i < j
      PROVE  sent'[i] < sent'[j]
  <2>1. i \in 1 .. Len(sent) /\ sent'[i] = sent[i] /\ sent[i] \in Sent
    <3>1. i \in 1 .. Len(sent)
      BY <1>1, <1>4
    <3> QED
      BY <1>1, <3>1 DEF Sent
  <2>2. CASE j = Len(sent) + 1
    BY <1>1, <1>4, <2>1, <2>2
  <2>3. CASE j # Len(sent) + 1
    <3>1. j \in 1 .. Len(sent) /\ sent'[j] = sent[j]
      BY <1>1, <2>3
    <3> QED
      BY <1>4, <2>1, <3>1
  <2> QED
    BY <2>2, <2>3
<1> QED
  BY <1>2, <1>3, <1>4

(* A step of loop l that neither arms a timer nor sends. *)
Quiet(l) ==
    /\ UNCHANGED <<kind, now, runCount, sent, dropped>>
    /\ loop[l].pc # "send" /\ loop'[l].pc \notin {"new", "armed", "send"}
    /\ \A m \in Loops : m # l => loop'[m] = loop[m]

(* The steps of the callers, the clock and the watcher. *)
Outside ==
    /\ UNCHANGED <<kind, runCount, sent, dropped, loop>>
    /\ now' >= now /\ (stopped => stopped')

(* Loop l leaves with reason. *)
Leaves(l) == loop'[l].pc \in {"exit", "off"} => stopped \/ Finished \/ Expired

LEMMA OutsideSteps ==
    ASSUME TypeOK, Advance \/ Stop \/ Pause \/ Resume \/ Consume \/ UNCHANGED vars
    PROVE  Outside /\ (running' => running)
<1>1. UNCHANGED <<kind, runCount, sent, dropped, loop>>
  BY DEF Advance, Stop, Pause, Resume, SetPaused, Consume, vars, flags, history
<1>2. now' >= now
  <2>1. now' = now \/ now' = now + 1
    BY DEF Advance, Stop, Pause, Resume, SetPaused, Consume, vars, flags
  <2>2. now \in Nat
    BY DEF TypeOK
  <2> QED
    BY <2>1, <2>2
<1>3. stopped' = stopped \/ stopped' = TRUE
  BY DEF Advance, Stop, Pause, Resume, SetPaused, Consume, vars, flags
<1>4. running' = running \/ running' = FALSE
  BY DEF Advance, Stop, Pause, Resume, SetPaused, Consume, vars, flags
<1>5. stopped => stopped'
  BY <1>3, Zenon
<1>6. running' => running
  BY <1>4, Zenon
<1> QED
  BY <1>1, <1>2, <1>5, <1>6 DEF Outside

LEMMA QuietSteps ==
    ASSUME TypeOK, LeaveInv, NEW l \in Loops,
           Start(l) \/ Wakes(l) \/ Stops(l) \/ Receives(l) \/ Applies(l) \/ Exits(l)
    PROVE  Quiet(l) /\ Leaves(l) /\ stopped' = stopped
<1>1. UNCHANGED <<kind, now, runCount, sent, dropped, stopped>>
  BY DEF Start, Wakes, Stops, Receives, Applies, Exits, flags, history
<1>2. loop[l].pc # "send"
  BY DEF Start, Wakes, Stops, Receives, Applies, Exits
<1>3. CASE Start(l) \/ Wakes(l) \/ Applies(l)
  <2>1. GoesTo(l, "top")
    BY <1>3 DEF Start, Wakes, Applies
  <2>2. loop'[l].pc = "top" /\ \A m \in Loops : m # l => loop'[m] = loop[m]
    BY <2>1, LoopGoes DEF LoopStates
  <2> QED
    BY <1>1, <1>2, <2>2 DEF Quiet, Leaves
<1>4. CASE Stops(l)
  <2>1. GoesTo(l, "exit") /\ stopped
    BY <1>4 DEF Stops
  <2>2. loop'[l].pc = "exit" /\ \A m \in Loops : m # l => loop'[m] = loop[m]
    BY <2>1, LoopGoes DEF LoopStates
  <2>3. Quiet(l)
    BY <1>1, <1>2, <2>2 DEF Quiet
  <2> QED
    BY <1>1, <2>1, <2>3, Zenon DEF Leaves
<1>5. CASE Receives(l)
  <2>1. loop'[l].pc = "apply" /\ \A m \in Loops : m # l => loop'[m] = loop[m]
    <3>1. PICK value \in BOOLEAN : Moves(l, "apply", 0, value)
      BY <1>5, ReceivesMoves
    <3> QED
      BY <3>1 DEF Moves, TypeOK, Loop
  <2> QED
    BY <1>1, <1>2, <2>1 DEF Quiet, Leaves
<1>6. CASE Exits(l)
  <2>1. GoesTo(l, "off") /\ loop[l].pc = "exit"
    BY <1>6 DEF Exits
  <2>2. loop'[l].pc = "off" /\ \A m \in Loops : m # l => loop'[m] = loop[m]
    BY <2>1, LoopGoes DEF LoopStates
  <2>3. Quiet(l)
    BY <1>1, <1>2, <2>2 DEF Quiet
  <2>4. loop[l].pc \in {"exit", "off"}
    BY <2>1
  <2>5. stopped \/ Finished \/ Expired
    BY <2>4, Zenon DEF LeaveInv
  <2> QED
    BY <1>1, <2>3, <2>5, Zenon DEF Leaves
<1> QED
  BY <1>3, <1>4, <1>5, <1>6

(* Top either arms the timer or is quiet. *)
Arms(l) ==
    /\ UNCHANGED <<kind, now, runCount, sent, dropped>>
    /\ loop[l].pc = "top"
    /\ loop'[l].pc = "armed" /\ loop'[l].next = Upcoming
    /\ ~Finished /\ InWindow(Upcoming)
    /\ \A m \in Loops : m # l => loop'[m] = loop[m]

LEMMA TopSteps ==
    ASSUME TypeOK, NEW l \in Loops, Top(l)
    PROVE  (Quiet(l) \/ Arms(l)) /\ Leaves(l) /\ UNCHANGED <<running, stopped>>
<1>1. PICK pc \in {"exit", "paused", "armed", "window"} :
          /\ Moves(l, pc, IF pc = "armed" THEN Upcoming ELSE 0, FALSE)
          /\ pc = "armed" => ~Finished /\ InWindow(Upcoming)
          /\ pc = "exit" => Finished \/ Expired
  BY TopMoves
<1>2. /\ loop'[l].pc = pc
      /\ pc = "armed" => loop'[l].next = Upcoming
      /\ \A m \in Loops : m # l => loop'[m] = loop[m]
  <2>1. (IF pc = "armed" THEN Upcoming ELSE 0) \in Nat /\ pc \in LoopStates
    BY UpcomingIsScheduled DEF LoopStates
  <2>2. loop'[l] = [pc |-> pc, next |-> IF pc = "armed" THEN Upcoming ELSE 0, value |-> FALSE]
        /\ \A m \in Loops : m # l => loop'[m] = loop[m]
    BY <1>1, <2>1, LoopMoves
  <2> QED
    BY <2>2
<1>3. loop[l].pc = "top" /\ UNCHANGED <<kind, now, runCount, sent, dropped, running, stopped>>
  BY DEF Top, flags, history
<1>4. CASE pc = "armed"
  BY <1>1, <1>2, <1>3, <1>4 DEF Arms, Leaves
<1>5. CASE pc # "armed"
  BY <1>1, <1>2, <1>3, <1>5 DEF Quiet, Leaves
<1> QED
  BY <1>4, <1>5

(* The timer, and the send on a channel that has room or has none. *)
Rings(l) ==
    /\ UNCHANGED <<kind, now, sent, dropped>>
    /\ loop[l].pc = "armed" /\ loop[l].next <= now
    /\ runCount' = IF kind = "cron" THEN runCount ELSE runCount + 1
    /\ loop'[l].pc = "send" /\ loop'[l].next = loop[l].next
    /\ \A m \in Loops : m # l => loop'[m] = loop[m]

Hands(l) ==
    /\ UNCHANGED <<kind, now, runCount>>
    /\ loop[l].pc = "send"
    /\ loop'[l].pc = IF kind = "once" THEN "exit" ELSE "top"
    /\ \A m \in Loops : m # l => loop'[m] = loop[m]
    /\ \/ sent' = Append(sent, loop[l].next) /\ dropped' = dropped
       \/ sent' = sent /\ dropped' = dropped \cup {loop[l].next}

LEMMA TimerSteps ==
    ASSUME TypeOK, NEW l \in Loops
    PROVE  /\ Fires(l) => Rings(l) /\ UNCHANGED <<running, stopped>>
           /\ Sends(l) => Hands(l) /\ UNCHANGED <<running, stopped>>
<1>1. ASSUME Fires(l) PROVE Rings(l) /\ UNCHANGED <<running, stopped>>
  <2>1. /\ loop'[l].pc = "send" /\ loop'[l].next = loop[l].next
        /\ \A m \in Loops : m # l => loop'[m] = loop[m]
    BY <1>1 DEF Fires, Moves, TypeOK, Loop
  <2> QED
    BY <1>1, <2>1 DEF Fires, Rings, flags, history
<1>2. ASSUME Sends(l) PROVE Hands(l) /\ UNCHANGED <<running, stopped>>
  <2>1. PICK pc \in LoopStates : pc = IF kind = "once" THEN "exit" ELSE "top"
    BY DEF LoopStates
  <2>2. GoesTo(l, pc)
    BY <1>2, <2>1 DEF Sends
  <2>3. loop'[l].pc = pc /\ \A m \in Loops : m # l => loop'[m] = loop[m]
    BY <2>2, LoopGoes
  <2> QED
    BY <1>2, <2>1, <2>3 DEF Sends, Hands, flags
<1> QED
  BY <1>1, <1>2

(* The instants after a send. *)
LEMMA HandsAdds ==
    ASSUME TypeOK, NEW l \in Loops, Hands(l)
    PROVE  /\ loop[l].next \in Nat /\ Sent \subseteq Nat /\ dropped \subseteq Nat
           /\ Sent' \cup dropped' = Sent \cup dropped \cup {loop[l].next}
           /\ loop[l].next \notin Sent \cup dropped =>
                 (Sent \cap dropped = {} => Sent' \cap dropped' = {})
<1>1. loop[l].next \in Nat /\ sent \in Seq(Nat) /\ dropped \subseteq Nat
  BY DEF TypeOK, Loop
<1>2. Sent \subseteq Nat
  BY <1>1 DEF Sent
<1>3. CASE sent' = Append(sent, loop[l].next) /\ dropped' = dropped
  <2>1. Sent' = Sent \cup {loop[l].next}
    BY <1>1, <1>3, SentGrows
  <2> QED
    BY <1>1, <1>2, <1>3, <2>1
<1>4. CASE sent' = sent /\ dropped' = dropped \cup {loop[l].next}
  <2>1. Sent' = Sent
    BY <1>4 DEF Sent
  <2> QED
    BY <1>1, <1>2, <1>4, <2>1
<1> QED
  BY <1>3, <1>4 DEF Hands

(* Every step is one of these. *)
LEMMA StepsOf ==
    ASSUME TypeOK, LeaveInv, [Next]_vars
    PROVE  \/ Outside /\ (running' => running)
           \/ \E l \in Loops : /\ Quiet(l) \/ Arms(l) \/ Rings(l) \/ Hands(l)
                               /\ Quiet(l) \/ Arms(l) => Leaves(l)
                               /\ stopped' = stopped
<1>1. CASE Advance \/ Stop \/ Pause \/ Resume \/ Consume \/ UNCHANGED vars
  BY <1>1, OutsideSteps
<1>2. ASSUME NEW l \in Loops, Start(l) \/ Run(l)
      PROVE  /\ Quiet(l) \/ Arms(l) \/ Rings(l) \/ Hands(l)
             /\ Quiet(l) \/ Arms(l) => Leaves(l)
             /\ stopped' = stopped
  <2>1. CASE Top(l)
    BY <2>1, TopSteps
  <2>2. CASE Start(l) \/ Wakes(l) \/ Stops(l) \/ Receives(l) \/ Applies(l) \/ Exits(l)
    BY <2>2, QuietSteps
  <2>3. CASE Fires(l) \/ Sends(l)
    <3>1. (Rings(l) \/ Hands(l)) /\ stopped' = stopped
      BY <2>3, TimerSteps
    <3>2. ~Arms(l)
      BY <3>1 DEF Arms, Rings, Hands
    <3>3. ~Quiet(l)
      BY <3>1 DEF Quiet, Rings, Hands
    <3> QED
      BY <3>1, <3>2, <3>3
  <2> QED
    BY <1>2, <2>1, <2>2, <2>3 DEF Run
<1> QED
  BY <1>1, <1>2 DEF Next

-------------------------------------------------------------------------------
LEMMA InitInv == Init => Inv
<1> SUFFICES ASSUME Init PROVE Inv
  OBVIOUS
<1>1. TypeOK
  <2>1. loop \in [Loops -> Loop]
    BY DEF Init, Loop, LoopStates
  <2>2. {running, paused, stopped, accepted, panicked} \subseteq BOOLEAN
    BY DEF Init
  <2>3. /\ pauseCh \in Seq(BOOLEAN) /\ Len(pauseCh) = 0 /\ ch \in Seq(Nat) /\ Len(ch) = 0
        /\ sent \in Seq(Nat)
    BY DEF Init
  <2>4. /\ now \in 0 .. MaxTime /\ calls \in 0 .. MaxCalls /\ ChanCap \in Nat
        /\ runCount \in Nat /\ dropped \subseteq Nat /\ kind \in Kinds
    BY ScheduleAssumption DEF Init
  <2> QED
    BY <2>1, <2>2, <2>3, <2>4 DEF TypeOK
<1>2. Sent = {} /\ dropped = {} /\ \A l \in Loops : loop[l].pc = "new"
  BY DEF Init, Sent
<1>3. TickInv
  BY <1>2 DEF TickInv
<1>4. LeaveInv
  BY <1>2 DEF Init, LeaveInv
<1>5. CountInv
  <2>1. {Due(k) : k \in 0 .. runCount - 1} = {}
    BY DEF Init
  <2> QED
    BY <1>2, <2>1, ScheduleAssumption DEF Init, CountInv, Sending
<1> QED
  BY <1>1, <1>3, <1>4, <1>5 DEF Inv

LEMMA NextTick ==
    ASSUME TypeOK, TickInv, LeaveInv, [Next]_vars
    PROVE  TickInv'
<1>1. /\ sent \in Seq(Nat) /\ dropped \subseteq Nat /\ now \in Nat /\ runCount \in Nat
      /\ \A l \in Loops : loop[l].next \in Nat
  BY DEF TypeOK, Loop
<1>2. Sent \subseteq Nat
  BY <1>1 DEF Sent
<1>3. CASE Outside
  <2>1. Sent' = Sent /\ dropped' = dropped /\ loop' = loop /\ kind' = kind /\ runCount' = runCount
    BY <1>3 DEF Outside, Sent
  <2>2. \A t \in Nat : Scheduled(t)' <=> Scheduled(t)
    BY <2>1 DEF Scheduled
  <2>3. now' >= now /\ now' \in Nat
    BY <1>3, NextType DEF Outside, TypeOK
  <2>4. ASSUME NEW l \in Loops, loop'[l].pc \in {"armed", "send"}
        PROVE  (InWindow(loop[l].next) /\ Scheduled(loop[l].next))'
    BY <2>1, <2>4 DEF TickInv, Scheduled
  <2>5. ASSUME NEW l \in Loops, loop'[l].pc = "send"
        PROVE  loop'[l].next <= now' /\ (kind' # "cron" => runCount' > 0)
    BY <1>1, <2>1, <2>3, <2>5 DEF TickInv
  <2>6. ASSUME NEW t \in (Sent \cup dropped)'
        PROVE  t <= now' /\ InWindow(t)' /\ Scheduled(t)'
    <3>1. t \in Sent \cup dropped /\ t \in Nat
      BY <1>1, <1>2, <2>1
    <3>2. t <= now /\ InWindow(t) /\ Scheduled(t)
      BY <3>1 DEF TickInv
    <3> QED
      BY <1>1, <2>2, <2>3, <3>1, <3>2
  <2> QED
    BY <2>4, <2>5, <2>6 DEF TickInv
<1>4. ASSUME NEW l \in Loops, Quiet(l) \/ Arms(l) \/ Rings(l) \/ Hands(l)
      PROVE  TickInv'
  <2>1. kind' = kind /\ now' = now
    BY <1>4 DEF Quiet, Arms, Rings, Hands
  <2>2. \A t \in Nat : Scheduled(t)' <=> Scheduled(t)
    BY <2>1 DEF Scheduled
  <2>3. \A m \in Loops : m # l => loop'[m] = loop[m]
    BY <1>4 DEF Quiet, Arms, Rings, Hands
  <2>4. CASE Quiet(l)
    <3>1. Sent' = Sent /\ dropped' = dropped /\ runCount' = runCount
      BY <2>4 DEF Quiet, Sent
    <3>2. loop'[l].pc \notin {"armed", "send"}
      BY <2>4 DEF Quiet
    <3> QED
      BY <1>1, <1>2, <2>1, <2>2, <2>3, <3>1, <3>2 DEF TickInv
  <2>5. CASE Arms(l)
    <3>1. Sent' = Sent /\ dropped' = dropped /\ runCount' = runCount
      BY <2>5 DEF Arms, Sent
    <3>2. /\ loop'[l].pc = "armed" /\ loop'[l].next \in Nat
          /\ InWindow(loop'[l].next) /\ Scheduled(loop'[l].next)
      BY <2>5, UpcomingIsScheduled DEF Arms
    <3> QED
      BY <1>1, <1>2, <2>1, <2>2, <2>3, <3>1, <3>2 DEF TickInv
  <2>6. CASE Rings(l)
    <3>1. Sent' = Sent /\ dropped' = dropped
      BY <2>6 DEF Rings, Sent
    <3>2. kind # "cron" => runCount' > 0
      BY <1>1, <2>6 DEF Rings
    <3>3. /\ loop'[l].pc = "send" /\ loop'[l].next = loop[l].next
          /\ loop[l].pc = "armed" /\ loop[l].next <= now
      BY <2>6 DEF Rings
    <3> QED
      BY <1>1, <1>2, <2>1, <2>2, <2>3, <3>1, <3>2, <3>3 DEF TickInv
  <2>7. CASE Hands(l)
    <3>1. /\ loop[l].pc = "send" /\ loop'[l].pc \notin {"armed", "send"}
          /\ runCount' = runCount
      BY <2>7 DEF Hands
    <3>2. Sent' \cup dropped' = Sent \cup dropped \cup {loop[l].next}
      BY <2>7, HandsAdds
    <3> QED
      BY <1>1, <1>2, <2>1, <2>2, <2>3, <3>1, <3>2 DEF TickInv
  <2> QED
    BY <1>4, <2>4, <2>5, <2>6, <2>7
<1> QED
  BY <1>3, <1>4, StepsOf

LEMMA NextLeave ==
    ASSUME TypeOK, TickInv, LeaveInv, [Next]_vars
    PROVE  LeaveInv'
<1>1. now \in Nat /\ now' \in Nat /\ runCount \in Nat /\ runCount' \in Nat
  BY NextType DEF TypeOK
<1>2. ASSUME kind' = kind, now' >= now, runCount' >= runCount
      PROVE  (Finished => Finished') /\ (Expired => Expired')
  BY <1>1, <1>2, ScheduleAssumption DEF Finished, Expired
<1>3. CASE Outside /\ (running' => running)
  <2>1. /\ kind' = kind /\ now' >= now /\ runCount' >= runCount /\ loop' = loop
        /\ (stopped => stopped') /\ (running' => running)
    BY <1>1, <1>3 DEF Outside
  <2>2. (Finished => Finished') /\ (Expired => Expired')
    BY <1>2, <2>1
  <2>3. running' => \E l \in Loops : loop'[l].pc # "new"
    BY <2>1 DEF LeaveInv
  <2>4. \A l \in Loops : loop'[l].pc \in {"exit", "off"} =>
            stopped' \/ Finished' \/ Expired'
    BY <2>1, <2>2, Zenon DEF LeaveInv
  <2> QED
    BY <2>3, <2>4 DEF LeaveInv
<1>4. ASSUME NEW l \in Loops, Quiet(l) \/ Arms(l) \/ Rings(l) \/ Hands(l),
             Quiet(l) \/ Arms(l) => Leaves(l), stopped' = stopped
      PROVE  LeaveInv'
  <2>1. /\ kind' = kind /\ now' >= now /\ runCount' >= runCount
        /\ loop'[l].pc # "new" /\ \A m \in Loops : m # l => loop'[m] = loop[m]
    BY <1>1, <1>4 DEF Quiet, Arms, Rings, Hands
  <2>2. (Finished => Finished') /\ (Expired => Expired')
    BY <1>2, <2>1
  <2>3. ASSUME loop'[l].pc \in {"exit", "off"} PROVE stopped \/ Finished \/ Expired
    <3>1. CASE Quiet(l) \/ Arms(l)
      <4>1. Leaves(l)
        BY <1>4, <3>1
      <4> QED
        BY <2>3, <4>1, Zenon DEF Leaves
    <3>2. CASE Rings(l)
      BY <2>3, <3>2 DEF Rings
    <3>3. CASE Hands(l)
      <4>1. kind = "once" /\ runCount > 0
        BY <2>3, <3>3 DEF Hands, TickInv
      <4> QED
        BY <4>1 DEF Finished
    <3> QED
      BY <1>4, <3>1, <3>2, <3>3
  <2>4. \A m \in Loops : loop'[m].pc \in {"exit", "off"} => stopped \/ Finished \/ Expired
    <3> SUFFICES ASSUME NEW m \in Loops, loop'[m].pc \in {"exit", "off"}
                 PROVE  stopped \/ Finished \/ Expired
      OBVIOUS
    <3>1. CASE m = l
      BY <2>3, <3>1
    <3>2. CASE m # l
      <4>1. loop[m].pc \in {"exit", "off"}
        BY <2>1, <3>2
      <4> QED
        BY <4>1, Zenon DEF LeaveInv
    <3> QED
      BY <3>1, <3>2
  <2>5. \A m \in Loops : loop'[m].pc \in {"exit", "off"} =>
            stopped' \/ Finished' \/ Expired'
    BY <1>4, <2>2, <2>4, Zenon
  <2>6. running' => \E m \in Loops : loop'[m].pc # "new"
    BY <2>1
  <2> QED
    BY <2>5, <2>6 DEF LeaveInv
<1> QED
  BY <1>3, <1>4, StepsOf

(* The count of a ticker with a single loop. *)
LEMMA NextCount ==
    ASSUME Inv, [Next]_vars
    PROVE  CountInv'
<1>0. TypeOK /\ TickInv /\ LeaveInv /\ CountInv
  BY DEF Inv
<1>1. /\ sent \in Seq(Nat) /\ dropped \subseteq Nat /\ now \in Nat /\ runCount \in Nat
      /\ kind \in {"cron", "iso", "once"}
      /\ \A l \in Loops : loop[l].next \in Nat
  BY <1>0, KindsAssumption DEF TypeOK, Loop
<1>2. Sent \subseteq Nat
  BY <1>1 DEF Sent
<1>3. CASE Outside
  BY <1>0, <1>3 DEF Outside, CountInv, Alone, Sending, Sent, Finished
<1>4. ASSUME NEW l \in Loops, Quiet(l) \/ Arms(l) \/ Rings(l) \/ Hands(l)
      PROVE  CountInv'
  <2> SUFFICES ASSUME Alone' PROVE CountInv'
    BY DEF CountInv
  <2>1. kind' = kind /\ now' = now /\ \A m \in Loops : m # l => loop'[m] = loop[m]
    BY <1>4 DEF Quiet, Arms, Rings, Hands
  <2>2. loop'[l].pc # "new"
    BY <1>4 DEF Quiet, Arms, Rings, Hands
  <2>3. \A m \in Loops : m # l => loop[m].pc = "new" /\ loop'[m].pc = "new"
    BY <2>1, <2>2 DEF Alone
  <2>4. Alone
    BY <2>3 DEF Alone
  <2>5. (Sending <=> loop[l].pc = "send") /\ (Sending' <=> loop'[l].pc = "send")
    BY <2>3 DEF Sending
  <2>6. CASE Quiet(l)
    <3>1. /\ sent' = sent /\ Sent' = Sent /\ dropped' = dropped /\ runCount' = runCount
      BY <2>6 DEF Quiet, Sent
    <3>2. ~Sending /\ ~Sending' /\ \A m \in Loops : loop'[m].pc \notin {"armed", "send"}
      BY <2>3, <2>5, <2>6 DEF Quiet
    <3> QED
      BY <1>0, <2>1, <2>4, <3>1, <3>2 DEF CountInv
  <2>7. CASE Arms(l)
    <3>1. /\ sent' = sent /\ Sent' = Sent /\ dropped' = dropped /\ runCount' = runCount
      BY <2>7 DEF Arms, Sent
    <3>2. /\ ~Sending /\ ~Sending' /\ loop'[l].pc = "armed" /\ loop'[l].next = Upcoming
          /\ ~Finished /\ ~Finished'
      BY <2>1, <2>5, <2>7, <3>1 DEF Arms, Finished
    <3>3. kind # "cron" =>
            /\ Upcoming = Due(runCount)
            /\ Sent \cup dropped = {Due(k) : k \in 0 .. runCount - 1}
      <4>1. kind = "once" => runCount = 0
        BY <1>1, <3>2 DEF Finished
      <4> QED
        BY <1>0, <1>1, <2>4, <3>2, <4>1, UpcomingIsScheduled DEF CountInv
    <3>4. \A t \in Sent \cup dropped : t < Upcoming
      <4> SUFFICES ASSUME NEW t \in Sent \cup dropped PROVE t < Upcoming
        OBVIOUS
      <4>1. CASE kind = "cron"
        <5>1. t \in Nat /\ t <= now /\ Upcoming \in Nat /\ now < Upcoming
          BY <1>0, <1>1, <1>2, <4>1, UpcomingIsScheduled DEF TickInv
        <5> QED
          BY <1>1, <5>1
      <4>2. CASE kind # "cron"
        <5>1. PICK k \in 0 .. runCount - 1 : t = Due(k)
          BY <3>3, <4>2
        <5>2. k \in Nat /\ k < runCount
          BY <1>1, <5>1
        <5> QED
          BY <1>1, <3>3, <4>2, <5>1, <5>2, DueGrows
      <4> QED
        BY <4>1, <4>2
    <3>5. \A m \in Loops : loop'[m].pc \in {"armed", "send"} => m = l
      BY <2>3
    <3> QED
      BY <1>0, <2>1, <2>4, <3>1, <3>2, <3>3, <3>4, <3>5 DEF CountInv
  <2>8. CASE Rings(l)
    <3>1. /\ sent' = sent /\ Sent' = Sent /\ dropped' = dropped
          /\ loop[l].pc = "armed" /\ loop'[l].pc = "send" /\ loop'[l].next = loop[l].next
          /\ runCount' = IF kind = "cron" THEN runCount ELSE runCount + 1
      BY <2>8 DEF Rings, Sent
    <3>2. ~Sending /\ Sending' /\ \A m \in Loops : loop'[m].pc \in {"armed", "send"} => m = l
      BY <2>3, <2>5, <3>1
    <3>3. \A t \in Sent \cup dropped : t < loop[l].next
      BY <1>0, <2>4, <3>1 DEF CountInv
    <3>4. kind # "cron" =>
            /\ runCount' = runCount + 1 /\ runCount' - 2 = runCount - 1
            /\ runCount' - 1 = runCount /\ runCount' > 0
      BY <1>1, <3>1
    <3>5. kind # "cron" =>
            /\ Sent \cup dropped = {Due(k) : k \in 0 .. runCount - 1}
            /\ loop[l].next = Due(runCount) /\ ~Finished
      BY <1>0, <2>4, <3>1, <3>2 DEF CountInv
    <3>6. /\ kind = "once" => runCount' <= 1
          /\ kind = "iso" /\ Repetitions > 0 => runCount' <= Repetitions
      BY <1>1, <3>4, <3>5, ScheduleAssumption DEF Finished
    <3> QED
      BY <1>0, <2>1, <2>4, <3>1, <3>2, <3>3, <3>4, <3>5, <3>6 DEF CountInv
  <2>9. CASE Hands(l)
    <3>1. /\ loop[l].pc = "send" /\ loop'[l].pc \notin {"armed", "send"}
          /\ runCount' = runCount
      BY <2>9 DEF Hands
    <3>2. Sending /\ ~Sending' /\ \A m \in Loops : loop'[m].pc \notin {"armed", "send"}
      BY <2>3, <2>5, <3>1
    <3>3. PICK x \in Nat : x = loop[l].next
      BY <1>1
    <3>4. \A t \in Sent \cup dropped : t < x
      BY <1>0, <2>4, <3>1, <3>3 DEF CountInv
    <3>5. x \notin Sent \cup dropped
      BY <3>4
    <3>6. Sent' \cup dropped' = Sent \cup dropped \cup {x} /\ Sent' \cap dropped' = {}
      <4>1. Sent \cap dropped = {}
        BY <1>0, <2>4 DEF CountInv
      <4> QED
        BY <1>0, <2>9, <3>3, <3>5, <4>1, HandsAdds
    <3>7. \A i, j \in 1 .. Len(sent') : i < j => sent'[i] < sent'[j]
      <4>1. \A i, j \in 1 .. Len(sent) : i < j => sent[i] < sent[j]
        BY <1>0, <2>4 DEF CountInv
      <4>2. CASE sent' = sent
        BY <4>1, <4>2
      <4>3. CASE sent' = Append(sent, x)
        BY <1>1, <3>4, <4>1, <4>3, SentGrows
      <4> QED
        BY <2>9, <3>3, <4>2, <4>3 DEF Hands
    <3>8. kind # "cron" => Sent' \cup dropped' = {Due(k) : k \in 0 .. runCount - 1}
      <4> SUFFICES ASSUME kind # "cron"
                   PROVE  Sent' \cup dropped' = {Due(k) : k \in 0 .. runCount - 1}
        OBVIOUS
      <4>1. /\ runCount > 0 /\ x = Due(runCount - 1)
            /\ Sent \cup dropped = {Due(k) : k \in 0 .. runCount - 2}
        BY <1>0, <2>4, <3>1, <3>2, <3>3 DEF CountInv
      <4>2. \A k : k \in 0 .. runCount - 1 <=> k \in 0 .. runCount - 2 \/ k = runCount - 1
        BY <1>1, <4>1
      <4> QED
        BY <3>6, <4>1, <4>2
    <3> QED
      BY <1>0, <2>1, <2>4, <3>1, <3>2, <3>6, <3>7, <3>8 DEF CountInv
  <2> QED
    BY <1>4, <2>6, <2>7, <2>8, <2>9
<1> QED
  BY <1>0, <1>3, <1>4, StepsOf

LEMMA Invariance == Spec => []Inv
<1>1. Inv /\ [Next]_vars => Inv'
  BY NextType, NextTick, NextLeave, NextCount DEF Inv
<1> QED
  BY <1>1, InitInv, PTL DEF Spec

-------------------------------------------------------------------------------
(* Two loops that were spawned make a restart. *)
LEMMA OneLoop == ~Restarted => Alone
<1> SUFFICES ASSUME NEW l \in Loops, NEW m \in Loops, loop[l].pc # "new",
                    loop[m].pc # "new", l # m
             PROVE  Restarted
  BY DEF Alone
<1> DEFINE S == {k \in Loops : loop[k].pc # "new"}
<1>1. IsFiniteSet(S)
  <2>1. IsFiniteSet(Loops)
    BY ScheduleAssumption, FS_Interval DEF Loops
  <2> QED
    BY <2>1, FS_Subset
<1>2. l \in S /\ m \in S
  OBVIOUS
<1> HIDE DEF S
<1>3. IsFiniteSet(S \ {l}) /\ Cardinality(S \ {l}) = Cardinality(S) - 1
  BY <1>1, <1>2, FS_RemoveElement
<1>4. Cardinality(S \ {l}) # 0 /\ Cardinality(S \ {l}) \in Nat /\ Cardinality(S) \in Nat
  <2>1. S \ {l} # {}
    BY <1>2
  <2> QED
    BY <1>1, <1>3, <2>1, FS_EmptySet, FS_CardinalityType
<1>5. Cardinality(S) > 1
  BY <1>3, <1>4
<1> QED
  BY <1>5 DEF S, Restarted

(* The types; neither channel of a ticker holds more than its capacity.     *)
THEOREM TypeCorrect == Spec => []TypeOK
<1>1. Inv => TypeOK
  BY DEF Inv
<1> QED
  BY <1>1, Invariance, PTL

(* A ticker never ticks early or outside its window, and one that was not   *)
(* restarted ticks in order and never twice, however its waits are          *)
(* interrupted.                                                             *)
THEOREM TicksAreOrdered == Spec => []TicksInOrder
<1>1. Inv => TicksInOrder
  <2> SUFFICES ASSUME Inv PROVE TicksInOrder
    OBVIOUS
  <2>1. \A i, j \in 1 .. Len(sent) : i < j => sent[i] < sent[j] \/ Restarted
    BY OneLoop DEF Inv, CountInv
  <2>2. \A t \in Sent \cup dropped : t <= now /\ InWindow(t)
    BY DEF Inv, TickInv
  <2> QED
    BY <2>1, <2>2 DEF TicksInOrder
<1> QED
  BY <1>1, Invariance, PTL

(* The number of runs of an iso8601 ticker says exactly which instants it   *)
(* has sent, dropped or is about to send, and stays within the repetitions. *)
THEOREM RunsAreCounted == Spec => []EveryRunCounted
<1>1. Inv => EveryRunCounted
  <2> SUFFICES ASSUME Inv, kind = "iso", ~Restarted PROVE EveryRunCounted
    BY DEF EveryRunCounted
  <2>1. Alone /\ CountInv /\ runCount \in Nat
    BY OneLoop DEF Inv, TypeOK
  <2>2. Sent \cup dropped \cup InFlight = {Due(k) : k \in 0 .. runCount - 1}
    <3>1. CASE Sending
      <4>1. PICK l \in Loops : loop[l].pc = "send"
        BY <3>1 DEF Sending
      <4>2. \A m \in Loops : loop[m].pc = "send" => m = l
        BY <2>1, <4>1 DEF Alone
      <4>3. InFlight = {Due(runCount - 1)} /\ runCount > 0
        BY <2>1, <4>1, <4>2 DEF InFlight, CountInv
      <4>4. \A k : k \in 0 .. runCount - 1 <=> k \in 0 .. runCount - 2 \/ k = runCount - 1
        BY <2>1, <4>3
      <4>5. Sent \cup dropped = {Due(k) : k \in 0 .. runCount - 2}
        BY <2>1, <3>1 DEF CountInv
      <4> QED
        BY <4>3, <4>4, <4>5
    <3>2. CASE ~Sending
      <4>1. InFlight = {}
        BY <3>2 DEF InFlight, Sending
      <4> QED
        BY <2>1, <3>2, <4>1 DEF CountInv
    <3> QED
      BY <3>1, <3>2
  <2> QED
    BY <2>1, <2>2 DEF EveryRunCounted, CountInv
<1> QED
  BY <1>1, Invariance, PTL

(* A ticker that says it runs, was not stopped and has instants left has a  *)
(* loop that will tick: no exit of a loop is overlooked.                    *)
THEOREM RunningTickersLoop == Spec => []RunningHasLoop
<1>1. Inv => RunningHasLoop
  <2> SUFFICES ASSUME Inv, running, ~stopped, ~Finished, ~Expired
               PROVE  \E l \in Loops : Alive(l)
    BY DEF RunningHasLoop
  <2>1. PICK l \in Loops : loop[l].pc # "new"
    BY DEF Inv, LeaveInv
  <2>2. loop[l].pc \notin {"exit", "off"}
    BY Zenon DEF Inv, LeaveInv
  <2> QED
    BY <2>1, <2>2 DEF Alive
<1> QED
  BY <1>1, Invariance, PTL

(* The interval of the listing begins before the schedule: a once ticker's  *)
(* GetOccurrencesBetween leaves out both ends.                              *)
StartsAfterZero == First > 0

LEMMA TickedIsListed ==
    ASSUME StartsAfterZero, Inv, NEW t \in Nat, Scheduled(t), InWindow(t), t <= now
    PROVE  t \in GetOccurrencesBetween(0, now + 1)
<1>1. now \in Nat /\ kind \in {"cron", "iso", "once"}
  BY KindsAssumption DEF Inv, TypeOK
<1>2. CASE kind = "cron"
  <2>1. PICK k \in 0 .. t : t = Due(k) /\ t > 0
    BY <1>2 DEF Scheduled
  <2>2. k \in 0 .. now + 1
    BY <1>1
  <2>3. t \in CronBetween(0, now + 1)
    BY <1>1, <2>1, <2>2 DEF CronBetween
  <2> QED
    BY <1>2, <2>3 DEF GetOccurrencesBetween
<1>3. CASE kind = "iso"
  <2>1. PICK k \in 0 .. t : t = Due(k) /\ (Repetitions > 0 => k < Repetitions)
    BY <1>3 DEF Scheduled
  <2>2. k \in {j \in 0 .. now + 1 : Repetitions > 0 => j < Repetitions}
    BY <1>1, <2>1
  <2>3. t \in ISOBetween(0, now + 1)
    BY <1>1, <2>1, <2>2 DEF ISOBetween
  <2> QED
    BY <1>3, <2>3 DEF GetOccurrencesBetween
<1>4. CASE kind = "once"
  <2>1. t = First /\ First \in Nat
    BY <1>4, ScheduleAssumption DEF Scheduled
  <2>2. t \in OnceBetween(0, now + 1)
    BY <1>1, <2>1 DEF OnceBetween, StartsAfterZero
  <2> QED
    BY <1>4, <2>2 DEF GetOccurrencesBetween
<1> QED
  BY <1>1, <1>2, <1>3, <1>4

(* What the loop ticks is what GetOccurrencesBetween lists for recovery: a  *)
(* tick is always listed, and a ticker that has finished without a restart  *)
(* has ticked all that is.                                                  *)
THEOREM LoopTicksTheListing ==
    ASSUME StartsAfterZero
    PROVE  Spec => []LoopAgreesWithListing
<1>1. Inv => LoopAgreesWithListing
  <2> SUFFICES ASSUME Inv PROVE LoopAgreesWithListing
    OBVIOUS
  <2> DEFINE ticked == Sent \cup dropped \cup InFlight
             listed == GetOccurrencesBetween(0, now + 1)
  <2>1. \A t \in ticked : t \in Nat /\ Scheduled(t) /\ InWindow(t) /\ t <= now
    <3>1. ASSUME NEW t \in Sent \cup dropped
          PROVE  t \in Nat /\ Scheduled(t) /\ InWindow(t) /\ t <= now
      <4>1. sent \in Seq(Nat) /\ dropped \subseteq Nat
        BY DEF Inv, TypeOK
      <4>2. Sent \subseteq Nat
        BY <4>1 DEF Sent
      <4> QED
        BY <4>1, <4>2 DEF Inv, TickInv
    <3>2. ASSUME NEW t \in InFlight
          PROVE  t \in Nat /\ Scheduled(t) /\ InWindow(t) /\ t <= now
      <4>1. PICK l \in Loops : loop[l].pc = "send" /\ t = loop[l].next
        BY DEF InFlight
      <4>2. t \in Nat
        BY <4>1 DEF Inv, TypeOK, Loop
      <4> QED
        BY <4>1, <4>2 DEF Inv, TickInv
    <3> QED
      BY <3>1, <3>2
  <2>2. ticked \subseteq listed
    BY <2>1, TickedIsListed
  <2>3. ASSUME Finished, ~Restarted, NEW t \in listed PROVE t \in ticked
    <3>1. /\ Alone /\ CountInv /\ runCount \in Nat /\ now \in Nat
          /\ kind \in {"iso", "once"}
      BY <2>3, OneLoop DEF Inv, TypeOK, Finished
    <3>2. \A k \in 0 .. runCount - 1 : Due(k) \in ticked
      <4> SUFFICES ASSUME NEW k \in 0 .. runCount - 1 PROVE Due(k) \in ticked
        OBVIOUS
      <4>1. CASE ~Sending
        BY <3>1, <4>1 DEF CountInv
      <4>2. CASE Sending
        <5>1. PICK l \in Loops : loop[l].pc = "send"
          BY <4>2 DEF Sending
        <5>2. Due(runCount - 1) \in InFlight
          BY <3>1, <5>1 DEF CountInv, InFlight
        <5>3. k = runCount - 1 \/ k \in 0 .. runCount - 2
          BY <3>1
        <5>4. Sent \cup dropped = {Due(j) : j \in 0 .. runCount - 2}
          BY <3>1, <4>2 DEF CountInv
        <5> QED
          BY <5>2, <5>3, <5>4
      <4> QED
        BY <4>1, <4>2
    <3> HIDE DEF ticked
    <3>3. CASE kind = "iso"
      <4>1. PICK k \in 0 .. now + 1 : t = Due(k) /\ (Repetitions > 0 => k < Repetitions)
        BY <2>3, <3>3 DEF GetOccurrencesBetween, ISOBetween
      <4>2. k \in 0 .. runCount - 1
        BY <2>3, <3>1, <3>3, <4>1, ScheduleAssumption DEF Finished
      <4> QED
        BY <3>2, <4>1, <4>2
    <3>4. CASE kind = "once"
      <4>1. t = Due(0)
        BY <2>3, <3>4, ScheduleAssumption DEF GetOccurrencesBetween, OnceBetween, Due
      <4>2. 0 \in 0 .. runCount - 1
        BY <2>3, <3>1, <3>4 DEF Finished
      <4> QED
        BY <3>2, <4>1, <4>2
    <3> QED
      BY <3>1, <3>3, <3>4
  <2> QED
    BY <2>2, <2>3 DEF LoopAgreesWithListing
<1> QED
  BY <1>1, Invariance, PTL
==================================================================================
