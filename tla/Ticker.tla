--------------------------------- MODULE Ticker ---------------------------------
(***************************************************************************)
(* ticker/cron.go, iso8601.go and once.go: the three tickers.  They share  *)
(* one protocol: a loop goroutine that waits for the next instant, and     *)
(* Start, Stop, Pause and Resume, which anybody may call and which talk to *)
(* the loop through the flag "paused", a channel of capacity one and a     *)
(* channel that is closed.  The schedules are First, First + Interval, ... *)
(***************************************************************************)
EXTENDS Naturals, Sequences, FiniteSets

CONSTANTS
    Kinds,       \* the kinds of ticker to consider
    MaxStarts,   \* bound on the calls of Start that spawn a loop
    First,       \* the first instant of the schedule
    Interval,    \* between two instants
    Repetitions, \* how many instants an ISO 8601 ticker has; 0: no limit
    WinStart,    \* config.StartTime; 0: nil
    WinEnd,      \* config.EndTime; MaxTime + Interval or more: nil
    ChanCap,     \* the capacity of ch
    MaxTime,     \* bound on the clock
    MaxCalls     \* bound on the calls of Stop, Pause and Resume

ASSUME KindsAssumption == Kinds \subseteq {"cron", "iso", "once"}
ASSUME ScheduleAssumption ==
    /\ {MaxStarts, First, Repetitions, WinStart, WinEnd, MaxTime, MaxCalls} \subseteq Nat
    /\ {Interval, ChanCap} \subseteq Nat \ {0}

(* The loop goroutines, in the order Start spawns them. *)
Loops == 1 .. MaxStarts

VARIABLES
    kind,      \* which ticker this is; never changes
    now,       \* the clock
    running,   \* t.running
    paused,    \* t.paused
    stopped,   \* stopCh is closed
    pauseCh,   \* the buffer of pauseCh
    ch,        \* the buffer of ch
    runCount,  \* t.runCount; for a once ticker, 1 is t.executed
    loop,      \* the loop goroutines
    sent,      \* history: the instants sent on ch
    dropped,   \* history: the instants that found ch full
    accepted,  \* history: the last Pause or Resume that pauseCh had room for
    calls,     \* Stop, Pause and Resume calls so far
    panicked   \* close of a closed channel: the process is gone

flags == <<running, paused, stopped>>
history == <<sent, dropped, accepted, calls>>
vars == <<kind, now, flags, pauseCh, ch, runCount, loop, history, panicked>>

(* A loop: where it is, the instant its timer waits for, the value it has  *)
(* taken from pauseCh and is about to store.                               *)
LoopStates == {"new", "top", "paused", "window", "armed", "send", "apply",
               "exit", "off"}
Loop == [pc : LoopStates, next : Nat, value : BOOLEAN]

(* The types; neither channel exceeds its capacity. *)
TypeOK ==
    /\ kind \in Kinds
    /\ now \in 0 .. MaxTime
    /\ {running, paused, stopped, accepted, panicked} \subseteq BOOLEAN
    /\ pauseCh \in Seq(BOOLEAN) /\ Len(pauseCh) <= 1
    /\ ch \in Seq(Nat) /\ Len(ch) <= ChanCap
    /\ runCount \in Nat
    /\ loop \in [Loops -> Loop]
    /\ sent \in Seq(Nat)
    /\ dropped \subseteq Nat
    /\ calls \in 0 .. MaxCalls

-------------------------------------------------------------------------------
InWindow(t) == WinStart <= t /\ t <= WinEnd

Due(k) == First + k * Interval

(* schedule.Next: the first instant strictly after t. *)
NextAfter(t) ==
    Due(CHOOSE k \in 0 .. t + 1 :
            Due(k) > t /\ \A j \in 0 .. t + 1 : Due(j) > t => k <= j)

(* The instant the loop would wait for: cron goes by the clock, iso8601 by *)
(* the number of ticks so far, once has only one.                          *)
Upcoming == CASE kind = "cron" -> NextAfter(now)
              [] kind = "iso" -> Due(runCount)
              [] kind = "once" -> First

(* Nothing is left to do: the repetitions are used up, or it was executed. *)
Finished ==
    \/ kind = "iso" /\ Repetitions > 0 /\ runCount >= Repetitions
    \/ kind = "once" /\ runCount > 0

(* Out of the window, and it will stay so.  Cron keeps looking. *)
Expired ==
    \/ kind = "iso" /\ now > WinEnd
    \/ kind = "once" /\ First > WinEnd

(* The three GetOccurrencesBetween, which recovery calls for the time a    *)
(* node was away.  Cron leaves out the start, iso8601 the end, once both.  *)
(* The safety limit of 10000 is not reached.                               *)
CronBetween(start, end) ==
    {t \in {Due(k) : k \in 0 .. end} : start < t /\ t <= end /\ InWindow(t)}

ISOOneShort(start, end) ==  \* mutant of ISOBetween: repetitions counted from one
    {t \in {Due(k) : k \in {j \in 0 .. end : Repetitions > 0 => j + 1 < Repetitions}} :
        start <= t /\ t < end /\ InWindow(t)}

ISOBetween(start, end) ==
    {t \in {Due(k) : k \in {j \in 0 .. end : Repetitions > 0 => j < Repetitions}} :
        start <= t /\ t < end /\ InWindow(t)}

OnceBetween(start, end) == {t \in {First} : start < t /\ t < end /\ InWindow(t)}

GetOccurrencesBetween(start, end) ==
    CASE kind = "cron" -> CronBetween(start, end)
      [] kind = "iso" -> ISOBetween(start, end)
      [] kind = "once" -> OnceBetween(start, end)

(* Loop l goes to point pc; the locals it needs no more are forgotten. *)
Moves(l, pc, next, value) ==
    loop' = [loop EXCEPT ![l] = [pc |-> pc, next |-> next, value |-> value]]
GoesTo(l, pc) == Moves(l, pc, 0, FALSE)

-------------------------------------------------------------------------------
Init ==
    /\ kind \in Kinds
    /\ now = 0
    /\ running = FALSE
    /\ paused = FALSE
    /\ stopped = FALSE
    /\ pauseCh = <<>>
    /\ ch = <<>>
    /\ runCount = 0
    /\ loop = [l \in Loops |-> [pc |-> "new", next |-> 0, value |-> FALSE]]
    /\ sent = <<>>
    /\ dropped = {}
    /\ accepted = FALSE
    /\ calls = 0
    /\ panicked = FALSE

Advance ==
    /\ now < MaxTime
    /\ now' = now + 1
    /\ UNCHANGED <<kind, flags, pauseCh, ch, runCount, loop, history, panicked>>

(* Start: a loop is spawned unless one is believed to run; a once ticker   *)
(* that has fired refuses.                                                 *)
Start(l) ==
    /\ ~running
    /\ loop[l].pc = "new" /\ \A k \in 1 .. l - 1 : loop[k].pc # "new"
    /\ ~(kind = "once" /\ Finished)
    /\ running' = TRUE
    /\ GoesTo(l, "top")
    /\ UNCHANGED <<kind, now, paused, stopped, pauseCh, ch, runCount, history,
                   panicked>>

(* Stop: closing the closed channel of an earlier Stop panics. *)
Stop ==
    /\ calls < MaxCalls
    /\ running
    /\ calls' = calls + 1
    /\ running' = FALSE
    /\ stopped' = TRUE
    /\ panicked' = stopped
    /\ UNCHANGED <<kind, now, paused, pauseCh, ch, runCount, loop, sent, dropped,
                   accepted>>

SetPausedBlindly(value) ==  \* mutant of SetPaused: the flag without the message
    /\ calls < MaxCalls
    /\ calls' = calls + 1
    /\ paused' = value
    /\ accepted' = value
    /\ pauseCh' = IF pauseCh = <<>> /\ paused # value THEN <<value>> ELSE pauseCh
    /\ UNCHANGED <<kind, now, running, stopped, ch, runCount, loop, sent, dropped,
                   panicked>>

(* Pause and Resume: nothing to do, or a message and the flag, or, while   *)
(* the last message is still in pauseCh, neither.                          *)
SetPaused(value) ==
    /\ calls < MaxCalls
    /\ calls' = calls + 1
    /\ IF paused # value /\ pauseCh = <<>>
       THEN pauseCh' = <<value>> /\ paused' = value /\ accepted' = value
       ELSE UNCHANGED <<pauseCh, paused, accepted>>
    /\ UNCHANGED <<kind, now, running, stopped, ch, runCount, loop, sent, dropped,
                   panicked>>

Pause == SetPaused(TRUE)
Resume == SetPaused(FALSE)

-------------------------------------------------------------------------------
TopCounts(l) ==  \* mutant of Top: the run is counted before the wait
    /\ loop[l].pc = "top"
    /\ LET pc == IF Finished THEN "exit"
                 ELSE IF paused THEN "paused"
                 ELSE IF InWindow(Upcoming) THEN "armed"
                 ELSE IF Expired THEN "exit" ELSE "window"
       IN  /\ Moves(l, pc, IF pc = "armed" THEN Upcoming ELSE 0, FALSE)
           /\ runCount' = IF pc = "armed" THEN runCount + 1 ELSE runCount
    /\ UNCHANGED <<kind, now, flags, pauseCh, ch, history, panicked>>

(* run, from the top of its loop to the select it waits in. *)
Top(l) ==
    /\ loop[l].pc = "top"
    /\ LET pc == IF Finished THEN "exit"
                 ELSE IF paused THEN "paused"
                 ELSE IF InWindow(Upcoming) THEN "armed"
                 ELSE IF Expired THEN "exit" ELSE "window"
       IN  Moves(l, pc, IF pc = "armed" THEN Upcoming ELSE 0, FALSE)
    /\ UNCHANGED <<kind, now, flags, pauseCh, ch, runCount, history, panicked>>

WakesReturns(l) ==  \* mutant of Wakes: return instead of continue
    /\ loop[l].pc = "window"
    /\ GoesTo(l, "exit")
    /\ UNCHANGED <<kind, now, flags, pauseCh, ch, runCount, history, panicked>>

(* The minute of sleep outside the window is over. *)
Wakes(l) ==
    /\ loop[l].pc = "window"
    /\ GoesTo(l, "top")
    /\ UNCHANGED <<kind, now, flags, pauseCh, ch, runCount, history, panicked>>

StopsUnlessPaused(l) ==  \* mutant of Stops: the paused select lacks the case
    /\ loop[l].pc \in {"window", "armed"}
    /\ stopped
    /\ GoesTo(l, "exit")
    /\ UNCHANGED <<kind, now, flags, pauseCh, ch, runCount, history, panicked>>

(* Any of the three selects: stopCh is closed. *)
Stops(l) ==
    /\ loop[l].pc \in {"paused", "window", "armed"}
    /\ stopped
    /\ GoesTo(l, "exit")
    /\ UNCHANGED <<kind, now, flags, pauseCh, ch, runCount, history, panicked>>

(* Any of the three selects: a message.  While paused, the cron loop takes *)
(* it as the new value of the flag and the other two as its opposite.      *)
Receives(l) ==
    /\ loop[l].pc \in {"paused", "window", "armed"}
    /\ pauseCh # <<>>
    /\ LET inverted == kind # "cron" /\ loop[l].pc = "paused"
           value == IF inverted THEN ~Head(pauseCh) ELSE Head(pauseCh)
       IN  Moves(l, "apply", 0, value)
    /\ pauseCh' = Tail(pauseCh)
    /\ UNCHANGED <<kind, now, flags, ch, runCount, history, panicked>>

(* ... stored under the lock, which the callers may have had in between. *)
Applies(l) ==
    /\ loop[l].pc = "apply"
    /\ paused' = loop[l].value
    /\ GoesTo(l, "top")
    /\ UNCHANGED <<kind, now, running, stopped, pauseCh, ch, runCount, history,
                   panicked>>

FiresEarly(l) ==  \* mutant of Fires: every duration is zero
    /\ loop[l].pc = "armed"
    /\ runCount' = IF kind = "cron" THEN runCount ELSE runCount + 1
    /\ Moves(l, "send", loop[l].next, FALSE)
    /\ UNCHANGED <<kind, now, flags, pauseCh, ch, history, panicked>>

(* The timer: the count is raised before the tick is sent. *)
Fires(l) ==
    /\ loop[l].pc = "armed"
    /\ loop[l].next <= now
    /\ runCount' = IF kind = "cron" THEN runCount ELSE runCount + 1
    /\ Moves(l, "send", loop[l].next, FALSE)
    /\ UNCHANGED <<kind, now, flags, pauseCh, ch, history, panicked>>

SendsAnyway(l) ==  \* mutant of Sends: no default case, no bound
    /\ loop[l].pc = "send"
    /\ GoesTo(l, IF kind = "once" THEN "exit" ELSE "top")
    /\ ch' = Append(ch, loop[l].next)
    /\ sent' = Append(sent, loop[l].next)
    /\ UNCHANGED <<kind, now, flags, pauseCh, runCount, dropped, accepted,
                   calls, panicked>>

(* The non-blocking send; a once ticker returns after it. *)
Sends(l) ==
    /\ loop[l].pc = "send"
    /\ GoesTo(l, IF kind = "once" THEN "exit" ELSE "top")
    /\ IF Len(ch) < ChanCap
       THEN /\ ch' = Append(ch, loop[l].next)
            /\ sent' = Append(sent, loop[l].next)
            /\ UNCHANGED dropped
       ELSE /\ dropped' = dropped \cup {loop[l].next}
            /\ UNCHANGED <<ch, sent>>
    /\ UNCHANGED <<kind, now, flags, pauseCh, runCount, accepted, calls,
                   panicked>>

(* run returns; the loop of a once ticker clears "running" on its way out. *)
Exits(l) ==
    /\ loop[l].pc = "exit"
    /\ GoesTo(l, "off")
    /\ running' = (kind # "once" /\ running)
    /\ UNCHANGED <<kind, now, paused, stopped, pauseCh, ch, runCount, history,
                   panicked>>

(* watchJob takes a tick from the channel. *)
Consume ==
    /\ ch # <<>>
    /\ ch' = Tail(ch)
    /\ UNCHANGED <<kind, now, flags, pauseCh, runCount, loop, history, panicked>>

Run(l) ==
    \/ Top(l)
    \/ Wakes(l)
    \/ Stops(l)
    \/ Receives(l)
    \/ Applies(l)
    \/ Fires(l)
    \/ Sends(l)
    \/ Exits(l)

Next ==
    /\ ~panicked
    /\ \/ Advance
       \/ \E l \in Loops : Start(l) \/ Run(l)
       \/ Stop
       \/ Pause
       \/ Resume
       \/ Consume

Spec == Init /\ [][Next]_vars

(* Goroutines are scheduled and time passes; a select in which a case      *)
(* stays ready does not overlook it forever, though other cases win again  *)
(* and again.                                                              *)
Fairness ==
    /\ WF_vars(~panicked /\ Advance)
    /\ WF_vars(~panicked /\ Consume)
    /\ \A l \in Loops :
        /\ WF_vars(~panicked /\ Run(l))
        /\ SF_vars(~panicked /\ Stops(l))
        /\ SF_vars(~panicked /\ Receives(l))

FairSpec == Spec /\ Fairness

-------------------------------------------------------------------------------
Alive(l) == loop[l].pc \notin {"new", "exit", "off"}

(* The instants a loop has counted and not yet sent. *)
InFlight == {loop[l].next : l \in {k \in Loops : loop[k].pc = "send"}}

Sent == {sent[i] : i \in 1 .. Len(sent)}

(* Stop, then Start again: the closed stopCh stays, and two loops may run. *)
Restarted == Cardinality({l \in Loops : loop[l].pc # "new"}) > 1

(* Ticks come in order and none twice, unless the ticker was restarted, and *)
(* none before its time or outside the window, however Pause, Resume, Stop  *)
(* and Start interrupt the waits.                                           *)
TicksInOrder ==
    /\ \A i, j \in 1 .. Len(sent) : i < j => sent[i] < sent[j] \/ Restarted
    /\ \A t \in Sent \cup dropped : t <= now /\ InWindow(t)

(* A ticker that counts its runs accounts for every instant it has counted *)
(* exactly once, sent or dropped on a full channel, and never counts more  *)
(* than its repetitions: a pause in the middle of a wait costs no run.     *)
EveryRunCounted ==
    kind = "iso" /\ ~Restarted =>
        /\ Sent \cup dropped \cup InFlight = {Due(k) : k \in 0 .. runCount - 1}
        /\ Repetitions > 0 => runCount <= Repetitions
        /\ Sent \cap dropped = {}

(* A ticker that says it runs, and has instants left, has a loop.  After a *)
(* Stop this is not so: the stop channel stays closed, and the loop of a   *)
(* second Start leaves by it while running stays true.                     *)
RunningHasLoop ==
    running /\ ~stopped /\ ~Finished /\ ~Expired => \E l \in Loops : Alive(l)

(* The loop, which goes from tick to tick, and GetOccurrencesBetween, which *)
(* recovery relies on and which goes through the schedule on its own, agree *)
(* on what the schedule is: over an interval around everything so far, what *)
(* ticked is listed, and once the ticker has finished nothing else is.      *)
LoopAgreesWithListing ==
    LET ticked == Sent \cup dropped \cup InFlight
        listed == GetOccurrencesBetween(0, now + 1)
    IN  /\ ticked \subseteq listed
        /\ Finished /\ ~Restarted => ticked = listed

(* In the end the flag of a cron ticker says what the last accepted Pause  *)
(* or Resume asked for, and the loop does what the flag says: a stale      *)
(* value that the loop stores after a later call is made good by that      *)
(* call's message.                                                         *)
LastCallWins ==
    kind = "cron" =>
        <>[](\A l \in Loops :
                Alive(l) => \/ Restarted
                            \/ /\ paused = accepted
                               /\ paused => loop[l].pc = "paused")

(* A loop that runs when Stop is called returns, paused or not, even if    *)
(* the ticker is started again before the loop has seen the Stop.          *)
StopEndsLoops ==
    \A l \in Loops : stopped /\ ~running /\ Alive(l) ~> ~Alive(l) \/ panicked
===============================================================================
