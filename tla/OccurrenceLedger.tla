--------------------------- MODULE OccurrenceLedger ---------------------------
(***************************************************************************)
(* What the schedulers sharing a store promise of every occurrence,        *)
(* without nodes, goroutines or records: it is claimed at most once, its   *)
(* tasks are started at most once and only under that claim, and a claim   *)
(* or a run that is lost (a crash, a refused submission, a failing store)  *)
(* is lost for good: nobody takes it up again.                             *)
(***************************************************************************)
CONSTANT Occs

VARIABLE stage

Stages == {"free", "claimed", "running", "over", "lost"}

TypeOK == stage \in [Occs -> Stages]

Init == stage = [o \in Occs |-> "free"]

Claim(o) == stage[o] = "free" /\ stage' = [stage EXCEPT ![o] = "claimed"]

Run(o) == stage[o] = "claimed" /\ stage' = [stage EXCEPT ![o] = "running"]

(* The occurrences of S end together: one that ran is over, a mere claim is *)
(* lost.                                                                    *)
End(S) ==
    /\ \A o \in S : stage[o] \in {"claimed", "running"}
    /\ stage' = [o \in Occs |->
                    IF o \notin S THEN stage[o]
                    ELSE IF stage[o] = "running" THEN "over" ELSE "lost"]

Next ==
    \/ \E o \in Occs : Claim(o) \/ Run(o)
    \/ \E S \in SUBSET Occs : End(S)

Spec == Init /\ [][Next]_stage
===============================================================================
