------------------------------ MODULE MCExecutor ------------------------------
(* Instances of Executor for TLC. *)
EXTENDS Executor, TLC

CONSTANTS a, b

InOrder == <<a, b>>
None == [strategy |-> Inherit, retries |-> Inherit]
Own(strategy, retries) == [strategy |-> strategy, retries |-> retries]

(* The first task has an override or none, the second never has one. *)
Of(modes, strategies, defaults, firsts) ==
    {[mode |-> m, strategy |-> s, defaults |-> d,
      tasks |-> [t \in Tasks |-> IF t = a THEN f ELSE None]] :
        m \in modes, s \in strategies, d \in defaults, f \in firsts}

(* Retries and none, every way to inherit or to override a strategy. *)
Everything ==
    Of({"Sequential", "Parallel"}, {"Fail-Fast", "Continue"}, {Own(Inherit, 1)},
       {None, Own("Continue", Inherit), Own("Fail-Fast", 0)})
    \cup Of({"Sequential", "Parallel"}, {"Retry_On_Failure"},
            {None, Own("Fail-Fast", 1)}, {None})

Parallel == Of({"Parallel"}, {"Fail-Fast"}, {Own(Inherit, 1)}, {None})
===============================================================================
