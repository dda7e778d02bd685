------------------------------ MODULE MCScheduler ------------------------------
(* Instances of Scheduler for TLC. *)
EXTENDS Scheduler, TLC

AllSkip == [j \in Jobs |-> "skip"]
AllAllow == [j \in Jobs |-> "allow"]
RecoverAll == [j \in Jobs |-> "all"]
RecoverWindow == [j \in Jobs |-> "window"]

Symmetry == Permutations(Nodes) \cup Permutations(Workers)
===============================================================================
