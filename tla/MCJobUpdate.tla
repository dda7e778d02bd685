------------------------------ MODULE MCJobUpdate ------------------------------
(* JobUpdate with updates that add, change and remove tasks of one another. *)
EXTENDS JobUpdate

CONSTANTS t1, t2  \* the tasks

SomeUpdates ==
    {[AddedTasks |-> {t2}, RemovedTaskIDs |-> {t1}, UpdatedTasks |-> {},
      NewTicker |-> TRUE],
     [AddedTasks |-> {}, RemovedTaskIDs |-> {t2}, UpdatedTasks |-> {t1},
      NewTicker |-> FALSE],
     [AddedTasks |-> {}, RemovedTaskIDs |-> {}, UpdatedTasks |-> {t1},
      NewTicker |-> TRUE]}
================================================================================
