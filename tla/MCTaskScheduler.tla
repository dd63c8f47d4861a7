-------------------------- MODULE MCTaskScheduler --------------------------
(* A small instance of TaskScheduler: three tasks, one of them urgent. *)
EXTENDS TaskScheduler

CONSTANTS a, b, c, Cancels, StoreErrors, Restarts

MCPriority == [t \in Tasks |-> IF t = c THEN 9 ELSE 5]

MCLimit ==
    [e \in Events |-> CASE e = "cancel" -> Cancels
                        [] e = "db" -> StoreErrors
                        [] e = "restart" -> Restarts]
=============================================================================
