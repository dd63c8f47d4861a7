----------------------------- MODULE MCEventBus -----------------------------
(* A small instance of EventBus: the events and their kinds by name. *)
EXTENDS EventBus, TLC

CONSTANTS
    c1, c2, d1,        \* chunks of two kinds
    t1,                \* an ordinary event
    b1,                \* an imported event
    chunk, thinking,   \* LLM_CHUNK, LLM_THINKING_CHUNK
    Crashes, Failures, Cancels, Maintenances, Closes

MCKindOf ==
    [e \in Events |-> CASE e \in {c1, c2} -> chunk
                        [] e = d1 -> thinking
                        [] e = b1 -> Bulk
                        [] OTHER -> Low]

MCLimit ==
    [f \in Faults |-> CASE f = "crash" -> Crashes
                        [] f = "fail" -> Failures
                        [] f = "cancel" -> Cancels
                        [] f = "maint" -> Maintenances
                        [] f = "close" -> Closes]

\* The publishers differ by name only.
Symmetry == Permutations(Publishers)
=============================================================================
