---------------------------- MODULE MCKernelPool ----------------------------
(* A small instance of KernelPool. *)
EXTENDS KernelPool

CONSTANTS c1, c2, c3, a, b, c, Resets, Cancels, Hangs, Errors, Deaths, Unready, Lives

\* The second call is in the session of the first or in another.
MCAsks ==
    [x \in Calls |-> IF x = c1 THEN {a} ELSE IF x = c2 THEN {a, b} ELSE {c}]

MCLimit ==
    [e \in Events |-> CASE e = "reset" -> Resets
                        [] e = "cancel" -> Cancels
                        [] e = "hang" -> Hangs
                        [] e = "error" -> Errors
                        [] e = "die" -> Deaths
                        [] e = "unready" -> Unready
                        [] e = "life" -> Lives]
=============================================================================
