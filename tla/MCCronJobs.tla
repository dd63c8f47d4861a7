----------------------------- MODULE MCCronJobs -----------------------------
(* A small instance of CronJobs. *)
EXTENDS CronJobs

CONSTANTS j1, j2, Creates, Edits, Elapses, Raises, Saves, Unread, Crashes, Stops

MCLimit ==
    [e \in Events |-> CASE e = "create" -> Creates
                        [] e \in {"remove", "pause", "resume", "trigger"} -> Edits
                        [] e = "elapse" -> Elapses
                        [] e = "raise" -> Raises
                        [] e = "save" -> Saves
                        [] e = "unread" -> Unread
                        [] e = "crash" -> Crashes
                        [] e = "stop" -> Stops]
=============================================================================
