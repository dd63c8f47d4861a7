---------------------------- MODULE TaskScheduler ----------------------------
(***************************************************************************)
(* The scheduler of a persistent task graph: rows in SQLite, a loop that   *)
(* starts pending rows by priority in a bounded number of slots, one       *)
(* asyncio task per execution with timeout, retry and backoff, and the     *)
(* unblocking of dependents.                                               *)
(*                                                                         *)
(* Nothing the methods await suspends them (the lock is only held between  *)
(* synchronous statements), so submit, cancel, a pass of the loop and what *)
(* follows the end of an execution are one action each.  The process may   *)
(* die between two commits of such an action.  An executor is wired, as    *)
(* the daemon does; an id is submitted once.                               *)
(***************************************************************************)
EXTENDS Integers, FiniteSets

CONSTANTS
    Tasks,
    Priority,       \* the priority of each task
    MaxConcurrent,  \* slots
    MaxRetries,     \* max_retries, the same for all tasks
    Limit,          \* how often each event may happen: a bound of the model
    MaxMix          \* how many kinds of them may meet: a bound of the model

Events == {"cancel", "db", "restart"}

ASSUME ConstantsAssumption ==
    /\ IsFiniteSet(Tasks) /\ Priority \in [Tasks -> Nat]
    /\ MaxConcurrent \in Nat \ {0} /\ MaxRetries \in Nat
    /\ Limit \in [Events -> Nat] /\ MaxMix \in Nat

VARIABLES
    status,     \* the column of each row; "none" without a row
    deps,       \* dependencies, as submitted
    retries,    \* the column
    slots,      \* _running_tasks
    exec,       \* where each execution stands
    succeeded,  \* history: tasks whose executor returned a result
    starts,     \* history: how often each task was started
    cancelled,  \* history: tasks for which cancel returned True
    raced,      \* history: those whose executor had ended by then
    torn,       \* history: tasks completed just before the process died
    used        \* history: how often each event happened

rowVars  == <<status, deps, retries>>
histVars == <<succeeded, starts, cancelled, raced, torn, used>>
vars == <<status, deps, retries, slots, exec, succeeded, starts, cancelled,
          raced, torn, used>>

Terminal == {"completed", "failed", "escalated"}
Statuses == {"none", "pending", "blocked", "running", "retrying"} \cup Terminal

\* No execution; created; in the executor; the executor has returned or raised
\* and the asyncio task has not resumed; in backoff; done, not yet cleaned up.
Phases == {"idle", "created", "working", "ok", "error", "backoff", "over"}

With(s) == {t \in Tasks : status[t] = s}

Init ==
    /\ status = [t \in Tasks |-> "none"]
    /\ deps = [t \in Tasks |-> {}]
    /\ retries = [t \in Tasks |-> 0]
    /\ slots = {}
    /\ exec = [t \in Tasks |-> "idle"]
    /\ succeeded = {} /\ cancelled = {} /\ raced = {} /\ torn = {}
    /\ starts = [t \in Tasks |-> 0]
    /\ used = [e \in Events |-> 0]

Spend(e) ==
    /\ used[e] < Limit[e]
    /\ Cardinality({g \in Events : used[g] > 0} \cup {e}) <= MaxMix
    /\ used' = [used EXCEPT ![e] = @ + 1]

-----------------------------------------------------------------------------
(* submit, cancel *)

\* _has_cycle: a walk from the new task's dependencies through the rows comes
\* back to a row.  The new task has no row yet.
HasCycle(D) ==
    \E S \in SUBSET Tasks :
        /\ S \cap D # {}
        /\ \A s \in S : status[s] # "none" /\ deps[s] \cap S # {}

DependenciesMet(D) == \A d \in D : status[d] = "completed"

Submit(t, D) ==
    /\ status[t] = "none" /\ ~HasCycle(D)
    /\ deps' = [deps EXCEPT ![t] = D]
    /\ status' = [status EXCEPT
         ![t] = IF DependenciesMet(D) THEN "pending" ELSE "blocked"]
    /\ UNCHANGED <<retries, slots, exec, histVars>>

\* Mutant: the row is marked, the execution goes on.
Cancel_RowOnly(t) ==
    /\ status[t] \notin Terminal \cup {"none"}
    /\ Spend("cancel")
    /\ cancelled' = cancelled \cup {t}
    /\ status' = [status EXCEPT ![t] = "failed"]
    /\ UNCHANGED <<deps, retries, slots, exec, succeeded, starts, raced, torn>>

\* Mutant: a status the rest of the program does not know.
Cancel_NewStatus(t) ==
    /\ status[t] \notin Terminal \cup {"none"}
    /\ Spend("cancel")
    /\ cancelled' = cancelled \cup {t}
    /\ status' = [status EXCEPT ![t] = "cancelled"]
    /\ slots' = slots \ {t}
    /\ exec' = [exec EXCEPT ![t] = "idle"]
    /\ UNCHANGED <<deps, retries, succeeded, starts, raced, torn>>

\* Before Python 3.12 asyncio.wait_for drops a cancellation that finds its
\* executor ended; an execution without a slot is not cancelled at all.
Cancel(t) ==
    LET missed == exec[t] \in {"ok", "error"} \/ (t \notin slots /\ exec[t] # "idle")
    IN  /\ status[t] \notin Terminal \cup {"none"}
        /\ Spend("cancel")
        /\ cancelled' = cancelled \cup {t}
        /\ status' = [status EXCEPT ![t] = "failed"]
        /\ slots' = slots \ {t}
        /\ exec' = [exec EXCEPT ![t] = IF missed THEN @ ELSE "idle"]
        /\ raced' = IF missed THEN raced \cup {t} ELSE raced
        /\ UNCHANGED <<deps, retries, succeeded, starts, torn>>

-----------------------------------------------------------------------------
(* _schedule_loop *)

Cleaned == {t \in slots : exec[t] # "over"}
Smaller(m, n) == IF m < n THEN m ELSE n

\* Rows of higher priority come first.  (Of equal ones the newest: left open.)
Chosen(S, free) ==
    /\ Cardinality(S) = Smaller(free, Cardinality(With("pending")))
    /\ \A t \in S, u \in With("pending") \ S : Priority[t] >= Priority[u]

\* Mutant: one task more than there are slots.
Pass_OneTooMany ==
    \E S \in SUBSET With("pending") :
        /\ Chosen(S, (MaxConcurrent + 1) - Cardinality(Cleaned))
        /\ slots' = Cleaned \cup S
        /\ status' = [t \in Tasks |-> IF t \in S THEN "running" ELSE status[t]]
        /\ exec' = [t \in Tasks |-> IF t \in S THEN "created"
                                   ELSE IF t \in slots \ Cleaned THEN "idle"
                                   ELSE exec[t]]
        /\ starts' = [t \in Tasks |-> IF t \in S THEN starts[t] + 1 ELSE starts[t]]
        /\ UNCHANGED <<deps, retries, succeeded, cancelled, raced, torn, used>>

\* A pass: finished executions give up their slots, the free slots are filled.
\* The list is cut at twice the slots, more than can be started.
Pass ==
    \E S \in SUBSET With("pending") :
        /\ Chosen(S, MaxConcurrent - Cardinality(Cleaned))
        /\ slots' = Cleaned \cup S
        /\ status' = [t \in Tasks |-> IF t \in S THEN "running" ELSE status[t]]
        /\ exec' = [t \in Tasks |-> IF t \in S THEN "created"
                                   ELSE IF t \in slots \ Cleaned THEN "idle"
                                   ELSE exec[t]]
        /\ starts' = [t \in Tasks |-> IF t \in S THEN starts[t] + 1 ELSE starts[t]]
        /\ UNCHANGED <<deps, retries, succeeded, cancelled, raced, torn, used>>

-----------------------------------------------------------------------------
(* _execute_with_timeout, _on_execution_failed, _notify_dependents *)

Move(t, p) == exec' = [exec EXCEPT ![t] = p]

\* _update_status of t, and of dependents that become pending.
Mark(t, s, U) ==
    status' = [u \in Tasks |-> IF u = t THEN s
                              ELSE IF u \in U THEN "pending" ELSE status[u]]

\* The asyncio task ends.
Over(t) == Move(t, IF t \in slots THEN "over" ELSE "idle")

Begin(t) ==
    /\ exec[t] = "created" /\ Move(t, "working")
    /\ UNCHANGED <<rowVars, slots, histVars>>

ExecutorReturns(t) ==
    /\ exec[t] = "working" /\ Move(t, "ok")
    /\ succeeded' = succeeded \cup {t}
    /\ UNCHANGED <<rowVars, slots, starts, cancelled, raced, torn, used>>

ExecutorRaises(t) ==
    /\ exec[t] = "working" /\ Move(t, "error")
    /\ UNCHANGED <<rowVars, slots, histVars>>

\* Mutant: a dependent is unblocked by any of its dependencies.
Unblocked_Any(t) == {u \in With("blocked") : t \in deps[u]}

\* Dependents of t that are unblocked when t is completed.
Unblocked(t) ==
    {u \in With("blocked") : t \in deps[u] /\ DependenciesMet(deps[u] \ {t})}

\* Mutant: dependents are not notified.
Completes_Silently(t) ==
    /\ exec[t] = "ok" /\ Over(t)
    /\ status' = [status EXCEPT ![t] = "completed"]
    /\ UNCHANGED <<deps, retries, slots, histVars>>

Completes(t) ==
    /\ exec[t] = "ok" /\ Over(t)
    /\ Mark(t, "completed", Unblocked(t))
    /\ UNCHANGED <<deps, retries, slots, histVars>>

\* Mutant: one retry more than allowed.
Failed_OneMore(t, U) ==
    \/ /\ retries[t] <= MaxRetries
       /\ Mark(t, "retrying", U)
       /\ retries' = [retries EXCEPT ![t] = @ + 1]
       /\ Move(t, "backoff")
    \/ /\ retries[t] > MaxRetries
       /\ Mark(t, "escalated", U)
       /\ Over(t) /\ UNCHANGED retries

\* The failure of an execution: the row of t is put in backoff, or escalated
\* when the retries are spent.  Dependents are told, but an escalated task
\* unblocks none.  U: dependents unblocked just before.
Failed(t, U) ==
    \/ /\ retries[t] < MaxRetries
       /\ Mark(t, "retrying", U)
       /\ retries' = [retries EXCEPT ![t] = @ + 1]
       /\ Move(t, "backoff")
    \/ /\ retries[t] >= MaxRetries
       /\ Mark(t, "escalated", U)
       /\ Over(t) /\ UNCHANGED retries

\* The executor raised, or the timeout has cancelled it.
Fails(t) ==
    /\ exec[t] = "error" /\ Failed(t, {})
    /\ UNCHANGED <<deps, slots, histVars>>

TimesOut(t) ==
    /\ exec[t] = "working" /\ Failed(t, {})
    /\ UNCHANGED <<deps, slots, histVars>>

\* SQLite raises while the result is stored or the dependents are notified, and
\* the handler of the executor's errors takes it for a failed execution.
StoreRaises(t, U) ==
    /\ exec[t] = "ok" /\ Spend("db")
    /\ U \subseteq Unblocked(t) /\ Failed(t, U)
    /\ UNCHANGED <<deps, slots, succeeded, starts, cancelled, raced, torn>>

\* Mutant: after the backoff the row is left as it is.
BackoffEnds_Forgets(t) ==
    /\ exec[t] = "backoff" /\ Over(t)
    /\ UNCHANGED <<status, deps, retries, slots, histVars>>

BackoffEnds(t) ==
    /\ exec[t] = "backoff" /\ Over(t)
    /\ status' = [status EXCEPT ![t] = "pending"]
    /\ UNCHANGED <<deps, retries, slots, histVars>>

-----------------------------------------------------------------------------
\* stop, or a crash, and a new scheduler on the same file.  A crash may come
\* between the commit of a result and the notification of the dependents.
Restart ==
    /\ Spend("restart")
    /\ slots' = {} /\ exec' = [t \in Tasks |-> "idle"]
    /\ \/ UNCHANGED <<status, torn>>
       \/ \E t \in Tasks :
            /\ exec[t] = "ok"
            /\ status' = [status EXCEPT ![t] = "completed"]
            /\ torn' = torn \cup {t}
    /\ UNCHANGED <<deps, retries, succeeded, starts, cancelled, raced>>

-----------------------------------------------------------------------------
Ends(t) == Completes(t) \/ Fails(t) \/ BackoffEnds(t)

Next ==
    \/ Pass \/ Restart
    \/ \E t \in Tasks :
         \/ \E D \in SUBSET Tasks : Submit(t, D)
         \/ \E U \in SUBSET Tasks : StoreRaises(t, U)
         \/ Cancel(t) \/ Begin(t) \/ ExecutorReturns(t) \/ ExecutorRaises(t)
         \/ TimesOut(t) \/ Ends(t)

Spec == Init /\ [][Next]_vars

\* The loop makes a pass every second, asyncio runs what is ready, timeouts and
\* backoffs elapse.  Nothing obliges an executor to end.
Fairness ==
    /\ WF_vars(Pass)
    /\ \A t \in Tasks : WF_vars(Begin(t)) /\ WF_vars(TimesOut(t)) /\ WF_vars(Ends(t))

FairSpec == Spec /\ Fairness

-----------------------------------------------------------------------------
(* Properties *)

TypeOK ==
    /\ status \in [Tasks -> Statuses]
    /\ deps \in [Tasks -> SUBSET Tasks]
    /\ retries \in [Tasks -> Nat] /\ starts \in [Tasks -> Nat]
    /\ slots \subseteq Tasks /\ exec \in [Tasks -> Phases]
    /\ succeeded \subseteq Tasks /\ cancelled \subseteq Tasks
    /\ raced \subseteq Tasks /\ torn \subseteq Tasks
    /\ used \in [Events -> Nat]

\* A task is only executed, and only completed, after the executor has returned
\* a result for each of its dependencies (task_scheduler.py:161-179, 445-456).
RunsAfterDeps ==
    \A t \in Tasks :
        exec[t] # "idle" \/ status[t] \in {"pending", "running", "retrying", "completed"}
        => deps[t] \subseteq succeeded

\* A blocked row waits for something: no dependency completes without its
\* dependents hearing of it, except when the process dies in between.
BlockedHasReason ==
    \A t \in With("blocked") :
        \/ \E d \in deps[t] : status[d] # "completed"
        \/ deps[t] \cap torn # {}

\* "cancelled by user" (task_scheduler.py:192): a cancelled task stays failed
\* and is not executing, unless its executor had just ended.
CancelHolds ==
    \A t \in cancelled \ raced : status[t] = "failed" /\ exec[t] = "idle"

\* Every execution has one of the max_concurrent slots, backoffs included, and
\* no slot is held by a task that has none.
SlotsCoverRuns ==
    /\ Cardinality(slots) <= MaxConcurrent
    /\ slots \subseteq {t \in Tasks : exec[t] # "idle"}
    /\ {t \in Tasks : exec[t] # "idle"} \subseteq slots \cup raced

\* A task is given up after exactly max_retries + 1 executions and never
\* executed more often, whatever failed.
EscalatedAfterRetries ==
    \A t \in Tasks :
        /\ starts[t] <= MaxRetries + 1
        /\ status[t] = "escalated" => starts[t] = MaxRetries + 1

\* What may run is run to an end, if the process lives: retries, timeouts and
\* slots held by others do not strand a task.
ReadySettles ==
    \A t \in Tasks :
        status[t] \in {"pending", "running", "retrying"}
        ~> status[t] \in Terminal \/ used["restart"] > 0

\* "dependency cycle detected" (task_scheduler.py:164-166): no set of accepted
\* tasks in which each waits for another.
Acyclic ==
    \A S \in SUBSET Tasks :
        S # {} => \E s \in S : status[s] = "none" \/ deps[s] \cap S = {}
=============================================================================
