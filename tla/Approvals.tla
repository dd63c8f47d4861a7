----------------------------- MODULE Approvals -----------------------------
(***************************************************************************)
(* The store of approvals: a risky call leaves a request, the user answers *)
(* it, and the next identical call takes one approval and runs.  Requests  *)
(* and answers live in memory, both with an age limit and a cap that a     *)
(* sweep enforces whenever a request is made or answered.                  *)
(*                                                                         *)
(* Every method holds the lock and never awaits inside: one action each.   *)
(* Clock time is whether a record has passed its age limit.                *)
(***************************************************************************)
EXTENDS Integers, FiniteSets

CONSTANTS
    Calls,          \* calls that are identical: session, tool and parameters
    Nobody,
    MaxRequests,    \* requests made in all: a bound of the model
    MaxPending,     \* _GC_MAX_PENDING
    MaxCompleted    \* _GC_MAX_COMPLETED

ASSUME ApprovalsAssumption ==
    /\ Nobody \notin Calls
    /\ MaxRequests \in Nat /\ MaxPending \in Nat \ {0} /\ MaxCompleted \in Nat \ {0}

\* Requests, in the order they are made.
Ids == 1 .. MaxRequests

VARIABLES
    ask,        \* the call each request is for, or Nobody
    status,     \* "pending", "approved", "denied", "timeout", or "none" for a
                \* request not made yet or not in the store any more
    resolved,   \* the order in which those in _completed came there, 0 for others
    stale,      \* records past the age limit of where they are
    granted     \* history: how often the user approved each call

approvalVars == <<ask, status, resolved, stale, granted>>

Statuses == {"none", "pending", "approved", "denied", "timeout"}

ApprovalsInit ==
    /\ ask = [i \in Ids |-> Nobody]
    /\ status = [i \in Ids |-> "none"]
    /\ resolved = [i \in Ids |-> 0]
    /\ stale = {}
    /\ granted = [c \in Calls |-> 0]

In(st, kinds) == {i \in Ids : st[i] \in kinds}
Done(st) == In(st, {"approved", "denied", "timeout"})
Approved(c) == {i \in Ids : status[i] = "approved" /\ ask[i] = c}

\* The next place in the order `at'.
Place(at) ==
    CHOOSE n \in 1 .. 2 * MaxRequests + 1 :
        /\ \A i \in Ids : at[i] < n
        /\ n > 1 => \E i \in Ids : at[i] = n - 1

\* Requests that time out: too old, or with as many newer ones as may wait.
Overdue(st) ==
    LET waiting == In(st, {"pending"})
        late == waiting \cap stale
    IN late \cup {i \in waiting \ late :
                    Cardinality({j \in waiting \ late : j > i}) >= MaxPending}

\* The oldest answers, in the order `at', if there are more than may be kept.
Surplus(done, at) ==
    {i \in done :
        Cardinality({j \in done : at[j] > at[i] \/ (at[j] = at[i] /\ j > i)}) >= MaxCompleted}

\* _gc, with the records as st and `at' say.
Swept_KeepsAnswers(st, at) ==
    LET out == Overdue(st) IN
    [status |-> [i \in Ids |-> IF i \in out THEN "timeout" ELSE st[i]],
     at |-> [i \in Ids |-> IF i \in out THEN Place(at) ELSE at[i]]]

Swept(st, at) ==
    LET out == Overdue(st)
        when == [i \in Ids |-> IF i \in out THEN Place(at) ELSE at[i]]
        gone == (Done(st) \cap stale) \cup Surplus((Done(st) \ stale) \cup out, when)
    IN [status |-> [i \in Ids |-> IF i \in gone THEN "none"
                                  ELSE IF i \in out THEN "timeout" ELSE st[i]],
        at |-> [i \in Ids |-> IF i \in gone THEN 0 ELSE when[i]]]

\* The records become st and `at', and are swept.
Sweep(st, at) ==
    LET new == Swept(st, at) IN
    /\ status' = new.status
    /\ resolved' = new.at
    /\ stale' = {i \in stale : new.status[i] = status[i]}

\* create.
CreateRequest(c) ==
    \E i \in Ids :
        /\ ask[i] = Nobody /\ \A j \in Ids : ask[j] = Nobody => i <= j
        /\ ask' = [ask EXCEPT ![i] = c]
        /\ Sweep([status EXCEPT ![i] = "pending"], resolved)
        /\ UNCHANGED granted

\* approve and deny: the request is looked up before the sweep.
Approve(i) ==
    /\ status[i] = "pending"
    /\ Sweep([status EXCEPT ![i] = "approved"], [resolved EXCEPT ![i] = Place(resolved)])
    /\ granted' = [granted EXCEPT ![ask[i]] = @ + 1]
    /\ UNCHANGED ask

Deny(i) ==
    /\ status[i] = "pending"
    /\ Sweep([status EXCEPT ![i] = "denied"], [resolved EXCEPT ![i] = Place(resolved)])
    /\ UNCHANGED <<ask, granted>>

\* consume_approval: the approval that was given first is used up.
Consume_Kept(c) ==
    /\ Approved(c) # {}
    /\ UNCHANGED approvalVars

Consume(c) ==
    \E i \in Approved(c) :
        /\ \A j \in Approved(c) : resolved[i] <= resolved[j]
        /\ status' = [status EXCEPT ![i] = "none"]
        /\ resolved' = [resolved EXCEPT ![i] = 0]
        /\ stale' = stale \ {i}
        /\ UNCHANGED <<ask, granted>>

\* A record passes its age limit, those made or answered before it first.
RecordAges(i) ==
    /\ i \notin stale
    /\ \/ /\ status[i] = "pending"
          /\ \A j \in In(status, {"pending"}) : j < i => j \in stale
       \/ /\ i \in Done(status)
          /\ \A j \in Done(status) : resolved[j] < resolved[i] => j \in stale
    /\ stale' = stale \cup {i}
    /\ UNCHANGED <<ask, status, resolved, granted>>

\* The process ends.
ApprovalsLost ==
    /\ status' = [i \in Ids |-> "none"]
    /\ resolved' = [i \in Ids |-> 0]
    /\ stale' = {}
    /\ UNCHANGED <<ask, granted>>

ApprovalsTypeOK ==
    /\ ask \in [Ids -> Calls \cup {Nobody}]
    /\ status \in [Ids -> Statuses]
    /\ resolved \in [Ids -> Nat]
    /\ stale \subseteq Ids
    /\ granted \in [Calls -> Nat]
=============================================================================
