---------------------------- MODULE GuardedEdits ----------------------------
(***************************************************************************)
(* File tools behind the guard: a risky call runs only with an approval,   *)
(* and every change of a file goes through the undo cabinet.  The user     *)
(* answers requests, undoes changes and rewinds sessions in between, and   *)
(* the process may die.                                                    *)
(***************************************************************************)
EXTENDS Approvals, UndoCabinet

CONSTANTS
    Risky,      \* calls for which the policy says APPROVE
    Limit,      \* how often each event may happen: a bound of the model
    MaxMix      \* how many kinds of them may meet: a bound of the model

Events == {"unread", "stuck", "norow", "fail", "undofail", "crash", "outside",
           "age", "expire", "undo", "checkpoint"}

\* Events of an ordinary day, which may always meet.
Ordinary == {"checkpoint", "undo"}

ASSUME GuardAssumption ==
    /\ Calls = Edits /\ Risky \subseteq Calls
    /\ Limit \in [Events -> Nat] /\ MaxMix \in Nat

VARIABLES
    ran,        \* history: how often each risky call was let through
    used        \* history: how often each event happened

vars == <<approvalVars, undoVars, ran, used>>

Init ==
    /\ ApprovalsInit /\ UndoInit
    /\ ran = [c \in Calls |-> 0]
    /\ used = [e \in Events |-> 0]

SpendAll(E) ==
    /\ \A e \in E : used[e] < Limit[e]
    /\ Cardinality(({g \in Events : used[g] > 0} \cup E) \ Ordinary) <= MaxMix
    /\ used' = [e \in Events |-> IF e \in E THEN used[e] + 1 ELSE used[e]]

Of(fault) == {fault} \ {"none"}

-----------------------------------------------------------------------------
(* Calls *)

\* The inner provider: the file tool changes the file or refuses.
Run(c) ==
    /\ ran' = IF c \in Risky THEN [ran EXCEPT ![c] = @ + 1] ELSE ran
    /\ \/ \E fault \in {"none", "unread", "stuck", "norow", "fail"} :
            /\ SpendAll(Of(fault))
            /\ Edit(c, fault)
       \/ /\ c \in Deletes /\ file[PathOf[c]] = Absent
          /\ UNCHANGED <<undoVars, used>>

\* The guard: an approval for this very call is used up and the call runs.
InvokeApproved(c) == Consume(c) /\ Run(c)

\* No approval: the call is scanned, and runs or leaves a request.
InvokeClean(c) ==
    /\ Approved(c) = {} /\ c \notin Risky
    /\ Run(c)
    /\ UNCHANGED approvalVars

\* The process dies in a call that was let through, and the approvals with it.
InvokeDies(c) ==
    /\ Approved(c) # {} \/ c \notin Risky
    /\ SpendAll({"crash"})
    /\ ran' = IF c \in Risky THEN [ran EXCEPT ![c] = @ + 1] ELSE ran
    /\ EditDies(c)
    /\ ApprovalsLost

InvokeRisky(c) ==
    /\ Approved(c) = {} /\ c \in Risky
    /\ CreateRequest(c)
    /\ UNCHANGED <<undoVars, ran, used>>

-----------------------------------------------------------------------------
(* The user and the world *)

Answer(i) ==
    /\ Approve(i) \/ Deny(i)
    /\ UNCHANGED <<undoVars, ran, used>>

RequestAges(i) ==
    /\ SpendAll({"expire"})
    /\ RecordAges(i)
    /\ UNCHANGED <<undoVars, ran>>

\* An operation of the cabinet; a process that dies in it takes the approvals along.
Cabinet(fault) ==
    /\ SpendAll({"undo"} \cup Of(fault))
    /\ IF fault = "crash" THEN ApprovalsLost ELSE UNCHANGED approvalVars
    /\ UNCHANGED ran

UndoFaults == {"none", "stuck", "undofail", "norow", "crash"}

UserUndoes(r) == \E fault \in UndoFaults : Cabinet(fault) /\ Undo(r, fault)

UserUndoesRecent ==
    \E fault \in UndoFaults : Cabinet(fault) /\ \E S \in Recents : UndoRecent(S, fault)

UserRewinds(k) == \E fault \in UndoFaults : Cabinet(fault) /\ Rewind(k, fault)

TurnStarts(s) ==
    /\ SpendAll({"checkpoint"})
    /\ Checkpoint(s)
    /\ UNCHANGED <<approvalVars, ran>>

RowGetsOld(r) ==
    /\ SpendAll({"age"})
    /\ RowAges(r)
    /\ UNCHANGED <<approvalVars, ran>>

ChangedOutside(p, x) ==
    /\ SpendAll({"outside"})
    /\ OutsideEdit(p, x)
    /\ UNCHANGED <<approvalVars, ran>>

\* The process dies between two operations.
Crash ==
    /\ SpendAll({"crash"})
    /\ ApprovalsLost
    /\ cps' = {}
    /\ UNCHANGED <<file, rows, call, state, existed, copy, left, aged, back, ran>>

Next ==
    \/ \E c \in Calls :
        InvokeApproved(c) \/ InvokeClean(c) \/ InvokeDies(c) \/ InvokeRisky(c)
    \/ \E i \in Ids : Answer(i) \/ RequestAges(i)
    \/ \E r \in Rows : UserUndoes(r) \/ RowGetsOld(r)
    \/ UserUndoesRecent
    \/ \E k \in cps : UserRewinds(k)
    \/ \E s \in Sessions : TurnStarts(s)
    \/ \E p \in Paths, x \in {Outside, Absent} : ChangedOutside(p, x)
    \/ Crash

Spec == Init /\ [][Next]_vars

-----------------------------------------------------------------------------
(* Properties *)

TypeOK ==
    /\ ApprovalsTypeOK /\ UndoTypeOK
    /\ ran \in [Calls -> Nat]
    /\ used \in [Events -> Nat]

\* A risky call runs at most as often as the user approved it, whatever expires,
\* is evicted or is lost.
ApprovalsCover ==
    \A c \in Risky : ran[c] + Cardinality(Approved(c)) <= granted[c]

\* The caps hold after every operation.
CapsHold ==
    /\ Cardinality(In(status, {"pending"})) <= MaxPending
    /\ Cardinality(Done(status)) <= MaxCompleted
=============================================================================
