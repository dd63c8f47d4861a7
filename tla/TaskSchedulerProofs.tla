------------------------ MODULE TaskSchedulerProofs ------------------------
(* Proofs of the safety properties of TaskScheduler, for all constants. *)
EXTENDS TaskScheduler, TLAPS, FiniteSetTheorems

\* Counting an event keeps the counters typed.
LEMMA SpendType ==
    ASSUME used \in [Events -> Nat], NEW e \in Events, Spend(e)
    PROVE  used' \in [Events -> Nat]
  BY DEF Spend

\* Every step keeps the types.
LEMMA TypeStep == TypeOK /\ [Next]_vars => TypeOK'
  <1> SUFFICES ASSUME TypeOK, [Next]_vars PROVE TypeOK'
    OBVIOUS
  <1> USE DEF TypeOK, With, Statuses, Phases, Terminal
  <1>1. ASSUME Pass
        PROVE  TypeOK'
    BY <1>1 DEF Pass, Cleaned
  <1>2. ASSUME Restart
        PROVE  TypeOK'
    BY <1>2, SpendType DEF Restart, Events
  <1>3. ASSUME NEW t \in Tasks, NEW D \in SUBSET Tasks, Submit(t, D)
        PROVE  TypeOK'
    BY <1>3 DEF Submit, histVars
  <1>4. ASSUME NEW t \in Tasks, NEW U \in SUBSET Tasks, StoreRaises(t, U)
        PROVE  TypeOK'
    BY <1>4, SpendType DEF StoreRaises, Failed, Mark, Move, Over, Events
  <1>5. ASSUME NEW t \in Tasks, Cancel(t)
        PROVE  TypeOK'
    BY <1>5, SpendType DEF Cancel, Events
  <1>6. ASSUME NEW t \in Tasks, Begin(t)
        PROVE  TypeOK'
    BY <1>6 DEF Begin, Move, rowVars, histVars
  <1>7. ASSUME NEW t \in Tasks, ExecutorReturns(t)
        PROVE  TypeOK'
    BY <1>7 DEF ExecutorReturns, Move, rowVars
  <1>8. ASSUME NEW t \in Tasks, ExecutorRaises(t)
        PROVE  TypeOK'
    BY <1>8 DEF ExecutorRaises, Move, rowVars, histVars
  <1>9. ASSUME NEW t \in Tasks, TimesOut(t)
        PROVE  TypeOK'
    BY <1>9 DEF TimesOut, Failed, Mark, Move, Over, histVars
  <1>10. ASSUME NEW t \in Tasks, Completes(t)
        PROVE  TypeOK'
    BY <1>10 DEF Completes, Mark, Move, Over, histVars
  <1>11. ASSUME NEW t \in Tasks, Fails(t)
        PROVE  TypeOK'
    BY <1>11 DEF Fails, Failed, Mark, Move, Over, histVars
  <1>12. ASSUME NEW t \in Tasks, BackoffEnds(t)
        PROVE  TypeOK'
    BY <1>12 DEF BackoffEnds, Move, Over, histVars
  <1>13. CASE UNCHANGED vars
    BY <1>13 DEF vars
  <1> QED BY <1>1, <1>2, <1>3, <1>4, <1>5, <1>6, <1>7, <1>8, <1>9, <1>10, <1>11, <1>12, <1>13 DEF Next, Ends

\* TypeOK: each variable keeps its type.
THEOREM TypeCorrect == Spec => []TypeOK
  <1>1. Init => TypeOK
    BY DEF Init, TypeOK, Statuses, Phases
  <1> QED BY <1>1, TypeStep, PTL DEF Spec

(***************************************************************************)
(* Dependencies                                                            *)
(***************************************************************************)

\* Completed rows and executions that ended well are in succeeded, and a task
\* without a row has no execution.
SuccessInv ==
    \A t \in Tasks :
        /\ status[t] = "completed" \/ exec[t] = "ok" => t \in succeeded
        /\ status[t] = "none" => exec[t] = "idle"

DepInv == TypeOK /\ SuccessInv /\ RunsAfterDeps

\* What unblocks a task are results of all its dependencies.
LEMMA UnblockedReady ==
    ASSUME DepInv, NEW t \in Tasks, exec[t] = "ok", NEW u \in Unblocked(t)
    PROVE  u \in Tasks /\ deps[u] \subseteq succeeded
  BY DEF DepInv, TypeOK, SuccessInv, Unblocked, With, DependenciesMet

\* Every step keeps the invariant of the dependencies.
LEMMA DepStep == DepInv /\ [Next]_vars => SuccessInv'
  <1> SUFFICES ASSUME DepInv, [Next]_vars PROVE SuccessInv'
    OBVIOUS
  <1> USE DEF SuccessInv, DepInv, TypeOK
  <1>1. ASSUME Pass
        PROVE  SuccessInv'
    BY <1>1 DEF Pass, Cleaned, With
  <1>2. ASSUME Restart
        PROVE  SuccessInv'
    BY <1>2 DEF Restart
  <1>3. ASSUME NEW t \in Tasks, NEW D \in SUBSET Tasks, Submit(t, D)
        PROVE  SuccessInv'
    BY <1>3 DEF Submit, histVars
  <1>4. ASSUME NEW t \in Tasks, NEW U \in SUBSET Tasks, StoreRaises(t, U)
        PROVE  SuccessInv'
    BY <1>4 DEF StoreRaises, Failed, Mark, Move, Over, Unblocked, With
  <1>5. ASSUME NEW t \in Tasks, Cancel(t)
        PROVE  SuccessInv'
    BY <1>5 DEF Cancel
  <1>6. ASSUME NEW t \in Tasks, Begin(t)
        PROVE  SuccessInv'
    BY <1>6 DEF Begin, Move, rowVars, histVars
  <1>7. ASSUME NEW t \in Tasks, ExecutorReturns(t)
        PROVE  SuccessInv'
    BY <1>7 DEF ExecutorReturns, Move, rowVars
  <1>8. ASSUME NEW t \in Tasks, ExecutorRaises(t)
        PROVE  SuccessInv'
    BY <1>8 DEF ExecutorRaises, Move, rowVars, histVars
  <1>9. ASSUME NEW t \in Tasks, TimesOut(t)
        PROVE  SuccessInv'
    BY <1>9 DEF TimesOut, Failed, Mark, Move, Over, histVars
  <1>10. ASSUME NEW t \in Tasks, Completes(t)
        PROVE  SuccessInv'
    BY <1>10 DEF Completes, Mark, Move, Over, histVars, Unblocked, With
  <1>11. ASSUME NEW t \in Tasks, Fails(t)
        PROVE  SuccessInv'
    BY <1>11 DEF Fails, Failed, Mark, Move, Over, histVars
  <1>12. ASSUME NEW t \in Tasks, BackoffEnds(t)
        PROVE  SuccessInv'
    BY <1>12 DEF BackoffEnds, Move, Over, histVars
  <1>13. CASE UNCHANGED vars
    BY <1>13 DEF vars
  <1> QED BY <1>1, <1>2, <1>3, <1>4, <1>5, <1>6, <1>7, <1>8, <1>9, <1>10, <1>11, <1>12, <1>13 DEF Next, Ends

\* Nothing is started, nor completed, before its dependencies have succeeded.
LEMMA AfterDepsStep == DepInv /\ [Next]_vars => RunsAfterDeps'
  <1> SUFFICES ASSUME DepInv, [Next]_vars PROVE RunsAfterDeps'
    OBVIOUS
  <1> USE DEF SuccessInv, DepInv, TypeOK, RunsAfterDeps
  <1>1. ASSUME Pass
        PROVE  RunsAfterDeps'
    BY <1>1 DEF Pass, Cleaned, With
  <1>2. ASSUME Restart
        PROVE  RunsAfterDeps'
    BY <1>2 DEF Restart
  <1>3. ASSUME NEW t \in Tasks, NEW D \in SUBSET Tasks, Submit(t, D)
        PROVE  RunsAfterDeps'
    BY <1>3 DEF Submit, histVars, DependenciesMet
  <1>4. ASSUME NEW t \in Tasks, NEW U \in SUBSET Tasks, StoreRaises(t, U)
        PROVE  RunsAfterDeps'
    BY <1>4, UnblockedReady DEF StoreRaises, Failed, Mark, Move, Over
  <1>5. ASSUME NEW t \in Tasks, Cancel(t)
        PROVE  RunsAfterDeps'
    BY <1>5 DEF Cancel
  <1>6. ASSUME NEW t \in Tasks, Begin(t)
        PROVE  RunsAfterDeps'
    BY <1>6 DEF Begin, Move, rowVars, histVars
  <1>7. ASSUME NEW t \in Tasks, ExecutorReturns(t)
        PROVE  RunsAfterDeps'
    BY <1>7 DEF ExecutorReturns, Move, rowVars
  <1>8. ASSUME NEW t \in Tasks, ExecutorRaises(t)
        PROVE  RunsAfterDeps'
    BY <1>8 DEF ExecutorRaises, Move, rowVars, histVars
  <1>9. ASSUME NEW t \in Tasks, TimesOut(t)
        PROVE  RunsAfterDeps'
    BY <1>9 DEF TimesOut, Failed, Mark, Move, Over, histVars
  <1>10. ASSUME NEW t \in Tasks, Completes(t)
        PROVE  RunsAfterDeps'
    BY <1>10, UnblockedReady DEF Completes, Mark, Move, Over, histVars
  <1>11. ASSUME NEW t \in Tasks, Fails(t)
        PROVE  RunsAfterDeps'
    BY <1>11 DEF Fails, Failed, Mark, Move, Over, histVars
  <1>12. ASSUME NEW t \in Tasks, BackoffEnds(t)
        PROVE  RunsAfterDeps'
    BY <1>12 DEF BackoffEnds, Move, Over, histVars
  <1>13. CASE UNCHANGED vars
    BY <1>13 DEF vars
  <1> QED BY <1>1, <1>2, <1>3, <1>4, <1>5, <1>6, <1>7, <1>8, <1>9, <1>10, <1>11, <1>12, <1>13 DEF Next, Ends

\* RunsAfterDeps: a task only runs, or is completed, after the executor has
\* returned a result for each of its dependencies.
THEOREM DependenciesFirst == Spec => []RunsAfterDeps
  <1>1. Init => DepInv
    BY DEF Init, DepInv, TypeOK, Statuses, Phases, SuccessInv, RunsAfterDeps
  <1>2. DepInv /\ [Next]_vars => DepInv'
    BY TypeStep, DepStep, AfterDepsStep DEF DepInv
  <1>3. DepInv => RunsAfterDeps
    BY DEF DepInv
  <1> QED BY <1>1, <1>2, <1>3, PTL DEF Spec

(***************************************************************************)
(* Blocked rows                                                            *)
(***************************************************************************)

\* No step leaves a row blocked on completed dependencies, unless it is torn.
LEMMA BlockedStep == TypeOK /\ BlockedHasReason /\ [Next]_vars => BlockedHasReason'
  <1> SUFFICES ASSUME TypeOK, BlockedHasReason, [Next]_vars PROVE BlockedHasReason'
    OBVIOUS
  <1> USE DEF TypeOK, BlockedHasReason, With
  <1>1. ASSUME Pass
        PROVE  BlockedHasReason'
    <2>1. PICK S \in SUBSET With("pending") :
              /\ status' = [t \in Tasks |-> IF t \in S THEN "running" ELSE status[t]]
              /\ UNCHANGED <<deps, torn>>
      BY <1>1 DEF Pass
    <2>2. \A t \in Tasks : /\ status'[t] = "blocked" <=> status[t] = "blocked"
                           /\ status'[t] = "completed" <=> status[t] = "completed"
      BY <2>1
    <2> QED BY <2>1, <2>2
  <1>2. ASSUME Restart
        PROVE  BlockedHasReason'
    BY <1>2 DEF Restart
  <1>3. ASSUME NEW t \in Tasks, NEW D \in SUBSET Tasks, Submit(t, D)
        PROVE  BlockedHasReason'
    BY <1>3 DEF Submit, histVars, DependenciesMet
  <1>4. ASSUME NEW t \in Tasks, NEW U \in SUBSET Tasks, StoreRaises(t, U)
        PROVE  BlockedHasReason'
    BY <1>4 DEF StoreRaises, Failed, Mark, Move, Over, Unblocked
  <1>5. ASSUME NEW t \in Tasks, Cancel(t)
        PROVE  BlockedHasReason'
    BY <1>5 DEF Cancel
  <1>6. ASSUME NEW t \in Tasks, Begin(t)
        PROVE  BlockedHasReason'
    BY <1>6 DEF Begin, Move, rowVars, histVars
  <1>7. ASSUME NEW t \in Tasks, ExecutorReturns(t)
        PROVE  BlockedHasReason'
    BY <1>7 DEF ExecutorReturns, Move, rowVars
  <1>8. ASSUME NEW t \in Tasks, ExecutorRaises(t)
        PROVE  BlockedHasReason'
    BY <1>8 DEF ExecutorRaises, Move, rowVars, histVars
  <1>9. ASSUME NEW t \in Tasks, TimesOut(t)
        PROVE  BlockedHasReason'
    BY <1>9 DEF TimesOut, Failed, Mark, Move, Over, histVars
  <1>10. ASSUME NEW t \in Tasks, Completes(t)
        PROVE  BlockedHasReason'
    <2>1. SUFFICES ASSUME NEW u \in Tasks, status'[u] = "blocked"
                   PROVE  \/ \E d \in deps'[u] : status'[d] # "completed"
                          \/ deps'[u] \cap torn' # {}
      BY DEF BlockedHasReason, With
    <2>2. /\ u # t /\ u \notin Unblocked(t) /\ status[u] = "blocked"
          /\ deps' = deps /\ torn' = torn
      BY <1>10, <2>1 DEF Completes, Mark, histVars
    <2>3. \/ \E d \in deps[u] : d # t /\ status[d] # "completed"
          \/ deps[u] \cap torn # {}
      BY <1>10, <2>2 DEF Unblocked, DependenciesMet, BlockedHasReason, Completes
    <2>4. \A d \in Tasks : d # t /\ status[d] # "completed" => status'[d] # "completed"
      BY <1>10 DEF Completes, Mark
    <2> QED BY <2>2, <2>3, <2>4
  <1>11. ASSUME NEW t \in Tasks, Fails(t)
        PROVE  BlockedHasReason'
    BY <1>11 DEF Fails, Failed, Mark, Move, Over, histVars
  <1>12. ASSUME NEW t \in Tasks, BackoffEnds(t)
        PROVE  BlockedHasReason'
    BY <1>12 DEF BackoffEnds, Move, Over, histVars
  <1>13. CASE UNCHANGED vars
    BY <1>13 DEF vars
  <1> QED BY <1>1, <1>2, <1>3, <1>4, <1>5, <1>6, <1>7, <1>8, <1>9, <1>10, <1>11, <1>12, <1>13 DEF Next, Ends

\* BlockedHasReason: a blocked row waits for a dependency that is not completed,
\* or for one whose completion was torn by a crash.
THEOREM NeverForgotten == Spec => []BlockedHasReason
  <1>1. Init => TypeOK /\ BlockedHasReason
    BY DEF Init, TypeOK, Statuses, Phases, BlockedHasReason, With
  <1>2. TypeOK /\ BlockedHasReason /\ [Next]_vars => TypeOK' /\ BlockedHasReason'
    BY TypeStep, BlockedStep
  <1> QED BY <1>1, <1>2, PTL DEF Spec

(***************************************************************************)
(* Cancellation                                                            *)
(***************************************************************************)

\* No step revives a cancelled task.
LEMMA CancelStep == TypeOK /\ CancelHolds /\ [Next]_vars => CancelHolds'
  <1> SUFFICES ASSUME TypeOK, CancelHolds, [Next]_vars PROVE CancelHolds'
    OBVIOUS
  <1> USE DEF TypeOK, CancelHolds
  <1>1. ASSUME Pass
        PROVE  CancelHolds'
    BY <1>1 DEF Pass, Cleaned, With
  <1>2. ASSUME Restart
        PROVE  CancelHolds'
    BY <1>2 DEF Restart
  <1>3. ASSUME NEW t \in Tasks, NEW D \in SUBSET Tasks, Submit(t, D)
        PROVE  CancelHolds'
    BY <1>3 DEF Submit, histVars
  <1>4. ASSUME NEW t \in Tasks, NEW U \in SUBSET Tasks, StoreRaises(t, U)
        PROVE  CancelHolds'
    <2>1. /\ exec[t] = "ok" /\ cancelled' = cancelled /\ raced' = raced
          /\ \A u \in U : u \in Tasks /\ status[u] = "blocked"
      BY <1>4 DEF StoreRaises, Unblocked, With
    <2>2. \A u \in Tasks : u # t => exec'[u] = exec[u]
      BY <1>4 DEF StoreRaises, Failed, Move, Over
    <2>3. \A u \in Tasks : u # t /\ u \notin U => status'[u] = status[u]
      BY <1>4 DEF StoreRaises, Failed, Mark
    <2> QED BY <2>1, <2>2, <2>3
  <1>5. ASSUME NEW t \in Tasks, Cancel(t)
        PROVE  CancelHolds'
    BY <1>5 DEF Cancel, Terminal
  <1>6. ASSUME NEW t \in Tasks, Begin(t)
        PROVE  CancelHolds'
    BY <1>6 DEF Begin, Move, rowVars, histVars
  <1>7. ASSUME NEW t \in Tasks, ExecutorReturns(t)
        PROVE  CancelHolds'
    BY <1>7 DEF ExecutorReturns, Move, rowVars
  <1>8. ASSUME NEW t \in Tasks, ExecutorRaises(t)
        PROVE  CancelHolds'
    BY <1>8 DEF ExecutorRaises, Move, rowVars, histVars
  <1>9. ASSUME NEW t \in Tasks, TimesOut(t)
        PROVE  CancelHolds'
    BY <1>9 DEF TimesOut, Failed, Mark, Move, Over, histVars
  <1>10. ASSUME NEW t \in Tasks, Completes(t)
        PROVE  CancelHolds'
    BY <1>10 DEF Completes, Mark, Move, Over, histVars, Unblocked, With
  <1>11. ASSUME NEW t \in Tasks, Fails(t)
        PROVE  CancelHolds'
    BY <1>11 DEF Fails, Failed, Mark, Move, Over, histVars
  <1>12. ASSUME NEW t \in Tasks, BackoffEnds(t)
        PROVE  CancelHolds'
    BY <1>12 DEF BackoffEnds, Move, Over, histVars
  <1>13. CASE UNCHANGED vars
    BY <1>13 DEF vars
  <1> QED BY <1>1, <1>2, <1>3, <1>4, <1>5, <1>6, <1>7, <1>8, <1>9, <1>10, <1>11, <1>12, <1>13 DEF Next, Ends

\* CancelHolds: a cancelled task stays failed and does not execute, unless its
\* executor had ended when the cancel came.
THEOREM CancelStands == Spec => []CancelHolds
  <1>1. Init => TypeOK /\ CancelHolds
    BY DEF Init, TypeOK, Statuses, Phases, CancelHolds
  <1>2. TypeOK /\ CancelHolds /\ [Next]_vars => TypeOK' /\ CancelHolds'
    BY TypeStep, CancelStep
  <1> QED BY <1>1, <1>2, PTL DEF Spec

(***************************************************************************)
(* Slots                                                                   *)
(***************************************************************************)

\* No execution without a slot, except those a cancel has missed; no slot without
\* an execution.
SlotInv ==
    /\ slots \subseteq {t \in Tasks : exec[t] # "idle"}
    /\ {t \in Tasks : exec[t] # "idle"} \subseteq slots \cup raced

\* Every step pairs slots and executions.
LEMMA SlotStep == TypeOK /\ SlotInv /\ [Next]_vars => SlotInv'
  <1> SUFFICES ASSUME TypeOK, SlotInv, [Next]_vars PROVE SlotInv'
    OBVIOUS
  <1> USE DEF TypeOK, SlotInv
  <1>1. ASSUME Pass
        PROVE  SlotInv'
    BY <1>1 DEF Pass, Cleaned, With
  <1>2. ASSUME Restart
        PROVE  SlotInv'
    BY <1>2 DEF Restart
  <1>3. ASSUME NEW t \in Tasks, NEW D \in SUBSET Tasks, Submit(t, D)
        PROVE  SlotInv'
    BY <1>3 DEF Submit, histVars
  <1>4. ASSUME NEW t \in Tasks, NEW U \in SUBSET Tasks, StoreRaises(t, U)
        PROVE  SlotInv'
    BY <1>4 DEF StoreRaises, Failed, Mark, Move, Over
  <1>5. ASSUME NEW t \in Tasks, Cancel(t)
        PROVE  SlotInv'
    BY <1>5 DEF Cancel
  <1>6. ASSUME NEW t \in Tasks, Begin(t)
        PROVE  SlotInv'
    BY <1>6 DEF Begin, Move, rowVars, histVars
  <1>7. ASSUME NEW t \in Tasks, ExecutorReturns(t)
        PROVE  SlotInv'
    BY <1>7 DEF ExecutorReturns, Move, rowVars
  <1>8. ASSUME NEW t \in Tasks, ExecutorRaises(t)
        PROVE  SlotInv'
    BY <1>8 DEF ExecutorRaises, Move, rowVars, histVars
  <1>9. ASSUME NEW t \in Tasks, TimesOut(t)
        PROVE  SlotInv'
    BY <1>9 DEF TimesOut, Failed, Mark, Move, Over, histVars
  <1>10. ASSUME NEW t \in Tasks, Completes(t)
        PROVE  SlotInv'
    BY <1>10 DEF Completes, Mark, Move, Over, histVars
  <1>11. ASSUME NEW t \in Tasks, Fails(t)
        PROVE  SlotInv'
    BY <1>11 DEF Fails, Failed, Mark, Move, Over, histVars
  <1>12. ASSUME NEW t \in Tasks, BackoffEnds(t)
        PROVE  SlotInv'
    BY <1>12 DEF BackoffEnds, Move, Over, histVars
  <1>13. CASE UNCHANGED vars
    BY <1>13 DEF vars
  <1> QED BY <1>1, <1>2, <1>3, <1>4, <1>5, <1>6, <1>7, <1>8, <1>9, <1>10, <1>11, <1>12, <1>13 DEF Next, Ends

\* A pass fills the free slots and no more.
LEMMA PassBound ==
    ASSUME TypeOK, Cardinality(slots) <= MaxConcurrent, Pass
    PROVE  Cardinality(slots') <= MaxConcurrent
  <1>1. PICK S \in SUBSET With("pending") :
           Chosen(S, MaxConcurrent - Cardinality(Cleaned)) /\ slots' = Cleaned \cup S
    BY DEF Pass
  <1>2. Cleaned \subseteq slots /\ IsFiniteSet(slots) /\ IsFiniteSet(Cleaned)
    BY ConstantsAssumption, FS_Subset DEF TypeOK, Cleaned
  <1>3. IsFiniteSet(S) /\ IsFiniteSet(With("pending"))
    BY ConstantsAssumption, FS_Subset DEF With
  <1>4. /\ Cardinality(Cleaned) \in Nat /\ Cardinality(S) \in Nat
        /\ Cardinality(slots) \in Nat /\ Cardinality(With("pending")) \in Nat
    BY <1>2, <1>3, FS_CardinalityType
  <1>5. Cardinality(Cleaned) <= MaxConcurrent
    BY <1>2, <1>4, FS_Subset, ConstantsAssumption
  <1>6. Cardinality(S) <= MaxConcurrent - Cardinality(Cleaned)
    BY <1>1, <1>4, <1>5, ConstantsAssumption DEF Chosen, Smaller
  <1>7. /\ Cardinality(Cleaned \cup S) \in Nat
        /\ Cardinality(Cleaned \cup S) <= Cardinality(Cleaned) + Cardinality(S)
    <2>1. IsFiniteSet(Cleaned \cup S) /\ IsFiniteSet(Cleaned \cap S)
      BY <1>2, <1>3, FS_Union, FS_Intersection
    <2>2. Cardinality(Cleaned \cap S) \in Nat /\ Cardinality(Cleaned \cup S) \in Nat
      BY <2>1, FS_CardinalityType
    <2>3. Cardinality(Cleaned \cup S)
            = Cardinality(Cleaned) + Cardinality(S) - Cardinality(Cleaned \cap S)
      BY <1>2, <1>3, FS_Union
    <2> QED BY <1>4, <2>2, <2>3
  <1> QED BY <1>1, <1>4, <1>6, <1>7, ConstantsAssumption

\* Only a pass takes slots.
LEMMA SlotsShrink ==
    ASSUME TypeOK, Next, ~Pass
    PROVE  slots' \subseteq slots
  BY DEF Next, Ends, Restart, Submit, StoreRaises, Cancel, Begin, ExecutorReturns,
     ExecutorRaises, TimesOut, Completes, Fails, BackoffEnds

\* SlotsCoverRuns: executions are bounded by max_concurrent, each has its slot or
\* was missed by a cancel, and no slot leaks.
THEOREM SlotsSuffice == Spec => []SlotsCoverRuns
  <1> DEFINE Inv == TypeOK /\ SlotInv /\ Cardinality(slots) <= MaxConcurrent
  <1>1. Init => Inv
    BY FS_EmptySet, ConstantsAssumption
       DEF Init, TypeOK, Statuses, Phases, SlotInv
  <1>2. Inv /\ [Next]_vars => Inv'
    <2>1. SUFFICES ASSUME Inv, [Next]_vars PROVE Cardinality(slots') <= MaxConcurrent
      BY TypeStep, SlotStep
    <2>2. CASE Pass
      BY <2>1, <2>2, PassBound
    <2>3. CASE UNCHANGED vars
      BY <2>1, <2>3 DEF vars
    <2>4. CASE Next /\ ~Pass
      <3>1. slots' \subseteq slots /\ IsFiniteSet(slots)
        BY <2>1, <2>4, SlotsShrink, ConstantsAssumption, FS_Subset DEF TypeOK
      <3>2. /\ Cardinality(slots') <= Cardinality(slots)
            /\ Cardinality(slots') \in Nat /\ Cardinality(slots) \in Nat
        BY <3>1, FS_Subset, FS_CardinalityType
      <3> QED BY <2>1, <3>2, ConstantsAssumption
    <2> QED BY <2>1, <2>2, <2>3, <2>4
  <1>3. Inv => SlotsCoverRuns
    BY DEF SlotInv, SlotsCoverRuns
  <1> QED BY <1>1, <1>2, <1>3, PTL DEF Spec

(***************************************************************************)
(* Retries                                                                 *)
(***************************************************************************)

\* How often a task was started, by where it stands: once more than it was
\* retried while it executes, as often otherwise.
CountInv ==
    \A t \in Tasks :
        /\ retries[t] <= MaxRetries
        /\ starts[t] <= retries[t] + 1
        /\ exec[t] \in {"created", "working", "ok", "error"} => starts[t] = retries[t] + 1
        /\ exec[t] = "backoff" => starts[t] = retries[t]
        /\ status[t] \in {"none", "blocked"} => exec[t] = "idle"
        /\ status[t] \in {"none", "blocked", "pending"} => starts[t] = retries[t]
        /\ status[t] = "escalated" => starts[t] = MaxRetries + 1

\* Every step keeps the books.
LEMMA CountStep == TypeOK /\ CountInv /\ [Next]_vars => CountInv'
  <1> SUFFICES ASSUME TypeOK, CountInv, [Next]_vars PROVE CountInv'
    OBVIOUS
  <1> USE DEF TypeOK, CountInv, With
  <1>1. ASSUME Pass
        PROVE  CountInv'
    BY <1>1 DEF Pass, Cleaned
  <1>2. ASSUME Restart
        PROVE  CountInv'
    BY <1>2 DEF Restart
  <1>3. ASSUME NEW t \in Tasks, NEW D \in SUBSET Tasks, Submit(t, D)
        PROVE  CountInv'
    BY <1>3 DEF Submit, histVars
  <1>4. ASSUME NEW t \in Tasks, NEW U \in SUBSET Tasks, StoreRaises(t, U)
        PROVE  CountInv'
    <2>1. /\ exec[t] = "ok" /\ starts' = starts
          /\ \A u \in U : u # t /\ status[u] = "blocked"
      BY <1>4 DEF StoreRaises, Unblocked
    <2>2. \A u \in Tasks : u # t => exec'[u] = exec[u] /\ retries'[u] = retries[u]
      BY <1>4 DEF StoreRaises, Failed, Move, Over
    <2>3. \A u \in Tasks : u # t =>
             status'[u] = IF u \in U THEN "pending" ELSE status[u]
      BY <1>4 DEF StoreRaises, Failed, Mark
    <2>4. CASE retries[t] < MaxRetries
      <3>1. status'[t] = "retrying" /\ retries'[t] = retries[t] + 1 /\ exec'[t] = "backoff"
        BY <1>4, <2>4, ConstantsAssumption DEF StoreRaises, Failed, Mark, Move
      <3> QED BY <2>1, <2>2, <2>3, <2>4, <3>1, ConstantsAssumption
    <2>5. CASE retries[t] >= MaxRetries
      <3>1. status'[t] = "escalated" /\ retries'[t] = retries[t] /\ exec'[t] \in {"over", "idle"}
        BY <1>4, <2>5, ConstantsAssumption DEF StoreRaises, Failed, Mark, Move, Over
      <3> QED BY <2>1, <2>2, <2>3, <2>5, <3>1, ConstantsAssumption
    <2> QED BY <2>4, <2>5, ConstantsAssumption
  <1>5. ASSUME NEW t \in Tasks, Cancel(t)
        PROVE  CountInv'
    BY <1>5 DEF Cancel
  <1>6. ASSUME NEW t \in Tasks, Begin(t)
        PROVE  CountInv'
    BY <1>6 DEF Begin, Move, rowVars, histVars
  <1>7. ASSUME NEW t \in Tasks, ExecutorReturns(t)
        PROVE  CountInv'
    BY <1>7 DEF ExecutorReturns, Move, rowVars
  <1>8. ASSUME NEW t \in Tasks, ExecutorRaises(t)
        PROVE  CountInv'
    BY <1>8 DEF ExecutorRaises, Move, rowVars, histVars
  <1>9. ASSUME NEW t \in Tasks, TimesOut(t)
        PROVE  CountInv'
    BY <1>9, ConstantsAssumption DEF TimesOut, Failed, Mark, Move, Over, histVars
  <1>10. ASSUME NEW t \in Tasks, Completes(t)
        PROVE  CountInv'
    BY <1>10 DEF Completes, Mark, Move, Over, histVars, Unblocked
  <1>11. ASSUME NEW t \in Tasks, Fails(t)
        PROVE  CountInv'
    BY <1>11, ConstantsAssumption DEF Fails, Failed, Mark, Move, Over, histVars
  <1>12. ASSUME NEW t \in Tasks, BackoffEnds(t)
        PROVE  CountInv'
    BY <1>12 DEF BackoffEnds, Move, Over, histVars
  <1>13. CASE UNCHANGED vars
    BY <1>13 DEF vars
  <1> QED BY <1>1, <1>2, <1>3, <1>4, <1>5, <1>6, <1>7, <1>8, <1>9, <1>10, <1>11, <1>12, <1>13 DEF Next, Ends

\* EscalatedAfterRetries: no task is executed more than max_retries + 1 times, and
\* it is given up after exactly as many.
THEOREM RetriesExact == Spec => []EscalatedAfterRetries
  <1>1. Init => TypeOK /\ CountInv
    BY ConstantsAssumption DEF Init, TypeOK, Statuses, Phases, CountInv
  <1>2. TypeOK /\ CountInv /\ [Next]_vars => TypeOK' /\ CountInv'
    BY TypeStep, CountStep
  <1>3. TypeOK /\ CountInv => EscalatedAfterRetries
    BY ConstantsAssumption DEF TypeOK, CountInv, EscalatedAfterRetries
  <1> QED BY <1>1, <1>2, <1>3, PTL DEF Spec
=============================================================================
