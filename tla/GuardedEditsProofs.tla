------------------------- MODULE GuardedEditsProofs -------------------------
(***************************************************************************)
(* Proofs of the properties of GuardedEdits, for all calls, caps, bounds   *)
(* and faults: that approvals cover the runs, that the caps hold, that     *)
(* rewinds restore, that copies last until they are back, and the types.   *)
(***************************************************************************)
EXTENDS GuardedEdits, TLAPS, FiniteSetTheorems, WellFoundedInduction

\* What the counts rest on.
CoverInv ==
    /\ ask \in [Ids -> Calls \cup {Nobody}]
    /\ status \in [Ids -> Statuses]
    /\ ran \in [Calls -> Nat] /\ granted \in [Calls -> Nat]
    /\ \A i \in Ids : status[i] # "none" => ask[i] \in Calls
    /\ ApprovalsCover

\* Sets of requests are finite.
LEMMA FiniteRequests ==
    ASSUME NEW S \in SUBSET Ids
    PROVE  IsFiniteSet(S) /\ Cardinality(S) \in Nat
  <1>1. IsFiniteSet(Ids)
    BY ApprovalsAssumption, FS_Interval DEF Ids
  <1> QED BY <1>1, FS_Subset, FS_CardinalityType

\* No more approvals, no fewer grants and as many runs keep the count.
LEMMA CountKept ==
    ASSUME ran \in [Calls -> Nat], granted \in [Calls -> Nat], ApprovalsCover, NEW c \in Risky,
           ran'[c] = ran[c], granted'[c] = granted[c], Approved(c)' \subseteq Approved(c)
    PROVE  ran'[c] + Cardinality(Approved(c)') <= granted'[c]
  <1>1. c \in Calls
    BY GuardAssumption
  <1>2. Approved(c) \in SUBSET Ids
    BY DEF Approved
  <1>3. IsFiniteSet(Approved(c)) /\ Cardinality(Approved(c)) \in Nat
    BY <1>2, FiniteRequests
  <1>4. Cardinality(Approved(c)') <= Cardinality(Approved(c))
        /\ Cardinality(Approved(c)') \in Nat
    BY <1>3, FS_Subset, FS_CardinalityType
  <1> QED BY <1>1, <1>3, <1>4 DEF ApprovalsCover

\* A sweep approves nothing.
LEMMA SweepApproves ==
    ASSUME NEW st \in [Ids -> Statuses], NEW at, Sweep(st, at)
    PROVE  /\ status' \in [Ids -> Statuses]
           /\ \A i \in Ids : status'[i] = "approved" => st[i] = "approved"
           /\ \A i \in Ids : status'[i] # "none" => st[i] # "none"
  <1> DEFINE out == Overdue(st)
  <1>1. out \subseteq {i \in Ids : st[i] = "pending"}
    BY DEF Overdue, In
  <1>2. PICK gone : status' = [i \in Ids |-> IF i \in gone THEN "none"
                                             ELSE IF i \in out THEN "timeout" ELSE st[i]]
    BY DEF Sweep, Swept
  <1> QED BY <1>1, <1>2 DEF Statuses

\* Every step keeps the count.
LEMMA CoverStep == CoverInv /\ [Next]_vars => CoverInv'
  <1> SUFFICES ASSUME CoverInv, [Next]_vars PROVE CoverInv'
    OBVIOUS
  <1> USE DEF CoverInv
  <1>1. ASSUME NEW c \in Calls, InvokeApproved(c)
        PROVE  CoverInv'
    <2>1. PICK i \in Approved(c) :
              /\ status' = [status EXCEPT ![i] = "none"]
              /\ ask' = ask /\ granted' = granted
      BY <1>1 DEF InvokeApproved, Consume
    <2>2. ran' = IF c \in Risky THEN [ran EXCEPT ![c] = @ + 1] ELSE ran
      BY <1>1 DEF InvokeApproved, Run
    <2>3. i \in Ids
      BY DEF Approved
    <2>4. ASSUME NEW d \in Risky
          PROVE  ran'[d] + Cardinality(Approved(d)') <= granted'[d]
      <3>0. d \in Calls
        BY GuardAssumption
      <3>1. CASE d = c
        <4>1. Approved(c)' = Approved(c) \ {i}
          BY <2>1, <2>3 DEF Approved
        <4>2. IsFiniteSet(Approved(c)) /\ Cardinality(Approved(c)) \in Nat
          BY FiniteRequests DEF Approved
        <4>3. Cardinality(Approved(c)') = Cardinality(Approved(c)) - 1
          BY <2>1, <4>1, <4>2, FS_RemoveElement
        <4>4. ran[c] + Cardinality(Approved(c)) <= granted[c]
          BY <2>4, <3>1 DEF ApprovalsCover
        <4>5. ran'[c] = ran[c] + 1 /\ granted'[c] = granted[c] /\ ran[c] \in Nat /\ granted[c] \in Nat
          BY <2>1, <2>2, <2>4, <3>1
        <4> QED BY <3>1, <4>2, <4>3, <4>4, <4>5
      <3>2. CASE d # c
        <4>1. Approved(d)' \subseteq Approved(d)
          BY <2>1, <2>3 DEF Approved
        <4>2. ran'[d] = ran[d] /\ granted'[d] = granted[d]
          BY <2>1, <2>2, <3>0, <3>2
        <4> QED BY <4>1, <4>2, CountKept
      <3> QED BY <3>1, <3>2
    <2>5. ApprovalsCover'
      BY <2>4 DEF ApprovalsCover
    <2>6. ran' \in [Calls -> Nat]
      BY <2>2
    <2> QED BY <2>1, <2>3, <2>5, <2>6 DEF Statuses
  <1>2. ASSUME NEW c \in Calls, InvokeClean(c)
        PROVE  CoverInv'
    <2>1. UNCHANGED <<ask, status, granted>>
      BY <1>2 DEF InvokeClean, approvalVars
    <2>2. ran' = ran
      BY <1>2 DEF InvokeClean, Run
    <2>3. ApprovalsCover'
      BY <2>1, <2>2 DEF ApprovalsCover, Approved
    <2> QED BY <2>1, <2>2, <2>3
  <1>dies. ASSUME NEW c \in Calls, InvokeDies(c)
           PROVE  CoverInv'
    <2>1. /\ Approved(c) # {} \/ c \notin Risky
          /\ ran' = IF c \in Risky THEN [ran EXCEPT ![c] = @ + 1] ELSE ran
          /\ status' = [i \in Ids |-> "none"] /\ ask' = ask /\ granted' = granted
      BY <1>dies DEF InvokeDies, ApprovalsLost
    <2>2. \A d \in Risky : Approved(d)' = {}
      BY <2>1 DEF Approved
    <2>3. ASSUME NEW d \in Risky
          PROVE  ran'[d] + Cardinality(Approved(d)') <= granted'[d]
      <3>0. d \in Calls
        BY GuardAssumption
      <3>1. Cardinality(Approved(d)') = 0
        BY <2>2, FS_EmptySet
      <3>2. IsFiniteSet(Approved(d)) /\ Cardinality(Approved(d)) \in Nat
        BY FiniteRequests DEF Approved
      <3>3. ran[d] + Cardinality(Approved(d)) <= granted[d]
        BY <2>3 DEF ApprovalsCover
      <3>4. ran'[d] = ran[d] \/ (d = c /\ ran'[d] = ran[d] + 1)
        BY <2>1, <3>0
      <3>5. d = c => Cardinality(Approved(d)) # 0
        BY <2>1, <3>2, FS_EmptySet
      <3>6. ran[d] \in Nat /\ granted[d] \in Nat /\ granted'[d] = granted[d]
        BY <2>1, <3>0
      <3> QED BY <3>1, <3>2, <3>3, <3>4, <3>5, <3>6
    <2>4. ApprovalsCover'
      BY <2>3 DEF ApprovalsCover
    <2>5. ran' \in [Calls -> Nat]
      BY <2>1
    <2> QED BY <2>1, <2>4, <2>5 DEF Statuses
  <1>3. ASSUME NEW c \in Calls, InvokeRisky(c)
        PROVE  CoverInv'
    <2>1. PICK i \in Ids :
              /\ ask[i] = Nobody
              /\ ask' = [ask EXCEPT ![i] = c]
              /\ Sweep([status EXCEPT ![i] = "pending"], resolved)
              /\ granted' = granted
      BY <1>3 DEF InvokeRisky, CreateRequest
    <2>2. ran' = ran
      BY <1>3 DEF InvokeRisky
    <2>3. [status EXCEPT ![i] = "pending"] \in [Ids -> Statuses]
      BY DEF Statuses
    <2>4. /\ status' \in [Ids -> Statuses]
          /\ \A j \in Ids : status'[j] = "approved" => j # i /\ status[j] = "approved"
          /\ \A j \in Ids : status'[j] # "none" => j = i \/ status[j] # "none"
      BY <2>1, <2>3, SweepApproves
    <2>5. \A d \in Risky : Approved(d)' \subseteq Approved(d)
      BY <2>1, <2>4 DEF Approved
    <2>6. ApprovalsCover'
      BY <2>1, <2>2, <2>5, CountKept DEF ApprovalsCover
    <2> QED BY <2>1, <2>2, <2>4, <2>6
  <1>4. ASSUME NEW i \in Ids, Answer(i), Approve(i)
        PROVE  CoverInv'
    <2>1. /\ status[i] = "pending"
          /\ Sweep([status EXCEPT ![i] = "approved"], [resolved EXCEPT ![i] = Place(resolved)])
          /\ granted' = [granted EXCEPT ![ask[i]] = @ + 1]
          /\ ask' = ask /\ ran' = ran
      BY <1>4 DEF Approve, Answer
    <2>2. [status EXCEPT ![i] = "approved"] \in [Ids -> Statuses]
      BY DEF Statuses
    <2>3. /\ status' \in [Ids -> Statuses]
          /\ \A j \in Ids : status'[j] = "approved" => j = i \/ status[j] = "approved"
          /\ \A j \in Ids : status'[j] # "none" => status[j] # "none"
      BY <2>1, <2>2, SweepApproves
    <2>4. ASSUME NEW d \in Risky
          PROVE  ran'[d] + Cardinality(Approved(d)') <= granted'[d]
      <3>0. d \in Calls
        BY GuardAssumption
      <3>1. CASE d = ask[i]
        <4>1. Approved(d)' \subseteq Approved(d) \cup {i}
          BY <2>1, <2>3 DEF Approved
        <4>2. IsFiniteSet(Approved(d)) /\ Cardinality(Approved(d)) \in Nat /\ i \notin Approved(d)
          BY <2>1, FiniteRequests DEF Approved
        <4>3. Cardinality(Approved(d) \cup {i}) = Cardinality(Approved(d)) + 1
          BY <4>2, FS_AddElement
        <4>4. Approved(d) \cup {i} \in SUBSET Ids /\ Approved(d)' \in SUBSET Ids
          BY <4>1 DEF Approved
        <4>5. IsFiniteSet(Approved(d) \cup {i})
          BY <4>4, FiniteRequests
        <4>6. Cardinality(Approved(d)') <= Cardinality(Approved(d) \cup {i})
              /\ Cardinality(Approved(d)') \in Nat
          BY <4>1, <4>4, <4>5, FS_Subset, FiniteRequests
        <4>7. ran[d] + Cardinality(Approved(d)) <= granted[d]
          BY <2>4 DEF ApprovalsCover
        <4>8. granted'[d] = granted[d] + 1 /\ ran'[d] = ran[d] /\ ran[d] \in Nat /\ granted[d] \in Nat
          BY <2>1, <3>0, <3>1
        <4> QED BY <4>2, <4>3, <4>6, <4>7, <4>8
      <3>2. CASE d # ask[i]
        <4>1. Approved(d)' \subseteq Approved(d)
          BY <2>1, <2>3, <3>2 DEF Approved
        <4>2. ran'[d] = ran[d] /\ granted'[d] = granted[d]
          BY <2>1, <3>0, <3>2
        <4> QED BY <4>1, <4>2, CountKept
      <3> QED BY <3>1, <3>2
    <2>5. ApprovalsCover'
      BY <2>4 DEF ApprovalsCover
    <2>6. granted' \in [Calls -> Nat]
      BY <2>1
    <2> QED BY <2>1, <2>3, <2>5, <2>6
  <1>5. ASSUME NEW i \in Ids, Answer(i), Deny(i)
        PROVE  CoverInv'
    <2>1. /\ status[i] = "pending"
          /\ Sweep([status EXCEPT ![i] = "denied"], [resolved EXCEPT ![i] = Place(resolved)])
          /\ granted' = granted /\ ask' = ask /\ ran' = ran
      BY <1>5 DEF Deny, Answer
    <2>2. [status EXCEPT ![i] = "denied"] \in [Ids -> Statuses]
      BY DEF Statuses
    <2>3. /\ status' \in [Ids -> Statuses]
          /\ \A j \in Ids : status'[j] = "approved" => status[j] = "approved"
          /\ \A j \in Ids : status'[j] # "none" => status[j] # "none"
      BY <2>1, <2>2, SweepApproves
    <2>4. \A d \in Risky : Approved(d)' \subseteq Approved(d)
      BY <2>1, <2>3 DEF Approved
    <2>5. ApprovalsCover'
      BY <2>1, <2>4, CountKept DEF ApprovalsCover
    <2> QED BY <2>1, <2>3, <2>5
  <1>6. ASSUME UNCHANGED <<ask, granted, ran>>, ApprovalsLost \/ UNCHANGED status
        PROVE  CoverInv'
    <2>1. /\ status' \in [Ids -> Statuses]
          /\ \A j \in Ids : status'[j] # "none" => status'[j] = status[j]
      BY <1>6 DEF ApprovalsLost, Statuses
    <2>2. \A d \in Risky : Approved(d)' \subseteq Approved(d)
      BY <1>6, <2>1 DEF Approved
    <2>3. ApprovalsCover'
      BY <1>6, <2>2, CountKept DEF ApprovalsCover
    <2> QED BY <1>6, <2>1, <2>3
  <1>7. ASSUME NEW i \in Ids, RequestAges(i)
        PROVE  UNCHANGED <<ask, granted, ran, status>>
    BY <1>7 DEF RequestAges, RecordAges
  <1>8. ASSUME NEW fault, Cabinet(fault)
        PROVE  UNCHANGED <<ask, granted, ran>> /\ (ApprovalsLost \/ UNCHANGED status)
    BY <1>8 DEF Cabinet, ApprovalsLost, approvalVars
  <1>9. CASE (\E s \in Sessions : TurnStarts(s)) \/ (\E r \in Rows : RowGetsOld(r))
             \/ \E f \in Paths, x \in {Outside, Absent} : ChangedOutside(f, x)
    <2>1. UNCHANGED <<ask, granted, ran, status>>
      BY <1>9 DEF TurnStarts, RowGetsOld, ChangedOutside, approvalVars
    <2> QED BY <1>6, <2>1
  <1>10. CASE Crash
    <2>1. UNCHANGED <<ask, granted, ran>> /\ ApprovalsLost
      BY <1>10 DEF Crash, ApprovalsLost
    <2> QED BY <1>6, <2>1
  <1>11. CASE UNCHANGED vars
    <2>1. UNCHANGED <<ask, granted, ran, status>>
      BY <1>11 DEF vars, approvalVars
    <2> QED BY <1>6, <2>1
  <1>12. CASE (\E r \in Rows : UserUndoes(r)) \/ UserUndoesRecent
              \/ \E k \in cps : UserRewinds(k)
    <2>1. PICK fault \in UndoFaults : Cabinet(fault)
      BY <1>12 DEF UserUndoes, UserUndoesRecent, UserRewinds
    <2> QED BY <1>6, <1>8, <2>1
  <1>13. ASSUME NEW i \in Ids, RequestAges(i)
         PROVE  CoverInv'
    BY <1>6, <1>7, <1>13
  <1>14. ASSUME NEW i \in Ids, Answer(i)
         PROVE  CoverInv'
    BY <1>4, <1>5, <1>14 DEF Answer
  <1> QED BY <1>1, <1>2, <1>dies, <1>3, <1>9, <1>10, <1>11, <1>12, <1>13, <1>14 DEF Next

\* ApprovalsCover: a risky call runs at most as often as it was approved.
THEOREM ApprovalsKept == Spec => []ApprovalsCover
  <1>1. Init => CoverInv
    <2> SUFFICES ASSUME Init PROVE CoverInv
      OBVIOUS
    <2>1. \A c \in Calls : Approved(c) = {}
      BY DEF Init, ApprovalsInit, Approved
    <2>2. ApprovalsCover
      BY <2>1, FS_EmptySet, GuardAssumption DEF Init, ApprovalsInit, ApprovalsCover
    <2> QED BY <2>2 DEF Init, ApprovalsInit, CoverInv, Statuses
  <1>2. CoverInv => ApprovalsCover
    BY DEF CoverInv
  <1> QED BY <1>1, <1>2, CoverStep, PTL DEF Spec

-----------------------------------------------------------------------------
(* Induction *)

\* A set of naturals has a least element.
LEMMA Least ==
    ASSUME NEW S \in SUBSET Nat, S # {}
    PROVE  \E n \in S : \A m \in S : n <= m
  <1> DEFINE R == {ss \in Nat \X Nat : ss[1] < ss[2]}
  <1>1. IsWellFoundedOn(R, Nat)
    BY NatLessThanWellFounded DEF OpToRel
  <1>2. \A m, n \in Nat : m < n => <<m, n>> \in R
    OBVIOUS
  <1> HIDE DEF R
  <1>3. \E n \in S : \A m \in S : <<m, n>> \notin R
    BY <1>1, WFMin
  <1>4. \E n \in S : \A m \in S : ~(m < n)
    BY <1>2, <1>3
  <1> QED BY <1>4

\* A set with 0 and with the successor of each of its members has all naturals.
LEMMA Induction ==
    ASSUME NEW S, 0 \in S, \A n \in Nat : n \in S => n + 1 \in S
    PROVE  Nat \subseteq S
  <1> SUFFICES ASSUME Nat \ S # {} PROVE FALSE
    OBVIOUS
  <1>1. PICK n \in Nat \ S : \A m \in Nat \ S : n <= m
    BY Least
  <1>2. n # 0 /\ n - 1 \in Nat
    BY <1>1
  <1>3. n - 1 \in S
    BY <1>1, <1>2
  <1> QED BY <1>1, <1>2, <1>3

-----------------------------------------------------------------------------
(* What a sweep keeps *)

\* A set of naturals in which no element has n others above it has at most n.
LEMMA NewestFew ==
    ASSUME NEW S \in SUBSET Ids, NEW n \in Nat \ {0},
           \A i \in S : Cardinality({j \in S : j > i}) < n
    PROVE  Cardinality(S) <= n
  <1>1. CASE S = {}
    BY <1>1, FS_EmptySet
  <1>2. CASE S # {}
    <2>1. PICK i \in S : \A j \in S : i <= j
      BY <1>2, Least, ApprovalsAssumption DEF Ids
    <2> DEFINE T == {j \in S : j > i}
    <2>2. IsFiniteSet(T) /\ Cardinality(T) \in Nat
      BY FiniteRequests
    <2>3. S = T \cup {i} /\ i \notin T
      <3>1. \A j \in S : j \in Int /\ (j = i \/ j > i)
        BY <2>1 DEF Ids
      <3> QED BY <2>1, <3>1
    <2>4. Cardinality(T) < n
      OBVIOUS
    <2> HIDE DEF T
    <2>5. Cardinality(S) = Cardinality(T) + 1
      BY <2>2, <2>3, FS_AddElement
    <2> QED BY <2>2, <2>4, <2>5
  <1> QED BY <1>1, <1>2

\* The same in the order `at'.
LEMMA LatestFew ==
    ASSUME NEW S \in SUBSET Ids, NEW at \in [Ids -> Nat], NEW n \in Nat \ {0},
           \A i \in S :
               Cardinality({j \in S : at[j] > at[i] \/ (at[j] = at[i] /\ j > i)}) < n
    PROVE  Cardinality(S) <= n
  <1>1. CASE S = {}
    BY <1>1, FS_EmptySet
  <1>2. CASE S # {}
    <2> DEFINE Ats == {at[j] : j \in S}
    <2>1. Ats \in SUBSET Nat /\ Ats # {}
      BY <1>2
    <2>2. PICK m \in Ats : \A a \in Ats : m <= a
      BY <2>1, Least
    <2> DEFINE First == {j \in S : at[j] = m}
    <2>3. First \in SUBSET Nat /\ First # {}
      <3>1. \A j \in S : j \in Nat
        BY DEF Ids
      <3>2. \E j \in S : at[j] = m
        BY <2>2
      <3> QED BY <3>1, <3>2
    <2>4. PICK i \in First : \A j \in First : i <= j
      BY <2>3, Least
    <2>5. i \in S /\ \A j \in S : at[i] <= at[j] /\ (at[j] = at[i] => i <= j)
      BY <2>2, <2>4
    <2> DEFINE T == {j \in S : at[j] > at[i] \/ (at[j] = at[i] /\ j > i)}
    <2>6. IsFiniteSet(T) /\ Cardinality(T) \in Nat
      BY FiniteRequests
    <2>7. S = T \cup {i} /\ i \notin T
      <3>1. \A j \in S : j \in Int /\ at[j] \in Nat
        BY DEF Ids
      <3>2. \A j \in S : j = i \/ at[j] > at[i] \/ (at[j] = at[i] /\ j > i)
        BY <2>5, <3>1
      <3>3. i \in S /\ i \notin T
        BY <2>5, <3>1
      <3>4. \A j \in S : j \in T \cup {i}
        BY <3>2
      <3>5. \A j \in T \cup {i} : j \in S
        BY <3>3
      <3> HIDE DEF T
      <3> QED BY <3>3, <3>4, <3>5
    <2>8. Cardinality(T) < n
      BY <2>5
    <2> HIDE DEF T
    <2>9. Cardinality(S) = Cardinality(T) + 1
      BY <2>6, <2>7, FS_AddElement
    <2> QED BY <2>6, <2>8, <2>9
  <1> QED BY <1>1, <1>2

\* A sweep leaves no more requests and answers than the caps allow.
LEMMA SweepCaps ==
    ASSUME NEW st \in [Ids -> Statuses], NEW at \in [Ids -> Nat], Sweep(st, at),
           \A i \in Ids : Place(at) \in Nat \/ i \notin Overdue(st)
    PROVE  CapsHold'
  <1> DEFINE out == Overdue(st)
             when == [i \in Ids |-> IF i \in out THEN Place(at) ELSE at[i]]
             kept == (Done(st) \ stale) \cup out
             gone == (Done(st) \cap stale) \cup Surplus(kept, when)
             waiting == In(st, {"pending"}) \ (In(st, {"pending"}) \cap stale)
  <1>1. status' = [i \in Ids |-> IF i \in gone THEN "none"
                                 ELSE IF i \in out THEN "timeout" ELSE st[i]]
    BY DEF Sweep, Swept
  <1>2. when \in [Ids -> Nat]
    OBVIOUS
  <1>3. out \subseteq In(st, {"pending"})
    BY DEF Overdue
  <1>4. kept \in SUBSET Ids /\ Done(st) \cap In(st, {"pending"}) = {}
    BY <1>3 DEF Done, In
  <1>5. Done(status)' = kept \ Surplus(kept, when)
    <2>1. Surplus(kept, when) \subseteq kept
      BY DEF Surplus
    <2>2. \A i \in Ids : (i \in Done(status)') <=> (i \notin gone /\ (i \in out \/ i \in Done(st)))
      BY <1>1 DEF Done, In
    <2>3. Done(status)' \subseteq Ids
      BY DEF Done, In
    <2> HIDE DEF out, when
    <2> QED BY <1>3, <1>4, <2>1, <2>2, <2>3
  <1>6. In(status, {"pending"})' = In(st, {"pending"}) \ out
    <2>1. gone \cap (In(st, {"pending"}) \ out) = {}
      BY <1>4 DEF Surplus
    <2>2. \A i \in Ids : status'[i] = "pending" <=> (i \notin gone /\ i \notin out /\ st[i] = "pending")
      BY <1>1
    <2> HIDE DEF out, gone
    <2> QED BY <2>1, <2>2 DEF In
  <1>7. In(st, {"pending"}) \ out =
            {i \in waiting : ~(Cardinality({j \in waiting : j > i}) >= MaxPending)}
    BY DEF Overdue
  <1> DEFINE W == In(status, {"pending"})'
             D == Done(status)'
  <1>8. W \in SUBSET Ids /\ D \in SUBSET Ids /\ waiting \in SUBSET Ids
    BY DEF Done, In
  <1>9. Cardinality(W) <= MaxPending
    <2>1. W \subseteq waiting /\ \A i \in W : ~(Cardinality({j \in waiting : j > i}) >= MaxPending)
      BY <1>6, <1>7
    <2> HIDE DEF W, waiting
    <2>2. ASSUME NEW i \in W
          PROVE  Cardinality({j \in W : j > i}) < MaxPending
      <3>1. {j \in W : j > i} \in SUBSET {j \in waiting : j > i}
        BY <2>1
      <3>2. IsFiniteSet({j \in waiting : j > i}) /\ Cardinality({j \in waiting : j > i}) \in Nat
        BY <1>8, FiniteRequests
      <3>3. Cardinality({j \in W : j > i}) <= Cardinality({j \in waiting : j > i})
            /\ Cardinality({j \in W : j > i}) \in Nat
        BY <3>1, <3>2, FS_Subset, FS_CardinalityType
      <3> QED BY <2>1, <3>2, <3>3, ApprovalsAssumption
    <2> QED BY <1>8, <2>2, NewestFew, ApprovalsAssumption
  <1>10. Cardinality(D) <= MaxCompleted
    <2>1. D \subseteq kept
          /\ \A i \in D : ~(Cardinality({j \in kept : when[j] > when[i]
                                             \/ (when[j] = when[i] /\ j > i)}) >= MaxCompleted)
      BY <1>5 DEF Surplus
    <2> HIDE DEF D, kept, when
    <2>2. ASSUME NEW i \in D
          PROVE  Cardinality({j \in D : when[j] > when[i] \/ (when[j] = when[i] /\ j > i)})
                     < MaxCompleted
      <3> DEFINE Above(S) == {j \in S : when[j] > when[i] \/ (when[j] = when[i] /\ j > i)}
      <3>1. Above(D) \in SUBSET Above(kept) /\ Above(kept) \in SUBSET Ids
        BY <1>4, <2>1
      <3>2. ~(Cardinality(Above(kept)) >= MaxCompleted)
        BY <2>1
      <3> HIDE DEF Above
      <3>3. IsFiniteSet(Above(kept)) /\ Cardinality(Above(kept)) \in Nat
        BY <3>1, FiniteRequests
      <3>4. Cardinality(Above(D)) <= Cardinality(Above(kept)) /\ Cardinality(Above(D)) \in Nat
        BY <3>1, <3>3, FS_Subset, FS_CardinalityType
      <3>5. Cardinality(Above(D)) < MaxCompleted
        BY <3>2, <3>3, <3>4, ApprovalsAssumption
      <3> QED BY <3>5 DEF Above
    <2> QED BY <1>2, <1>8, <2>2, LatestFew, ApprovalsAssumption
  <1> QED BY <1>9, <1>10 DEF CapsHold

-----------------------------------------------------------------------------
(* The order of answers *)

\* Requests that were made and wait no more.
Settled == {i \in Ids : ask[i] # Nobody /\ status[i] # "pending"}

\* There are never more places in the order than requests settled.
Placed ==
    \A i \in Ids :
        /\ ask[i] = Nobody => status[i] = "none"
        /\ resolved[i] <= Cardinality(Settled)

\* What holds of the approvals after every step.
AnswersInv == ApprovalsTypeOK /\ Placed /\ CapsHold

\* The next place is one above the last.
LEMMA PlaceNext ==
    ASSUME NEW at \in [Ids -> Nat], NEW m \in Nat, m <= 2 * MaxRequests,
           \A i \in Ids : at[i] <= m
    PROVE  Place(at) \in Nat /\ Place(at) <= m + 1
  <1> DEFINE S == {n \in Nat : n > 0 /\ \A i \in Ids : at[i] < n}
             P(n) == /\ \A i \in Ids : at[i] < n
                     /\ n > 1 => \E i \in Ids : at[i] = n - 1
  <1>1. m + 1 \in S
    OBVIOUS
  <1>2. PICK n \in S : \A l \in S : n <= l
    BY <1>1, Least
  <1>3. n \in 1 .. 2 * MaxRequests + 1
    BY <1>1, <1>2, ApprovalsAssumption
  <1>4. P(n)
    <2>1. SUFFICES ASSUME n > 1 PROVE \E i \in Ids : at[i] = n - 1
      OBVIOUS
    <2>2. n - 1 \notin S /\ n - 1 \in Nat /\ n - 1 > 0
      BY <1>2, <2>1
    <2>3. PICK i \in Ids : ~(at[i] < n - 1)
      BY <2>2
    <2>4. at[i] < n /\ at[i] \in Nat /\ n \in Nat
      BY <1>2
    <2> QED BY <2>3, <2>4
  <1>5. Place(at) = CHOOSE l \in 1 .. 2 * MaxRequests + 1 : P(l)
    BY DEF Place
  <1> DEFINE l == Place(at)
  <1>6. l \in 1 .. 2 * MaxRequests + 1 /\ P(l)
    BY <1>3, <1>4, <1>5, Zenon
  <1>7. l \in Nat
    BY <1>6, ApprovalsAssumption
  <1>8. l > 1 => \E i \in Ids : at[i] = l - 1
    BY <1>6
  <1> HIDE DEF l
  <1>9. l <= m + 1
    BY <1>7, <1>8
  <1> QED BY <1>7, <1>9 DEF l

\* A sweep places those that time out above the settled ones.
LEMMA SweepPlaced ==
    ASSUME NEW st \in [Ids -> Statuses], NEW at \in [Ids -> Nat], NEW L \in SUBSET Ids,
           \A i \in Ids : at[i] <= Cardinality(L),
           \A i \in L : st[i] # "pending" /\ ask'[i] # Nobody,
           \A i \in Ids : st[i] # "none" => ask'[i] # Nobody,
           Sweep(st, at)
    PROVE  /\ status' \in [Ids -> Statuses]
           /\ resolved' \in [Ids -> Nat]
           /\ stale' \subseteq stale
           /\ Placed'
           /\ CapsHold'
  <1> DEFINE m == Cardinality(L)
             out == Overdue(st)
             when == [i \in Ids |-> IF i \in out THEN Place(at) ELSE at[i]]
             gone == (Done(st) \cap stale) \cup Surplus((Done(st) \ stale) \cup out, when)
             more == Cardinality(Settled)'
  <1>0. /\ status' = [i \in Ids |-> IF i \in gone THEN "none"
                                    ELSE IF i \in out THEN "timeout" ELSE st[i]]
        /\ resolved' = [i \in Ids |-> IF i \in gone THEN 0 ELSE when[i]]
        /\ stale' \subseteq stale
    BY DEF Sweep, Swept
  <1>1. IsFiniteSet(L) /\ m \in Nat
    BY FiniteRequests
  <1>2. m <= MaxRequests
    <2>1. IsFiniteSet(Ids) /\ Cardinality(Ids) = MaxRequests
      BY FS_Interval, ApprovalsAssumption DEF Ids
    <2> QED BY <2>1, FS_Subset
  <1>3. Place(at) \in Nat /\ Place(at) <= m + 1
    <2>1. m <= 2 * MaxRequests
      BY <1>1, <1>2, ApprovalsAssumption
    <2> HIDE DEF m
    <2>2. \A i \in Ids : at[i] <= m
      BY DEF m
    <2> QED BY <1>1, <2>1, <2>2, PlaceNext
  <1>4. out \subseteq {i \in Ids : st[i] = "pending"}
    BY DEF Overdue, In
  <1>5. /\ status' \in [Ids -> Statuses]
        /\ \A i \in Ids : status'[i] # "none" => st[i] # "none"
        /\ \A i \in Ids : status'[i] = "pending" => st[i] = "pending" /\ i \notin out
    BY <1>0, <1>4 DEF Statuses
  <1>6. resolved' \in [Ids -> Nat]
    BY <1>0, <1>3
  <1>7. L \cup out \subseteq Settled'
    BY <1>4, <1>5 DEF Settled
  <1>8. Settled' \in SUBSET Ids /\ IsFiniteSet(Settled') /\ more \in Nat
    <2>1. Settled' \in SUBSET Ids
      BY DEF Settled
    <2> QED BY <2>1, FiniteRequests
  <1>9. m <= more
    BY <1>7, <1>8, FS_Subset
  <1>10. ASSUME NEW j \in out
         PROVE  m + 1 <= more
    <2>1. j \notin L /\ L \cup {j} \subseteq Settled'
      BY <1>4, <1>7
    <2>2. Cardinality(L \cup {j}) = m + 1
      BY <1>1, <2>1, FS_AddElement
    <2>3. Cardinality(L \cup {j}) <= more
      BY <1>8, <2>1, FS_Subset
    <2> QED BY <2>2, <2>3
  <1>11. ASSUME NEW i \in Ids
         PROVE  resolved'[i] <= more
    <2>1. resolved'[i] = 0 \/ resolved'[i] = at[i] \/ (resolved'[i] = Place(at) /\ i \in out)
      BY <1>0
    <2> HIDE DEF m, more, out
    <2>2. at[i] <= m /\ at[i] \in Nat
      BY DEF m
    <2> QED BY <1>1, <1>3, <1>8, <1>9, <1>10, <2>1, <2>2
  <1>12. Placed'
    <2>1. \A i \in Ids : (ask[i] = Nobody)' => status'[i] = "none"
      BY <1>5
    <2> QED BY <1>11, <2>1 DEF Placed
  <1>13. CapsHold'
    BY <1>3, SweepCaps
  <1> QED BY <1>0, <1>5, <1>6, <1>12, <1>13

\* Fewer records keep the caps.
LEMMA FewerKept ==
    ASSUME CapsHold,
           \A i \in Ids : status'[i] = "none" \/ status'[i] = status[i]
    PROVE  CapsHold'
  <1>1. ASSUME NEW kinds \in SUBSET (Statuses \ {"none"}), NEW n \in Nat,
               Cardinality(In(status, kinds)) <= n
        PROVE  Cardinality(In(status, kinds)') <= n
    <2>1. In(status, kinds)' \in SUBSET In(status, kinds) /\ In(status, kinds) \in SUBSET Ids
      BY DEF In
    <2>2. IsFiniteSet(In(status, kinds)) /\ Cardinality(In(status, kinds)) \in Nat
      BY <2>1, FiniteRequests
    <2>3. Cardinality(In(status, kinds)') <= Cardinality(In(status, kinds))
          /\ Cardinality(In(status, kinds)') \in Nat
      BY <2>1, <2>2, FS_Subset, FS_CardinalityType
    <2> QED BY <1>1, <2>2, <2>3
  <1>2. {"pending"} \in SUBSET (Statuses \ {"none"})
        /\ {"approved", "denied", "timeout"} \in SUBSET (Statuses \ {"none"})
    BY DEF Statuses
  <1>3. Cardinality(In(status, {"pending"})') <= MaxPending
    BY <1>1, <1>2, ApprovalsAssumption DEF CapsHold
  <1>4. Cardinality(In(status, {"approved", "denied", "timeout"})') <= MaxCompleted
    BY <1>1, <1>2, ApprovalsAssumption DEF CapsHold, Done
  <1> QED BY <1>3, <1>4 DEF CapsHold, Done

\* Fewer records keep all of it, and so does a call or an age.
LEMMA AnswersLeave ==
    ASSUME AnswersInv,
           ask' = ask, granted' = granted, status' \in [Ids -> Statuses],
           resolved' \in [Ids -> Nat], stale' \subseteq Ids,
           \A i \in Ids : /\ status'[i] = "none" \/ status'[i] = status[i]
                          /\ resolved'[i] <= resolved[i]
    PROVE  AnswersInv'
  <1> USE DEF AnswersInv
  <1>1. CapsHold'
    BY FewerKept
  <1>2. Settled \in SUBSET (Settled') /\ Settled' \in SUBSET Ids
    BY DEF Settled
  <1>3. IsFiniteSet(Settled') /\ Cardinality(Settled') \in Nat
    BY <1>2, FiniteRequests
  <1>4. Cardinality(Settled) <= Cardinality(Settled') /\ Cardinality(Settled) \in Nat
    BY <1>2, <1>3, FS_Subset, FS_CardinalityType
  <1>5. ASSUME NEW i \in Ids
        PROVE  resolved'[i] <= Cardinality(Settled')
    <2>1. resolved[i] <= Cardinality(Settled) /\ resolved[i] \in Nat /\ resolved'[i] \in Nat
      BY DEF Placed, ApprovalsTypeOK
    <2>2. resolved'[i] <= resolved[i]
      OBVIOUS
    <2> QED BY <1>3, <1>4, <2>1, <2>2
  <1>6. \A i \in Ids : ask'[i] = Nobody => status'[i] = "none"
    BY DEF Placed
  <1>7. Placed'
    BY <1>5, <1>6 DEF Placed, Settled
  <1> QED BY <1>1, <1>7 DEF ApprovalsTypeOK

\* An answer is placed above all others, and the sweep keeps the rest.
LEMMA AnswersSwept ==
    ASSUME AnswersInv, NEW i \in Ids, status[i] = "pending", NEW how \in {"approved", "denied"},
           ask' = ask,
           Sweep([status EXCEPT ![i] = how], [resolved EXCEPT ![i] = Place(resolved)])
    PROVE  /\ status' \in [Ids -> Statuses]
           /\ resolved' \in [Ids -> Nat]
           /\ stale' \subseteq stale
           /\ Placed' /\ CapsHold'
  <1> DEFINE L == Settled \cup {i}
             st == [status EXCEPT ![i] = how]
             at == [resolved EXCEPT ![i] = Place(resolved)]
             m == Cardinality(Settled)
  <1>1. status \in [Ids -> Statuses] /\ resolved \in [Ids -> Nat] /\ Placed
    BY DEF AnswersInv, ApprovalsTypeOK
  <1>2. st \in [Ids -> Statuses]
    BY <1>1 DEF Statuses
  <1>3. Settled \in SUBSET Ids /\ i \notin Settled
    BY DEF Settled
  <1>4. IsFiniteSet(Settled) /\ m \in Nat
    BY <1>3, FiniteRequests
  <1>5. L \in SUBSET Ids /\ Cardinality(L) = m + 1
    BY <1>3, <1>4, FS_AddElement
  <1>6. m + 1 <= MaxRequests
    <2>1. IsFiniteSet(Ids) /\ Cardinality(Ids) = MaxRequests
      BY FS_Interval, ApprovalsAssumption DEF Ids
    <2>2. Cardinality(L) <= Cardinality(Ids)
      BY <1>5, <2>1, FS_Subset
    <2> QED BY <1>5, <2>1, <2>2
  <1>7. Place(resolved) \in Nat /\ Place(resolved) <= m + 1
    <2>1. m <= 2 * MaxRequests
      BY <1>4, <1>6, ApprovalsAssumption
    <2>2. \A j \in Ids : resolved[j] <= m
      BY <1>1 DEF Placed
    <2> HIDE DEF m
    <2> QED BY <1>1, <1>4, <2>1, <2>2, PlaceNext
  <1>8. at \in [Ids -> Nat]
    BY <1>1, <1>7
  <1>9. \A j \in Ids : at[j] <= Cardinality(L)
    <2> SUFFICES ASSUME NEW j \in Ids PROVE at[j] <= Cardinality(L)
      OBVIOUS
    <2>1. resolved[j] <= m /\ resolved[j] \in Nat
      BY <1>1 DEF Placed
    <2>2. at[j] = IF j = i THEN Place(resolved) ELSE resolved[j]
      BY <1>1
    <2> HIDE DEF at, m, L
    <2> QED BY <1>4, <1>5, <1>7, <2>1, <2>2
  <1>10. \A j \in L : st[j] # "pending" /\ ask'[j] # Nobody
    BY <1>1 DEF Settled, Placed
  <1>11. \A j \in Ids : st[j] # "none" => ask'[j] # Nobody
    BY <1>1 DEF Placed
  <1>12. Sweep(st, at)
    OBVIOUS
  <1> HIDE DEF st, at, L
  <1> QED BY <1>2, <1>5, <1>8, <1>9, <1>10, <1>11, <1>12, SweepPlaced

\* The process ends, or nothing happens to the approvals.
LEMMA AnswersLost == AnswersInv /\ (ApprovalsLost \/ UNCHANGED approvalVars) => AnswersInv'
  <1> SUFFICES ASSUME AnswersInv, ApprovalsLost \/ UNCHANGED approvalVars
               PROVE  AnswersInv'
    OBVIOUS
  <1>1. ApprovalsTypeOK
    BY DEF AnswersInv
  <1>2. CASE UNCHANGED approvalVars
    BY <1>2 DEF approvalVars, AnswersInv, ApprovalsTypeOK, Placed, Settled, CapsHold, In, Done
  <1>3. CASE ApprovalsLost
    <2>1. ask' = ask /\ granted' = granted
      BY <1>3 DEF ApprovalsLost
    <2>2. status' \in [Ids -> Statuses] /\ resolved' \in [Ids -> Nat] /\ stale' \subseteq Ids
      BY <1>3 DEF ApprovalsLost, Statuses
    <2>3. \A i \in Ids : status'[i] = "none" /\ resolved'[i] = 0 /\ resolved[i] \in Nat
      BY <1>1, <1>3 DEF ApprovalsLost, ApprovalsTypeOK
    <2>4. \A i \in Ids : resolved'[i] <= resolved[i]
      BY <2>3
    <2> QED BY <2>1, <2>2, <2>3, <2>4, AnswersLeave
  <1> QED BY <1>2, <1>3

\* Every step keeps the approvals in order.
LEMMA AnswersStep == AnswersInv /\ [Next]_vars => AnswersInv'
  <1> SUFFICES ASSUME AnswersInv, [Next]_vars PROVE AnswersInv'
    OBVIOUS
  <1>0. ApprovalsTypeOK /\ Placed
    BY DEF AnswersInv
  <1>1. ASSUME NEW c \in Calls, InvokeApproved(c)
        PROVE  AnswersInv'
    <2>1. PICK i \in Approved(c) :
              /\ status' = [status EXCEPT ![i] = "none"]
              /\ resolved' = [resolved EXCEPT ![i] = 0]
              /\ stale' = stale \ {i}
              /\ ask' = ask /\ granted' = granted
      BY <1>1 DEF InvokeApproved, Consume
    <2>2. /\ status' \in [Ids -> Statuses] /\ resolved' \in [Ids -> Nat] /\ stale' \subseteq Ids
          /\ \A j \in Ids : status'[j] = "none" \/ status'[j] = status[j]
      BY <1>0, <2>1 DEF ApprovalsTypeOK, Statuses
    <2>3. \A j \in Ids : resolved'[j] = 0 \/ resolved'[j] = resolved[j]
      BY <1>0, <2>1 DEF ApprovalsTypeOK
    <2>4. \A j \in Ids : resolved'[j] <= resolved[j]
      BY <1>0, <2>3 DEF ApprovalsTypeOK
    <2> QED BY <2>1, <2>2, <2>4, AnswersLeave
  <1>dies. ASSUME NEW c \in Calls, InvokeDies(c)
           PROVE  AnswersInv'
    BY <1>dies, AnswersLost DEF InvokeDies
  <1>2. ASSUME NEW c \in Calls, InvokeRisky(c)
        PROVE  AnswersInv'
    <2>1. PICK i \in Ids :
              /\ ask[i] = Nobody
              /\ ask' = [ask EXCEPT ![i] = c]
              /\ Sweep([status EXCEPT ![i] = "pending"], resolved)
              /\ granted' = granted
      BY <1>2 DEF InvokeRisky, CreateRequest
    <2> DEFINE st == [status EXCEPT ![i] = "pending"]
    <2>2. st \in [Ids -> Statuses] /\ ask' \in [Ids -> Calls \cup {Nobody}]
      BY <1>0, <2>1 DEF ApprovalsTypeOK, Statuses
    <2>3. Settled \in SUBSET Ids /\ i \notin Settled
      BY <2>1 DEF Settled
    <2>4. /\ \A j \in Settled : st[j] # "pending" /\ ask'[j] # Nobody
          /\ \A j \in Ids : st[j] # "none" => ask'[j] # Nobody
      BY <1>0, <2>1, <2>3, ApprovalsAssumption DEF Settled, Placed, ApprovalsTypeOK
    <2>5. Sweep(st, resolved)
      BY <2>1
    <2>6. resolved \in [Ids -> Nat] /\ \A j \in Ids : resolved[j] <= Cardinality(Settled)
      BY <1>0 DEF ApprovalsTypeOK, Placed
    <2> HIDE DEF st
    <2>7. /\ status' \in [Ids -> Statuses] /\ resolved' \in [Ids -> Nat]
          /\ stale' \subseteq stale /\ Placed' /\ CapsHold'
      BY <2>2, <2>3, <2>4, <2>5, <2>6, SweepPlaced
    <2> QED BY <1>0, <2>1, <2>2, <2>7 DEF AnswersInv, ApprovalsTypeOK
  <1>3. ASSUME NEW i \in Ids, Answer(i)
        PROVE  AnswersInv'
    <2>1. PICK how \in {"approved", "denied"} :
              /\ status[i] = "pending" /\ ask' = ask
              /\ Sweep([status EXCEPT ![i] = how], [resolved EXCEPT ![i] = Place(resolved)])
      BY <1>3 DEF Answer, Approve, Deny
    <2>2. granted' \in [Calls -> Nat]
      BY <1>0, <1>3 DEF Answer, Approve, Deny, ApprovalsTypeOK
    <2>3. /\ status' \in [Ids -> Statuses] /\ resolved' \in [Ids -> Nat]
          /\ stale' \subseteq stale /\ Placed' /\ CapsHold'
      BY <2>1, AnswersSwept
    <2> QED BY <1>0, <2>1, <2>2, <2>3 DEF AnswersInv, ApprovalsTypeOK
  <1>4. ASSUME NEW i \in Ids, RequestAges(i)
        PROVE  AnswersInv'
    <2>1. /\ UNCHANGED <<ask, status, resolved, granted>>
          /\ stale' \subseteq Ids
      BY <1>0, <1>4 DEF RequestAges, RecordAges, ApprovalsTypeOK
    <2>2. \A j \in Ids : resolved[j] <= resolved[j]
      BY <1>0 DEF ApprovalsTypeOK
    <2> QED BY <1>0, <2>1, <2>2, AnswersLeave DEF ApprovalsTypeOK
  <1>5. ASSUME NEW fault, Cabinet(fault)
        PROVE  AnswersInv'
    <2>1. ApprovalsLost \/ UNCHANGED approvalVars
      BY <1>5 DEF Cabinet
    <2> QED BY <2>1, AnswersLost
  <1>6. CASE (\E r \in Rows : UserUndoes(r)) \/ UserUndoesRecent
             \/ \E k \in cps : UserRewinds(k)
    <2>1. PICK fault \in UndoFaults : Cabinet(fault)
      BY <1>6 DEF UserUndoes, UserUndoesRecent, UserRewinds
    <2> QED BY <1>5, <2>1
  <1>7. CASE (\E c \in Calls : InvokeClean(c)) \/ (\E s \in Sessions : TurnStarts(s))
             \/ (\E r \in Rows : RowGetsOld(r))
             \/ (\E p \in Paths, x \in {Outside, Absent} : ChangedOutside(p, x))
             \/ Crash \/ UNCHANGED vars
    <2>1. ApprovalsLost \/ UNCHANGED approvalVars
      BY <1>7 DEF InvokeClean, TurnStarts, RowGetsOld, ChangedOutside, Crash, vars
    <2> QED BY <2>1, AnswersLost
  <1> QED BY <1>1, <1>dies, <1>2, <1>3, <1>4, <1>6, <1>7 DEF Next

\* The approvals are always in order.
LEMMA AnswersCorrect == Spec => []AnswersInv
  <1>1. Init => AnswersInv
    <2> SUFFICES ASSUME Init PROVE AnswersInv
      OBVIOUS
    <2>1. ApprovalsTypeOK
      BY DEF Init, ApprovalsInit, ApprovalsTypeOK, Statuses
    <2>2. In(status, {"pending"}) = {} /\ Done(status) = {} /\ Settled = {}
      BY DEF Init, ApprovalsInit, In, Done, Settled
    <2>3. CapsHold /\ Placed
      BY <2>2, FS_EmptySet, ApprovalsAssumption DEF Init, ApprovalsInit, CapsHold, Placed
    <2> QED BY <2>1, <2>3 DEF AnswersInv
  <1> QED BY <1>1, AnswersStep, PTL DEF Spec

\* CapsHold: after every operation no more requests wait, and no more answers are
\* kept, than the caps allow.
THEOREM CapsKept == Spec => []CapsHold
  <1>1. AnswersInv => CapsHold
    BY DEF AnswersInv
  <1> QED BY <1>1, AnswersCorrect, PTL

-----------------------------------------------------------------------------
(* What undoing rows does to the files *)

\* One row after another, newest first.
Steps(S, f) ==
    [n \in 0 .. MaxRows |->
        IF n = 0 THEN file
        ELSE LET r == MaxRows + 1 - n
                 newer == f[n - 1]
             IN IF r \in S /\ Undoable(r) THEN [newer EXCEPT ![Path(r)] = Before(r)]
                ELSE newer]

\* The files with the rows of S above MaxRows - n undone.
LEMMA StepsExist ==
    ASSUME NEW S
    PROVE  \E f : f = Steps(S, f)
  <1> DEFINE Next1(n, g) ==
                 LET r == MaxRows + 1 - n
                 IN IF r \in S /\ Undoable(r) THEN [g EXCEPT ![Path(r)] = Before(r)] ELSE g
             G(n, f) == [m \in 0 .. n |-> IF m = 0 THEN file ELSE Next1(m, f[m - 1])]
             T == {n \in Nat : \E f : f = G(n, f)}
  <1> HIDE DEF Next1
  <1>1. 0 \in T
    <2> DEFINE f == [m \in 0 .. 0 |-> file]
    <2>1. f = G(0, f)
      OBVIOUS
    <2> QED BY <2>1
  <1>2. ASSUME NEW n \in Nat, n \in T
        PROVE  n + 1 \in T
    <2>1. PICK f : f = G(n, f)
      BY <1>2
    <2> DEFINE h == [m \in 0 .. n + 1 |-> IF m <= n THEN f[m] ELSE Next1(m, f[m - 1])]
    <2>2. \A m \in 0 .. n : f[m] = IF m = 0 THEN file ELSE Next1(m, f[m - 1])
      BY <2>1
    <2>3. \A m \in 0 .. n + 1 : h[m] = IF m = 0 THEN file ELSE Next1(m, h[m - 1])
      <3> SUFFICES ASSUME NEW m \in 0 .. n + 1
                   PROVE  h[m] = IF m = 0 THEN file ELSE Next1(m, h[m - 1])
        OBVIOUS
      <3>1. CASE m = 0
        BY <2>2, <3>1
      <3>2. CASE m # 0
        <4>1. m - 1 \in 0 .. n /\ m - 1 \in 0 .. n + 1 /\ m - 1 <= n
          BY <3>2
        <4>2. h[m - 1] = f[m - 1]
          BY <4>1
        <4>3. h[m] = Next1(m, f[m - 1])
          BY <2>2, <3>2
        <4> QED BY <3>2, <4>2, <4>3
      <3> QED BY <3>1, <3>2
    <2>4. h = G(n + 1, h)
      <3> HIDE DEF h
      <3>1. G(n + 1, h) = [m \in 0 .. n + 1 |-> IF m = 0 THEN file ELSE Next1(m, h[m - 1])]
        OBVIOUS
      <3>2. h = [m \in 0 .. n + 1 |-> h[m]]
        BY DEF h
      <3> QED BY <2>3, <3>1, <3>2
    <2>5. \E g : g = G(n + 1, g)
      BY <2>4
    <2> QED BY <2>5
  <1>3. MaxRows \in T
    <2> HIDE DEF T
    <2> QED BY <1>1, <1>2, Induction, UndoAssumption
  <1>4. PICK f : f = G(MaxRows, f)
    BY <1>3
  <1>5. f = Steps(S, f)
    BY <1>4 DEF Steps, Next1
  <1> QED BY <1>5

\* The last of those steps is what Undone gives.
LEMMA UndoneSteps ==
    ASSUME NEW S
    PROVE  \E f : /\ f[0] = file
                  /\ \A n \in 1 .. MaxRows :
                         LET r == MaxRows + 1 - n
                         IN f[n] = IF r \in S /\ Undoable(r)
                                   THEN [f[n - 1] EXCEPT ![Path(r)] = Before(r)] ELSE f[n - 1]
                  /\ Undone(S) = f[MaxRows]
  <1> DEFINE f == CHOOSE g : g = Steps(S, g)
  <1>1. f = Steps(S, f)
    BY StepsExist
  <1>2. Undone(S) = f[MaxRows]
    BY DEF Undone, Steps
  <1> HIDE DEF f
  <1>3. f = [n \in 0 .. MaxRows |->
                IF n = 0 THEN file
                ELSE LET r == MaxRows + 1 - n
                     IN IF r \in S /\ Undoable(r) THEN [f[n - 1] EXCEPT ![Path(r)] = Before(r)]
                        ELSE f[n - 1]]
    BY <1>1 DEF Steps
  <1>4. f[0] = file
    BY <1>3, UndoAssumption
  <1>5. \A n \in 1 .. MaxRows :
            LET r == MaxRows + 1 - n
            IN f[n] = IF r \in S /\ Undoable(r)
                      THEN [f[n - 1] EXCEPT ![Path(r)] = Before(r)] ELSE f[n - 1]
    <2> TAKE n \in 1 .. MaxRows
    <2>1. n \in 0 .. MaxRows /\ n # 0
      OBVIOUS
    <2> QED BY <1>3, <2>1, Zenon
  <1> QED BY <1>2, <1>4, <1>5

\* The rows of S whose undoing writes p.
Writes(S, p) == {r \in Rows \cap S : Undoable(r) /\ Path(r) = p}

\* The types of the rows.
RowsTyped ==
    /\ rows \in 0 .. MaxRows
    /\ call \in [Rows -> Edits \cup {NoCopy}]
    /\ \A r \in Rows : IF r <= rows THEN call[r] \in Edits /\ state[r] # "none"
                       ELSE call[r] = NoCopy /\ state[r] = "none"
    /\ state \in [Rows -> {"none", "active", "undone", "expired"}]
    /\ existed \subseteq 1 .. rows /\ aged \subseteq 1 .. rows
    /\ copy \in [Rows -> Contents \cup {NoCopy}]

\* The types of the cabinet, but for what is left and what was put back.
CabinetTypes == file \in [Paths -> Contents] /\ RowsTyped /\ CheckpointsTyped

\* What an undoable row puts back is a content.
LEMMA BeforeTyped ==
    ASSUME CabinetTypes, NEW r \in Rows, Undoable(r)
    PROVE  Before(r) \in Contents
  BY DEF CabinetTypes, RowsTyped, Undoable, Before, Contents

\* Undoing rows leaves contents in the files.
LEMMA UndoneTyped ==
    ASSUME CabinetTypes, NEW S
    PROVE  Undone(S) \in [Paths -> Contents]
  <1>1. PICK f : /\ f[0] = file
                 /\ \A n \in 1 .. MaxRows :
                        LET r == MaxRows + 1 - n
                        IN f[n] = IF r \in S /\ Undoable(r)
                                  THEN [f[n - 1] EXCEPT ![Path(r)] = Before(r)] ELSE f[n - 1]
                 /\ Undone(S) = f[MaxRows]
    BY UndoneSteps
  <1> DEFINE T == {n \in Nat : n <= MaxRows => f[n] \in [Paths -> Contents]}
  <1>2. 0 \in T
    BY <1>1 DEF CabinetTypes
  <1>3. ASSUME NEW n \in Nat, n \in T
        PROVE  n + 1 \in T
    <2> SUFFICES ASSUME n + 1 <= MaxRows PROVE f[n + 1] \in [Paths -> Contents]
      OBVIOUS
    <2> DEFINE r == MaxRows - n
    <2>1. f[n] \in [Paths -> Contents]
      BY <1>3, UndoAssumption
    <2>2. r \in Rows /\ MaxRows + 1 - (n + 1) = r /\ n + 1 \in 1 .. MaxRows /\ n + 1 - 1 = n
      BY UndoAssumption DEF Rows
    <2> HIDE DEF r
    <2>3. f[n + 1] = IF r \in S /\ Undoable(r)
                     THEN [f[n] EXCEPT ![Path(r)] = Before(r)] ELSE f[n]
      BY <1>1, <2>2
    <2>4. Undoable(r) => Before(r) \in Contents
      BY <2>2, BeforeTyped
    <2> QED BY <2>1, <2>3, <2>4
  <1>4. MaxRows \in T
    <2> HIDE DEF T
    <2> QED BY <1>2, <1>3, Induction, UndoAssumption
  <1> QED BY <1>1, <1>4, UndoAssumption

\* Undoing S leaves in p what the oldest of its rows that write p puts back.
LEMMA UndoneAt ==
    ASSUME CabinetTypes, NEW S, NEW p \in Paths
    PROVE  /\ Writes(S, p) = {} => Undone(S)[p] = file[p]
           /\ \A r \in Writes(S, p) :
                  (\A q \in Writes(S, p) : r <= q) => Undone(S)[p] = Before(r)
  <1>1. PICK f : /\ f[0] = file
                 /\ \A n \in 1 .. MaxRows :
                        LET r == MaxRows + 1 - n
                        IN f[n] = IF r \in S /\ Undoable(r)
                                  THEN [f[n - 1] EXCEPT ![Path(r)] = Before(r)] ELSE f[n - 1]
                 /\ Undone(S) = f[MaxRows]
    BY UndoneSteps
  <1> DEFINE Newer(n) == {r \in Writes(S, p) : r > MaxRows - n}
             T == {n \in Nat : n <= MaxRows =>
                      /\ f[n] \in [Paths -> Contents]
                      /\ Newer(n) = {} => f[n][p] = file[p]
                      /\ \A r \in Newer(n) :
                             (\A q \in Newer(n) : r <= q) => f[n][p] = Before(r)}
  <1>2. 0 \in T
    <2>1. Newer(0) = {}
      BY UndoAssumption DEF Writes, Rows
    <2> HIDE DEF Newer
    <2> QED BY <1>1, <2>1 DEF CabinetTypes
  <1>3. ASSUME NEW n \in Nat, n \in T
        PROVE  n + 1 \in T
    <2> SUFFICES ASSUME n + 1 <= MaxRows
                 PROVE  /\ f[n + 1] \in [Paths -> Contents]
                        /\ Newer(n + 1) = {} => f[n + 1][p] = file[p]
                        /\ \A r \in Newer(n + 1) :
                               (\A q \in Newer(n + 1) : r <= q) => f[n + 1][p] = Before(r)
      OBVIOUS
    <2> DEFINE t == MaxRows - n
    <2>1. /\ f[n] \in [Paths -> Contents]
          /\ Newer(n) = {} => f[n][p] = file[p]
          /\ \A r \in Newer(n) : (\A q \in Newer(n) : r <= q) => f[n][p] = Before(r)
      BY <1>3, UndoAssumption
    <2>2. t \in Rows /\ MaxRows + 1 - (n + 1) = t /\ n + 1 \in 1 .. MaxRows /\ n + 1 - 1 = n
      BY UndoAssumption DEF Rows
    <2>3. Newer(n + 1) = Newer(n) \cup (Writes(S, p) \cap {t}) /\ \A q \in Newer(n) : q > t
      <3>1. \A q \in Writes(S, p) : q \in Int
        BY DEF Writes, Rows
      <3>2. \A q \in Int : q > MaxRows - (n + 1) <=> q > t \/ q = t
        BY UndoAssumption
      <3> HIDE DEF t
      <3> QED BY <3>1, <3>2 DEF t
    <2> HIDE DEF t, Newer
    <2>4. f[n + 1] = IF t \in S /\ Undoable(t)
                     THEN [f[n] EXCEPT ![Path(t)] = Before(t)] ELSE f[n]
      BY <1>1, <2>2
    <2>5. Undoable(t) => Before(t) \in Contents
      BY <2>2, BeforeTyped
    <2>6. f[n + 1] \in [Paths -> Contents]
      BY <2>1, <2>4, <2>5
    <2>7. CASE t \in Writes(S, p)
      <3>1. f[n + 1][p] = Before(t)
        BY <2>1, <2>4, <2>7 DEF Writes
      <3>2. t \in Newer(n + 1) /\ t \in Int
        BY <2>2, <2>3, <2>7, UndoAssumption DEF Rows
      <3>3. ASSUME NEW r \in Newer(n + 1), \A q \in Newer(n + 1) : r <= q
            PROVE  r = t
        <4>1. r <= t
          BY <3>2, <3>3
        <4>2. r = t \/ (r > t /\ r \in Rows)
          BY <2>3 DEF Newer, Writes
        <4> QED BY <3>2, <4>1, <4>2, UndoAssumption DEF Rows
      <3> QED BY <2>6, <3>1, <3>2, <3>3
    <2>8. CASE t \notin Writes(S, p)
      <3>1. f[n + 1][p] = f[n][p]
        BY <2>1, <2>2, <2>4, <2>8 DEF Writes
      <3>2. Newer(n + 1) = Newer(n)
        BY <2>3, <2>8
      <3> QED BY <2>1, <2>6, <3>1, <3>2
    <2> QED BY <2>7, <2>8
  <1>4. MaxRows \in T
    <2> HIDE DEF T
    <2> QED BY <1>2, <1>3, Induction, UndoAssumption
  <1>5. Newer(MaxRows) = Writes(S, p)
    BY UndoAssumption DEF Writes, Rows
  <1> HIDE DEF Newer
  <1> QED BY <1>1, <1>4, <1>5, UndoAssumption

\* Any rows that write p have an oldest one.
LEMMA Oldest ==
    ASSUME NEW U \in SUBSET Rows, U # {}
    PROVE  \E r \in U : \A q \in U : r <= q
  BY Least, UndoAssumption DEF Rows

\* Only the rows that write p matter to it.
LEMMA UndoneSame ==
    ASSUME CabinetTypes, NEW S, NEW T, NEW p \in Paths, Writes(S, p) = Writes(T, p)
    PROVE  Undone(S)[p] = Undone(T)[p]
  <1>1. CASE Writes(S, p) = {}
    BY <1>1, UndoneAt
  <1>2. CASE Writes(S, p) # {}
    <2>1. PICK r \in Writes(S, p) : \A q \in Writes(S, p) : r <= q
      BY <1>2, Oldest DEF Writes
    <2>2. Undone(S)[p] = Before(r)
      BY <2>1, UndoneAt
    <2>3. Undone(T)[p] = Before(r)
      BY <2>1, UndoneAt
    <2> QED BY <2>2, <2>3
  <1> QED BY <1>1, <1>2

-----------------------------------------------------------------------------
(* The way back to a checkpoint *)

\* The active rows since k that can be undone and write p.
Changes(k, p) == {r \in Active : r > k.rows /\ Path(r) = p /\ Undoable(r)}

\* Undoing them brings p back: the oldest of them holds what p was at k, and if
\* there is none p is still that.
Leads(k, p) ==
    /\ Changes(k, p) = {} => file[p] = k.files[p]
    /\ \A r \in Changes(k, p) :
           (\A q \in Changes(k, p) : r <= q) => Before(r) = k.files[p]

WaysLead == \A k \in cps : \A p \in k.whole : Leads(k, p)

\* What holds of the cabinet after every step.
CabinetInv ==
    /\ file \in [Paths -> Contents]
    /\ RowsTyped
    /\ CheckpointsTyped
    /\ \A k \in cps : k.rows <= rows
    /\ WaysLead

\* The invariant has the types in it.
LEMMA CabinetTyped == CabinetInv => CabinetTypes
  BY DEF CabinetInv, CabinetTypes

\* l is checkpoint k with fewer ways back.
Narrowed(l, k) ==
    /\ l \in [session : Sessions, rows : 0 .. MaxRows,
              files : [Paths -> Contents], whole : SUBSET Paths]
    /\ l.session = k.session /\ l.rows = k.rows /\ l.files = k.files
    /\ l.whole \subseteq k.whole

\* Taking ways back from a checkpoint leaves a checkpoint.
LEMMA NarrowedBy ==
    ASSUME CheckpointsTyped, NEW k \in cps, NEW X
    PROVE  /\ Narrowed([k EXCEPT !.whole = @ \ X], k)
           /\ [k EXCEPT !.whole = @ \ X].whole = k.whole \ X
  BY DEF CheckpointsTyped, Narrowed

\* Marking rows and freeing copies keeps the rows typed, and takes away from the
\* changes since a checkpoint what is marked, expires or is freed.
LEMMA MarkedRows ==
    ASSUME RowsTyped, NEW gone \in SUBSET Active, NEW S \in SUBSET Active,
           NEW X \in SUBSET Rows,
           NEW kept, Marked(gone, S), Freed(gone \cup {q \in S : Undoable(q)} \cup X, kept)
    PROVE  /\ RowsTyped'
           /\ \A k, p :
                /\ Changes(k, p)' \subseteq Changes(k, p) \ (gone \cup S)
                /\ Changes(k, p) \ (gone \cup S \cup X) \subseteq Changes(k, p)'
                /\ \A r \in Changes(k, p)' : Before(r)' = Before(r)
  <1>1. /\ state' = [r \in Rows |-> IF r \in gone THEN "expired"
                                    ELSE IF r \in S /\ Undoable(r) THEN "undone" ELSE state[r]]
        /\ rows' = rows /\ call' = call /\ existed' = existed /\ aged' = aged
    BY DEF Marked
  <1> DEFINE G == gone \cup {q \in S : Undoable(q)} \cup X
  <1>2. copy' = [r \in Rows |-> IF r \in G THEN NoCopy ELSE copy[r]]
    BY DEF Freed
  <1> HIDE DEF G
  <1>3. \A r \in Active : r <= rows /\ r \in Rows
    BY DEF RowsTyped, Active
  <1>4. RowsTyped'
    <2>1. state' \in [Rows -> {"none", "active", "undone", "expired"}]
      BY <1>1 DEF RowsTyped
    <2>2. copy' \in [Rows -> Contents \cup {NoCopy}]
      BY <1>2 DEF RowsTyped
    <2>3. \A r \in Rows : IF r <= rows THEN state'[r] # "none" ELSE state'[r] = "none"
      <3> TAKE r \in Rows
      <3>1. state'[r] = IF r \in gone THEN "expired"
                        ELSE IF r \in S /\ Undoable(r) THEN "undone" ELSE state[r]
        BY <1>1
      <3>2. r \in gone \/ r \in S => r <= rows
        BY <1>3
      <3>3. IF r <= rows THEN state[r] # "none" ELSE state[r] = "none"
        BY DEF RowsTyped
      <3> QED BY <3>1, <3>2, <3>3
    <2> QED BY <1>1, <2>1, <2>2, <2>3 DEF RowsTyped
  <1>5. ASSUME NEW k, NEW p
        PROVE  /\ Changes(k, p)' \subseteq Changes(k, p) \ (gone \cup S)
               /\ Changes(k, p) \ (gone \cup S \cup X) \subseteq Changes(k, p)'
               /\ \A r \in Changes(k, p)' : Before(r)' = Before(r)
    <2>1. \A r \in Rows : Path(r)' = Path(r)
      BY <1>1 DEF Path
    <2>2. \A r \in Rows : Undoable(r)' <=> (r \in existed => copy'[r] # NoCopy)
      BY <1>1 DEF Undoable
    <2>3. \A r \in Rows : Undoable(r)' => Undoable(r) /\ (r \in existed => copy'[r] = copy[r])
      BY <1>2, <2>2 DEF Undoable
    <2>4. \A r \in Rows \ G : copy'[r] = copy[r]
      BY <1>2
    <2>5. ASSUME NEW r \in Changes(k, p)'
          PROVE  r \in Changes(k, p) \ (gone \cup S) /\ Before(r)' = Before(r)
      <3>1. r \in Rows /\ state'[r] = "active" /\ r > k.rows /\ Path(r) = p
            /\ Undoable(r) /\ (r \in existed => copy'[r] = copy[r])
        BY <2>1, <2>3 DEF Changes, Active
      <3>2. r \notin gone /\ r \notin S /\ state[r] = "active"
        BY <1>1, <3>1
      <3> QED BY <1>1, <3>1, <3>2 DEF Changes, Active, Before
    <2>6. ASSUME NEW r \in Changes(k, p) \ (gone \cup S \cup X)
          PROVE  r \in Changes(k, p)'
      <3>1. r \in Rows /\ r \notin G /\ state[r] = "active" /\ r > k.rows /\ Path(r) = p /\ Undoable(r)
        BY DEF Changes, Active, G
      <3>2. state'[r] = "active" /\ copy'[r] = copy[r]
        BY <1>1, <2>4, <3>1
      <3>3. Undoable(r)'
        BY <2>2, <3>1, <3>2 DEF Undoable
      <3> QED BY <2>1, <3>1, <3>2, <3>3 DEF Changes, Active
    <2> QED BY <2>5, <2>6
  <1> QED BY <1>4, <1>5

\* After the rows of S are undone the way back still leads there, if S holds no
\* row from before k and no row of p below a change that stays.
LEMMA LeadsKept ==
    ASSUME CabinetTypes, NEW k \in cps, NEW l, l.rows = k.rows, l.files = k.files,
           NEW p \in Paths, Leads(k, p), NEW S \in SUBSET Active,
           Changes(k, p)' \subseteq Changes(k, p),
           \A r \in Changes(k, p)' : Before(r)' = Before(r),
           \A r \in Changes(k, p) : r \notin S => r \in Changes(k, p)',
           \A q \in S : Path(q) = p => q > k.rows,
           \A q \in S, r \in Changes(k, p) : Path(q) = p /\ r \notin S => ~(r > q),
           \A q \in S, r \in Changes(k, p)' : Path(q) = p /\ r \in S => r <= q,
           file'[p] = Undone(S)[p] \/ Changes(k, p)' # {}
    PROVE  Leads(l, p)'
  <1> DEFINE U == Changes(k, p)
             V == Changes(k, p)'
  <1>1. Changes(l, p)' = V
    BY DEF Changes
  <1>2. U \subseteq Rows /\ \A r \in Rows : r \in Int
    BY DEF Changes, Active, Rows
  <1>3. ASSUME V = {}
        PROVE  file'[p] = k.files[p]
    <2>1. U \subseteq S
      BY <1>3
    <2>2. Writes(S, p) = U
      <3>1. U \subseteq Writes(S, p)
        BY <1>2, <2>1 DEF Writes, Changes
      <3>2. Writes(S, p) \subseteq U
        BY DEF Writes, Changes
      <3> QED BY <3>1, <3>2
    <2>3. file'[p] = Undone(S)[p]
      BY <1>3
    <2>4. CASE U = {}
      <3>1. Undone(S)[p] = file[p]
        BY <2>2, <2>4, UndoneAt
      <3> QED BY <2>3, <2>4, <3>1 DEF Leads
    <2>5. CASE U # {}
      <3> HIDE DEF U
      <3>1. PICK r \in U : \A q \in U : r <= q
        BY <1>2, <2>5, Oldest
      <3>2. Undone(S)[p] = Before(r)
        BY <2>2, <3>1, UndoneAt
      <3>3. Before(r) = k.files[p]
        BY <3>1 DEF Leads, U
      <3> QED BY <2>3, <3>2, <3>3
    <2> QED BY <2>4, <2>5
  <1>4. ASSUME NEW r \in V, \A q \in V : r <= q
        PROVE  Before(r)' = k.files[p]
    <2>1. \A q \in U : r <= q
      <3> SUFFICES ASSUME NEW q \in U, q \notin V PROVE r <= q
        BY <1>4
      <3>1. q \in S /\ Path(q) = p
        BY DEF Changes
      <3>2. CASE r \in S
        BY <3>1, <3>2
      <3>3. CASE r \notin S
        <4>1. ~(r > q)
          BY <3>1, <3>3
        <4> QED BY <1>2, <4>1
      <3> QED BY <3>2, <3>3
    <2>2. Before(r) = k.files[p]
      BY <2>1 DEF Leads
    <2> QED BY <2>2
  <1>5. (V = {} => file'[p] = k.files[p])
        /\ \A r \in V : (\A q \in V : r <= q) => Before(r)' = k.files[p]
    BY <1>3, <1>4
  <1> HIDE DEF U, V
  <1>6. Changes(l, p)' = {} => file'[p] = l.files[p]
    BY <1>1, <1>5
  <1>7. \A r \in Changes(l, p)' :
            (\A q \in Changes(l, p)' : r <= q) => Before(r)' = l.files[p]
    BY <1>1, <1>5
  <1> QED BY <1>6, <1>7 DEF Leads

\* The files of S are undone, all of its rows are marked or all but the oldest, and
\* the checkpoints that are left keep no way back that this breaks.
LEMMA UndoneKeeps ==
    ASSUME CabinetInv, NEW gone \in SUBSET Active, NEW S \in SUBSET Active,
           NEW M \in SUBSET S, NEW X \in SUBSET S,
           \A r \in S \ M, q \in S : r <= q,
           NEW kept, Marked(gone, M), Freed(gone \cup {q \in M : Undoable(q)} \cup X, kept),
           file' \in [Paths -> Contents],
           \A l \in cps' : \E k \in cps :
               /\ Narrowed(l, k)
               /\ l.whole \cap LostBy(k, gone, S) = {}
               /\ \A p \in l.whole : file'[p] = Undone(S)[p] \/ Changes(k, p)' # {}
    PROVE  CabinetInv'
  <1>1. X \in SUBSET Rows /\ M \in SUBSET Active
    BY DEF Active
  <1>2. CabinetTypes /\ RowsTyped /\ CheckpointsTyped /\ WaysLead
    BY CabinetTyped DEF CabinetInv
  <1>3. /\ RowsTyped'
        /\ \A k, p :
             /\ Changes(k, p)' \subseteq Changes(k, p) \ (gone \cup M)
             /\ Changes(k, p) \ (gone \cup M \cup X) \subseteq Changes(k, p)'
             /\ \A r \in Changes(k, p)' : Before(r)' = Before(r)
    BY <1>1, <1>2, MarkedRows
  <1>4. rows' = rows
    BY DEF Marked
  <1>5. CheckpointsTyped' /\ \A l \in cps' : l.rows <= rows'
    BY <1>4 DEF CheckpointsTyped, Narrowed, CabinetInv
  <1>6. ASSUME NEW l \in cps', NEW p \in l.whole
        PROVE  Leads(l, p)'
    <2>1. PICK k \in cps :
              /\ Narrowed(l, k)
              /\ l.whole \cap LostBy(k, gone, S) = {}
              /\ \A t \in l.whole : file'[t] = Undone(S)[t] \/ Changes(k, t)' # {}
      OBVIOUS
    <2>2. l.rows = k.rows /\ l.files = k.files /\ p \in k.whole /\ p \in Paths
      BY <2>1 DEF Narrowed
    <2>3. Leads(k, p)
      BY <1>2, <2>2 DEF WaysLead
    <2>4. p \notin LostBy(k, gone, S)
      BY <2>1
    <2>5. \A q \in gone : q > k.rows => Path(q) # p
      BY <2>4 DEF LostBy
    <2>6. \A q \in S : Path(q) = p => ~(q <= k.rows)
      BY <2>4 DEF LostBy
    <2>7. \A q \in S : Path(q) = p => q > k.rows
      <3>1. \A q \in S : q \in Int
        BY DEF Active, Rows
      <3>2. k.rows \in Int
        BY <1>2 DEF CheckpointsTyped
      <3> QED BY <2>6, <3>1, <3>2
    <2>8. \A q \in S, r \in Active \ (S \cup gone) : Path(q) = p /\ Path(r) = p => ~(r > q)
      BY <2>4 DEF LostBy
    <2>9. \A r \in Changes(k, p) : r \in Active /\ r \notin gone /\ Path(r) = p
      BY <2>5 DEF Changes
    <2>10. \A r \in Changes(k, p) : r \notin S => r \in Changes(k, p)'
      BY <1>3, <2>9
    <2>11. \A q \in S, r \in Changes(k, p) : Path(q) = p /\ r \notin S => ~(r > q)
      BY <2>8, <2>9
    <2>12. \A q \in S, r \in Changes(k, p)' : Path(q) = p /\ r \in S => r <= q
      BY <1>3
    <2>13. Changes(k, p)' \subseteq Changes(k, p)
           /\ \A r \in Changes(k, p)' : Before(r)' = Before(r)
      BY <1>3
    <2>14. file'[p] = Undone(S)[p] \/ Changes(k, p)' # {}
      BY <2>1
    <2> QED BY <1>2, <2>2, <2>3, <2>7, <2>10, <2>11, <2>12, <2>13, <2>14, LeadsKept
  <1>7. WaysLead'
    BY <1>6 DEF WaysLead
  <1> QED BY <1>3, <1>5, <1>7 DEF CabinetInv

\* An undo that goes well keeps the cabinet in order.
LEMMA AllUndoneKeeps ==
    ASSUME CabinetInv, NEW K \in SUBSET cps, NEW gone \in SUBSET Active,
           NEW S \in SUBSET Active, NEW kept, AllUndone(K, gone, S, kept)
    PROVE  CabinetInv'
  <1>1. CabinetTypes /\ CheckpointsTyped
    BY CabinetTyped DEF CabinetInv
  <1>2. file' = Undone(S) /\ file' \in [Paths -> Contents]
    BY <1>1, UndoneTyped DEF AllUndone, PutBack
  <1>3. Marked(gone, S) /\ Freed(gone \cup {q \in S : Undoable(q)} \cup {}, kept)
    <2>1. gone \cup {q \in S : Undoable(q)} \cup {} = gone \cup {q \in S : Undoable(q)}
      OBVIOUS
    <2> QED BY <2>1 DEF AllUndone
  <1>4. ASSUME NEW l \in cps'
        PROVE  \E k \in cps :
                   /\ Narrowed(l, k)
                   /\ l.whole \cap LostBy(k, gone, S) = {}
                   /\ \A p \in l.whole : file'[p] = Undone(S)[p] \/ Changes(k, p)' # {}
    <2>1. PICK k \in K : l = [k EXCEPT !.whole = @ \ LostBy(k, gone, S)]
      BY DEF AllUndone
    <2>2. Narrowed(l, k) /\ l.whole = k.whole \ LostBy(k, gone, S)
      BY <1>1, <2>1, NarrowedBy
    <2> QED BY <1>2, <2>2
  <1>5. \A r \in S \ S, q \in S : r <= q
    OBVIOUS
  <1>6. {} \in SUBSET S /\ S \in SUBSET S
    OBVIOUS
  <1> QED BY <1>2, <1>3, <1>4, <1>5, <1>6, UndoneKeeps

\* So does one that stops at a row it cannot mark.
LEMMA StopsKeeps ==
    ASSUME CabinetInv, NEW K \in SUBSET cps, NEW gone \in SUBSET Active,
           NEW S \in SUBSET Active, Stops(K, gone, S)
    PROVE  CabinetInv'
  <1>1. CabinetTypes /\ CheckpointsTyped
    BY CabinetTyped DEF CabinetInv
  <1>2. PICK r \in S :
            LET newer == {q \in S : q > r} IN
            /\ file' = Undone(newer \cup {r})
            /\ Marked(gone, newer)
            /\ Freed(gone \cup {q \in newer : Undoable(q)} \cup {r}, {})
            /\ cps' = {[k EXCEPT !.whole = @ \ LostBy(k, gone, newer \cup {r})] : k \in K}
    BY DEF Stops, PutBack
  <1> DEFINE M == {q \in S : q > r}
             T == M \cup {r}
  <1>3. file' = Undone(T) /\ file' \in [Paths -> Contents]
    <2>1. file' = Undone(T)
      BY <1>2
    <2> QED BY <1>1, <2>1, UndoneTyped
  <1>4. ASSUME NEW l \in cps'
        PROVE  \E k \in cps :
                   /\ Narrowed(l, k)
                   /\ l.whole \cap LostBy(k, gone, T) = {}
                   /\ \A p \in l.whole : file'[p] = Undone(T)[p] \/ Changes(k, p)' # {}
    <2>1. PICK k \in K : l = [k EXCEPT !.whole = @ \ LostBy(k, gone, T)]
      BY <1>2
    <2>2. Narrowed(l, k) /\ l.whole = k.whole \ LostBy(k, gone, T)
      BY <1>1, <2>1, NarrowedBy
    <2> QED BY <1>3, <2>2
  <1>5. \A q \in T \ M, t \in T : q <= t
    <2>1. \A q \in S : q \in Int
      BY DEF Active, Rows
    <2> QED BY <2>1
  <1>6. T \in SUBSET Active /\ M \in SUBSET T /\ {r} \in SUBSET T
    OBVIOUS
  <1>7. Marked(gone, M) /\ Freed(gone \cup {q \in M : Undoable(q)} \cup {r}, {})
    BY <1>2
  <1> HIDE DEF M, T
  <1> QED BY <1>3, <1>4, <1>5, <1>6, <1>7, UndoneKeeps

\* So does one in which the write of a row fails.
LEMMA OneFailsKeeps ==
    ASSUME CabinetInv, NEW K \in SUBSET cps, NEW gone \in SUBSET Active,
           NEW S \in SUBSET Active, gone \cap S = {}, OneFails(K, gone, S)
    PROVE  CabinetInv'
  <1>1. CabinetTypes /\ RowsTyped /\ CheckpointsTyped
    BY CabinetTyped DEF CabinetInv
  <1> DEFINE Fails(r, torn) ==
            LET rest == S \ {r}
                older == {q \in rest : q < r}
                half == [Undone(rest \ older) EXCEPT ![Path(r)] = IF torn # {} THEN Torn ELSE @]
            IN /\ Undoable(r)
               /\ file' = [p \in Paths |->
                             IF \E q \in older : Path(q) = p /\ Undoable(q)
                             THEN Undone(rest)[p] ELSE half[p]]
               /\ Marked(gone, rest)
               /\ Freed(gone \cup {q \in rest : Undoable(q)}, {})
               /\ cps' = {[k EXCEPT !.whole = @ \
                               (LostBy(k, gone, rest)
                                \cup {Path(q) : q \in {t \in torn : t <= k.rows}})] : k \in K}
  <1>2. PICK r \in S : \E torn \in {{}, {r}} : Fails(r, torn)
    <2>1. \E r \in S : \E torn \in {{}, {r}} : Fails(r, torn)
      BY Zenon DEF OneFails
    <2> HIDE DEF Fails
    <2> QED BY <2>1
  <1> HIDE DEF Fails
  <1>torn. PICK torn \in {{}, {r}} : Fails(r, torn)
    BY <1>2
  <1> DEFINE T == S \ {r}
             older == {q \in T : q < r}
             half == [Undone(T \ older) EXCEPT ![Path(r)] = IF torn # {} THEN Torn ELSE @]
             none == {}
  <1>3. /\ Undoable(r)
        /\ file' = [p \in Paths |-> IF \E q \in older : Path(q) = p /\ Undoable(q)
                                    THEN Undone(T)[p] ELSE half[p]]
        /\ Marked(gone, T)
        /\ Freed(gone \cup {q \in T : Undoable(q)}, none)
        /\ cps' = {[k EXCEPT !.whole = @ \
                        (LostBy(k, gone, T)
                         \cup {Path(q) : q \in {t \in torn : t <= k.rows}})] : k \in K}
    BY <1>torn DEF Fails
  <1>4. Undone(T) \in [Paths -> Contents] /\ Undone(T \ older) \in [Paths -> Contents]
    BY <1>1, UndoneTyped
  <1>5. half \in [Paths -> Contents] /\ \A p \in Paths :
            half[p] = IF torn # {} /\ p = Path(r) THEN Torn ELSE Undone(T \ older)[p]
    BY <1>4 DEF Contents
  <1>6. file' \in [Paths -> Contents]
    BY <1>3, <1>4, <1>5
  <1>7. Freed(gone \cup {q \in T : Undoable(q)} \cup none, none)
    <2>1. gone \cup {q \in T : Undoable(q)} \cup none = gone \cup {q \in T : Undoable(q)}
      OBVIOUS
    <2> QED BY <1>3, <2>1
  <1>8. none \in SUBSET T /\ none \in SUBSET Rows /\ T \in SUBSET T /\ T \in SUBSET Active
        /\ \A q \in T \ T, t \in T : q <= t
    OBVIOUS
  <1>9. ASSUME NEW k, NEW p, r > k.rows, Path(r) = p
        PROVE  r \in Changes(k, p)'
    <2>1. Changes(k, p) \ (gone \cup T \cup none) \subseteq Changes(k, p)'
      <3> HIDE DEF T, none
      <3> QED BY <1>1, <1>3, <1>7, <1>8, MarkedRows
    <2>2. r \in Changes(k, p)
      BY <1>3, <1>9 DEF Changes
    <2> QED BY <2>1, <2>2
  <1>10. ASSUME NEW p \in Paths, ~(torn # {} /\ p = Path(r))
         PROVE  file'[p] = Undone(T)[p]
    <2>1. CASE \E q \in older : Path(q) = p /\ Undoable(q)
      BY <1>3, <2>1
    <2>2. CASE ~\E q \in older : Path(q) = p /\ Undoable(q)
      <3>1. file'[p] = Undone(T \ older)[p]
        BY <1>3, <1>5, <1>10, <2>2
      <3>2. Writes(T \ older, p) = Writes(T, p)
        BY <2>2 DEF Writes
      <3>3. Undone(T \ older)[p] = Undone(T)[p]
        <4> HIDE DEF T, older
        <4> QED BY <1>1, <3>2, UndoneSame
      <3> QED BY <3>1, <3>3
    <2> QED BY <2>1, <2>2
  <1>11. ASSUME NEW l \in cps'
         PROVE  \E k \in cps :
                    /\ Narrowed(l, k)
                    /\ l.whole \cap LostBy(k, gone, T) = {}
                    /\ \A p \in l.whole : file'[p] = Undone(T)[p] \/ Changes(k, p)' # {}
    <2>1. PICK k \in K :
              l = [k EXCEPT !.whole = @ \ (LostBy(k, gone, T)
                                  \cup {Path(q) : q \in {t \in torn : t <= k.rows}})]
      BY <1>3
    <2>2. Narrowed(l, k)
          /\ l.whole = k.whole \ (LostBy(k, gone, T)
                                  \cup {Path(q) : q \in {t \in torn : t <= k.rows}})
      BY <1>1, <2>1, NarrowedBy
    <2>3. ASSUME NEW p \in l.whole
          PROVE  file'[p] = Undone(T)[p] \/ Changes(k, p)' # {}
      <3>1. p \in Paths
        BY <2>2 DEF Narrowed
      <3>2. CASE torn # {} /\ p = Path(r)
        <4>1. ~(r <= k.rows)
          <5> SUFFICES ASSUME r <= k.rows PROVE FALSE
            OBVIOUS
          <5>1. torn = {r}
            BY <3>2
          <5>2. r \in {t \in torn : t <= k.rows}
            BY <5>1
          <5> QED BY <2>2, <3>2, <5>2
        <4>2. r \in Int /\ k.rows \in Int
          BY <1>1 DEF CheckpointsTyped, Active, Rows
        <4>3. r > k.rows
          BY <4>1, <4>2
        <4>4. r \in Changes(k, p)'
          BY <1>9, <3>2, <4>3
        <4> QED BY <4>4
      <3>3. CASE ~(torn # {} /\ p = Path(r))
        BY <1>10, <3>1, <3>3
      <3> QED BY <3>2, <3>3
    <2>4. l.whole \cap LostBy(k, gone, T) = {}
      BY <2>2
    <2> HIDE DEF T
    <2> QED BY <2>2, <2>3, <2>4
  <1>12. Marked(gone, T)
    BY <1>3
  <1> HIDE DEF T, none, older, half
  <1> QED BY <1>6, <1>7, <1>8, <1>11, <1>12, UndoneKeeps

\* So does one in which the process dies: no checkpoint is left to keep.
LEMMA DiesKeeps ==
    ASSUME CabinetInv, NEW gone \in SUBSET Active, NEW S \in SUBSET Active, DiesAt(gone, S)
    PROVE  CabinetInv'
  <1>1. CabinetTypes /\ RowsTyped
    BY CabinetTyped DEF CabinetInv
  <1>2. PICK r \in S, how \in {"torn", "back", "freed"} :
            LET newer == {q \in S : q > r} IN
            /\ file' = IF how = "torn" THEN [Undone(newer) EXCEPT ![Path(r)] = Torn]
                       ELSE Undone(newer \cup {r})
            /\ Marked(gone, newer)
            /\ Freed(gone \cup {q \in newer : Undoable(q)}
                          \cup (IF how = "freed" THEN {r} ELSE {}), {})
            /\ cps' = {}
    BY DEF DiesAt, PutBack
  <1> DEFINE M == {q \in S : q > r}
             X == IF how = "freed" THEN {r} ELSE {}
  <1>3. Undone(M) \in [Paths -> Contents] /\ Undone(M \cup {r}) \in [Paths -> Contents]
    BY <1>1, UndoneTyped
  <1>4. file' \in [Paths -> Contents]
    BY <1>2, <1>3 DEF Contents
  <1>5. M \in SUBSET Active /\ X \in SUBSET Rows
    BY DEF Active
  <1>6. Marked(gone, M) /\ Freed(gone \cup {q \in M : Undoable(q)} \cup X, {}) /\ cps' = {}
    BY <1>2
  <1> HIDE DEF M, X
  <1>7. RowsTyped'
    BY <1>1, <1>5, <1>6, MarkedRows
  <1> QED BY <1>4, <1>6, <1>7 DEF CabinetInv, CheckpointsTyped, WaysLead

\* Copies of rows that expire are gone, and nothing is marked but such rows.
LEMMA FreedKeeps ==
    ASSUME CabinetInv, NEW gone \in SUBSET Active, NEW freed \in SUBSET Active,
           gone \subseteq freed, NEW kept, Marked(gone, {}), Freed(freed, kept)
    PROVE  /\ RowsTyped' /\ rows' = rows
           /\ \A k, p :
                /\ Changes(k, p)' \subseteq Changes(k, p)
                /\ Changes(k, p) \ freed \subseteq Changes(k, p)'
                /\ \A r \in Changes(k, p)' : Before(r)' = Before(r)
  <1> DEFINE S == {}
  <1>1. S \in SUBSET Active /\ freed \in SUBSET Rows /\ RowsTyped
    BY DEF Active, CabinetInv
  <1>2. Marked(gone, S) /\ Freed(gone \cup {q \in S : Undoable(q)} \cup freed, kept)
    <2>1. gone \cup {q \in S : Undoable(q)} \cup freed = freed
      OBVIOUS
    <2> QED BY <2>1
  <1>3. gone \cup S \cup freed = freed /\ rows' = rows
    BY DEF Marked
  <1> HIDE DEF S
  <1>4. /\ RowsTyped'
        /\ \A k, p :
             /\ Changes(k, p)' \subseteq Changes(k, p) \ (gone \cup S)
             /\ Changes(k, p) \ (gone \cup S \cup freed) \subseteq Changes(k, p)'
             /\ \A r \in Changes(k, p)' : Before(r)' = Before(r)
    BY <1>1, <1>2, MarkedRows
  <1> QED BY <1>3, <1>4

\* Then the files whose way back needs none of these copies, and that stay as they
\* are, still have it.
LEMMA WithoutKeeps ==
    ASSUME CabinetInv, NEW K \in SUBSET cps, NEW gone \in SUBSET Active,
           NEW freed \in SUBSET Active, gone \subseteq freed, NEW kept,
           Marked(gone, {}), Freed(freed, kept), NEW paths,
           file' \in [Paths -> Contents],
           \A p \in Paths \ paths : file'[p] = file[p],
           cps' = {Without(k, freed, paths) : k \in K}
    PROVE  CabinetInv'
  <1>1. /\ RowsTyped' /\ rows' = rows
        /\ \A k, p :
             /\ Changes(k, p)' \subseteq Changes(k, p)
             /\ Changes(k, p) \ freed \subseteq Changes(k, p)'
             /\ \A r \in Changes(k, p)' : Before(r)' = Before(r)
    BY FreedKeeps
  <1>2. CheckpointsTyped /\ WaysLead /\ \A k \in cps : k.rows <= rows
    BY DEF CabinetInv
  <1>3. ASSUME NEW l \in cps'
        PROVE  \E k \in cps :
                   /\ Narrowed(l, k)
                   /\ \A p \in l.whole : p \notin paths /\ Changes(k, p) \cap freed = {}
    <2>1. PICK k \in K : l = Without(k, freed, paths)
      OBVIOUS
    <2>2. Narrowed(l, k)
          /\ l.whole = k.whole \ ({Path(r) : r \in {q \in freed : q > k.rows}} \cup paths)
      BY <1>2, <2>1, NarrowedBy DEF Without
    <2>3. \A p \in l.whole : p \notin paths /\ Changes(k, p) \cap freed = {}
      BY <2>2 DEF Changes
    <2> QED BY <2>2, <2>3
  <1>4. ASSUME NEW l \in cps', NEW p \in l.whole
        PROVE  Leads(l, p)'
    <2>1. PICK k \in cps :
              /\ Narrowed(l, k)
              /\ \A t \in l.whole : t \notin paths /\ Changes(k, t) \cap freed = {}
      BY <1>3
    <2>2. l.rows = k.rows /\ l.files = k.files /\ p \in k.whole /\ p \in Paths
      BY <2>1 DEF Narrowed
    <2>3. Leads(k, p)
      BY <1>2, <2>2 DEF WaysLead
    <2>4. Changes(k, p)' = Changes(k, p) /\ file'[p] = file[p]
      BY <1>1, <2>1, <2>2
    <2>5. Changes(l, p)' = Changes(k, p)
      BY <2>2, <2>4 DEF Changes
    <2>6. \A r \in Changes(k, p) : Before(r)' = Before(r)
      BY <1>1, <2>4
    <2> QED BY <2>2, <2>3, <2>4, <2>5, <2>6 DEF Leads
  <1>5. CheckpointsTyped' /\ \A l \in cps' : l.rows <= rows'
    BY <1>1, <1>2, <1>3 DEF CheckpointsTyped, Narrowed
  <1> QED BY <1>1, <1>4, <1>5 DEF CabinetInv, WaysLead

\* An undo the store refuses.
LEMMA NoneUndoneKeeps ==
    ASSUME CabinetInv, NEW K \in SUBSET cps, NEW gone \in SUBSET Active, NoneUndone(K, gone)
    PROVE  CabinetInv'
  <1> DEFINE none == {}
  <1>1. PICK freed \in SUBSET gone :
            /\ file' = file
            /\ Marked(none, {}) /\ Freed(freed, none)
            /\ cps' = {Without(k, freed, none) : k \in K}
    BY DEF NoneUndone
  <1>2. file' \in [Paths -> Contents] /\ \A p \in Paths \ none : file'[p] = file[p]
    BY <1>1 DEF CabinetInv
  <1>3. none \in SUBSET Active /\ freed \in SUBSET Active /\ none \subseteq freed
    OBVIOUS
  <1> HIDE DEF none
  <1> QED BY <1>1, <1>2, <1>3, WithoutKeeps

\* Whatever goes wrong when rows are undone.
LEMMA UndoRowsKeeps ==
    ASSUME CabinetInv, NEW K \in SUBSET cps, NEW gone \in SUBSET Active,
           NEW S \in SUBSET Active, gone \cap S = {}, NEW fault, UndoRows(K, gone, S, fault)
    PROVE  CabinetInv'
  <1>1. {} \in SUBSET cps
    OBVIOUS
  <1> QED BY <1>1, AllUndoneKeeps, NoneUndoneKeeps, OneFailsKeeps, StopsKeeps, DiesKeeps
      DEF UndoRows

\* A change without a row takes the way back of its file.
LEMMA NoRowKeeps ==
    ASSUME CabinetInv, NEW c \in Edits, NEW freed \in SUBSET Expiring, NoRow(c, freed),
           file' = [file EXCEPT ![PathOf[c]] = Written(c)],
           cps' = {Without(k, freed, {PathOf[c]}) : k \in cps}
    PROVE  CabinetInv'
  <1>1. PICK gone \in {{}, Expiring} : \E kept :
            gone \subseteq freed /\ Marked(gone, {}) /\ Freed(freed, kept)
    BY DEF NoRow
  <1>2. PICK kept : Freed(freed, kept)
    BY <1>1
  <1>3. gone \in SUBSET Active /\ freed \in SUBSET Active /\ cps \in SUBSET cps
    BY DEF Expiring
  <1>4. /\ file' \in [Paths -> Contents]
        /\ \A p \in Paths \ {PathOf[c]} : file'[p] = file[p]
    BY DEF CabinetInv, Written, Contents
  <1> QED BY <1>1, <1>2, <1>3, <1>4, WithoutKeeps

\* A new row holds what its file was, and the others stay as they are unless they
\* expire.
LEMMA RecordRows ==
    ASSUME CabinetInv, NEW c \in Edits, NEW readable \in BOOLEAN, rows < MaxRows,
           NEW kept, Record(c, readable, kept), aged' = aged, NEW r, r = rows + 1, NEW p, p = PathOf[c]
    PROVE  /\ RowsTyped' /\ rows' = r
           /\ \A k, t :
                /\ Changes(k, t)' \ {r} = Changes(k, t) \ Expiring
                /\ \A q \in Changes(k, t)' \ {r} : q < r /\ Before(q)' = Before(q)
                /\ r \in Changes(k, t)' => t = p
           /\ readable => /\ \A k : r > k.rows => r \in Changes(k, p)'
                          /\ Before(r)' = file[p]
  <1> DEFINE there == file[p] # Absent /\ readable
  <1>1. RowsTyped /\ file \in [Paths -> Contents] /\ p \in Paths
    BY UndoAssumption DEF CabinetInv
  <1>2. rows \in Nat /\ r \in Rows /\ r \notin Active /\ r \notin existed /\ r \notin aged
        /\ \A q \in Active : q \in Rows /\ q <= rows
    BY <1>1, UndoAssumption DEF RowsTyped, Rows, Active
  <1>3. /\ rows' = r
        /\ call' = [call EXCEPT ![r] = c]
        /\ state' = [q \in Rows |-> IF q = r THEN "active"
                                    ELSE IF q \in Expiring THEN "expired" ELSE state[q]]
        /\ existed' = IF there THEN existed \cup {r} ELSE existed
        /\ copy' = [q \in Rows |-> IF q = r /\ there THEN file[p]
                                   ELSE IF q \in Expiring THEN NoCopy ELSE copy[q]]
    BY DEF Record
  <1> HIDE DEF there
  <1>4. /\ call'[r] = c
        /\ \A q \in Rows \ {r} : call'[q] = call[q] /\ (q \in existed' <=> q \in existed)
        /\ r \in existed' <=> there
    BY <1>1, <1>2, <1>3 DEF RowsTyped
  <1>5. RowsTyped'
    <2>1. state' \in [Rows -> {"none", "active", "undone", "expired"}]
      BY <1>1, <1>3 DEF RowsTyped
    <2>2. copy' \in [Rows -> Contents \cup {NoCopy}]
      BY <1>1, <1>3 DEF RowsTyped
    <2>3. rows' \in 0 .. MaxRows /\ 1 .. rows \subseteq 1 .. rows' /\ r \in 1 .. rows'
      BY <1>2, <1>3, UndoAssumption
    <2>4. aged' \subseteq 1 .. rows' /\ existed' \subseteq 1 .. rows'
      BY <1>1, <1>3, <2>3 DEF RowsTyped
    <2>5. call' \in [Rows -> Edits \cup {NoCopy}]
      BY <1>1, <1>3 DEF RowsTyped
    <2>6. ASSUME NEW q \in Rows
          PROVE  IF q <= rows' THEN call'[q] \in Edits /\ state'[q] # "none"
                 ELSE call'[q] = NoCopy /\ state'[q] = "none"
      <3>1. CASE q = r
        BY <1>2, <1>3, <1>4, <3>1
      <3>2. CASE q # r
        <4>1. q <= rows' <=> q <= rows
          BY <1>2, <1>3, <3>2 DEF Rows
        <4>2. IF q <= rows THEN call[q] \in Edits /\ state[q] # "none"
              ELSE call[q] = NoCopy /\ state[q] = "none"
          BY <1>1 DEF RowsTyped
        <4>3. q \in Expiring => q <= rows
          BY <1>2 DEF Expiring
        <4>4. state'[q] = IF q \in Expiring THEN "expired" ELSE state[q]
          BY <1>3, <3>2
        <4> QED BY <1>4, <3>2, <4>1, <4>2, <4>3, <4>4
      <3> QED BY <3>1, <3>2
    <2> QED BY <2>1, <2>2, <2>3, <2>4, <2>5, <2>6 DEF RowsTyped
  <1>6. ASSUME NEW q \in Rows, q # r
        PROVE  /\ q \in Active' <=> q \in Active /\ q \notin Expiring
               /\ Path(q)' = Path(q)
               /\ q \notin Expiring => (Undoable(q)' <=> Undoable(q)) /\ Before(q)' = Before(q)
    <2>1. q \in Active' <=> q \in Active /\ q \notin Expiring
      BY <1>3, <1>6 DEF Active
    <2>2. Path(q)' = Path(q)
      BY <1>4, <1>6 DEF Path
    <2>3. q \notin Expiring => copy'[q] = copy[q]
      BY <1>3, <1>6
    <2>4. q \in existed' <=> q \in existed
      BY <1>4, <1>6
    <2> QED BY <2>1, <2>2, <2>3, <2>4 DEF Undoable, Before
  <1>7. r \in Active' /\ Path(r)' = p
    BY <1>2, <1>3, <1>4 DEF Active, Path
  <1>8. ASSUME NEW k, NEW t
        PROVE  /\ Changes(k, t)' \ {r} = Changes(k, t) \ Expiring
               /\ \A q \in Changes(k, t)' \ {r} : q < r /\ Before(q)' = Before(q)
               /\ r \in Changes(k, t)' => t = p
    <2>1. ASSUME NEW q \in Changes(k, t)' \ {r}
          PROVE  q \in Changes(k, t) \ Expiring /\ q < r /\ Before(q)' = Before(q)
      <3>1. q \in Rows /\ q # r /\ q \in Active' /\ q > k.rows /\ Path(q)' = t /\ Undoable(q)'
        BY DEF Changes, Active
      <3>2. q \in Active /\ q \notin Expiring /\ Path(q) = t /\ Undoable(q) /\ Before(q)' = Before(q)
        BY <1>6, <3>1
      <3>3. q < r
        BY <1>2, <3>1, <3>2 DEF Rows
      <3> QED BY <3>1, <3>2, <3>3 DEF Changes
    <2>2. ASSUME NEW q \in Changes(k, t) \ Expiring
          PROVE  q \in Changes(k, t)' \ {r}
      <3>1. q \in Rows /\ q # r /\ q \in Active /\ q > k.rows /\ Path(q) = t /\ Undoable(q)
        BY <1>2 DEF Changes, Active
      <3>2. q \in Active' /\ Path(q)' = t /\ Undoable(q)'
        BY <1>6, <3>1
      <3> QED BY <3>1, <3>2 DEF Changes
    <2>3. r \in Changes(k, t)' => t = p
      BY <1>7 DEF Changes
    <2> QED BY <2>1, <2>2, <2>3
  <1>9. ASSUME readable
        PROVE  (\A k : r > k.rows => r \in Changes(k, p)') /\ Before(r)' = file[p]
    <2>1. file[p] \in Contents /\ file[p] # NoCopy
      BY <1>1, UndoAssumption
    <2>2. there => copy'[r] = file[p]
      BY <1>2, <1>3
    <2>3. ~there => file[p] = Absent
      BY <1>9 DEF there
    <2>4. Before(r)' = file[p]
      BY <1>4, <2>2, <2>3 DEF Before
    <2>5. Undoable(r)'
      BY <1>4, <2>1, <2>2 DEF Undoable
    <2> QED BY <1>7, <2>4, <2>5 DEF Changes
  <1> QED BY <1>3, <1>5, <1>8, <1>9

\* A change with a row keeps the cabinet in order.
LEMMA RecordKeeps ==
    ASSUME CabinetInv, NEW c \in Edits, NEW fault \in {"none", "unread", "stuck", "fail"},
           Edit(c, fault)
    PROVE  CabinetInv'
  <1>0. PICK r, p : r = rows + 1 /\ p = PathOf[c]
    OBVIOUS
  <1>1. /\ rows < MaxRows /\ (\E kept : Record(c, fault # "unread", kept)) /\ aged' = aged
        /\ file' = IF fault = "fail" THEN file ELSE [file EXCEPT ![p] = Written(c)]
        /\ cps' = {Without(k, Expiring, IF fault = "unread" THEN {p} ELSE {}) : k \in cps}
    BY <1>0 DEF Edit
  <1>2. /\ RowsTyped' /\ rows' = r
        /\ \A k, t :
             /\ Changes(k, t)' \ {r} = Changes(k, t) \ Expiring
             /\ \A q \in Changes(k, t)' \ {r} : q < r /\ Before(q)' = Before(q)
             /\ r \in Changes(k, t)' => t = p
        /\ fault # "unread" => /\ \A k : r > k.rows => r \in Changes(k, p)'
                               /\ Before(r)' = file[p]
    <2> DEFINE readable == fault # "unread"
    <2>1. readable \in BOOLEAN /\ \E kept : Record(c, readable, kept)
      BY <1>1
    <2>kept. PICK kept : Record(c, readable, kept)
      BY <2>1
    <2> HIDE DEF readable
    <2>2. /\ RowsTyped' /\ rows' = r
          /\ \A k, t :
               /\ Changes(k, t)' \ {r} = Changes(k, t) \ Expiring
               /\ \A q \in Changes(k, t)' \ {r} : q < r /\ Before(q)' = Before(q)
               /\ r \in Changes(k, t)' => t = p
          /\ readable => /\ \A k : r > k.rows => r \in Changes(k, p)'
                         /\ Before(r)' = file[p]
      BY <1>0, <1>1, <2>1, <2>kept, RecordRows
    <2> QED BY <2>2 DEF readable
  <1>3. /\ file \in [Paths -> Contents] /\ p \in Paths /\ CheckpointsTyped /\ WaysLead
        /\ rows \in Nat /\ \A k \in cps : k.rows <= rows /\ k.rows \in Nat
    BY <1>0, UndoAssumption DEF CabinetInv, CheckpointsTyped, RowsTyped
  <1>4. file' \in [Paths -> Contents] /\ \A t \in Paths : t # p => file'[t] = file[t]
    BY <1>1, <1>3 DEF Written, Contents
  <1>5. ASSUME NEW l \in cps'
        PROVE  \E k \in cps :
                   /\ Narrowed(l, k)
                   /\ \A t \in l.whole : t \in Paths /\ (t = p => fault # "unread")
                   /\ \A q \in Expiring : q > k.rows => Path(q) \notin l.whole
    <2>1. PICK k \in cps : l = Without(k, Expiring, IF fault = "unread" THEN {p} ELSE {})
      BY <1>1
    <2>2. Narrowed(l, k)
          /\ l.whole = k.whole \
                 ({Path(q) : q \in {t \in Expiring : t > k.rows}}
                  \cup (IF fault = "unread" THEN {p} ELSE {}))
      BY <1>3, <2>1, NarrowedBy DEF Without
    <2>3. \A t \in l.whole : t \in Paths
      BY <2>2 DEF Narrowed
    <2>4. fault = "unread" => p \notin l.whole
      BY <2>2
    <2>5. \A q \in Expiring : q > k.rows => Path(q) \notin l.whole
      BY <2>2
    <2> QED BY <2>2, <2>3, <2>4, <2>5
  <1>6. ASSUME NEW l \in cps', NEW t \in l.whole
        PROVE  Leads(l, t)'
    <2>1. PICK k \in cps :
              /\ Narrowed(l, k)
              /\ \A u \in l.whole : u \in Paths /\ (u = p => fault # "unread")
              /\ \A q \in Expiring : q > k.rows => Path(q) \notin l.whole
      BY <1>5
    <2> DEFINE U == Changes(k, t)
               V == Changes(k, t)'
    <2>2. l.rows = k.rows /\ l.files = k.files /\ t \in k.whole /\ t \in Paths
      BY <2>1 DEF Narrowed
    <2>3. Leads(k, t)
      BY <1>3, <2>2 DEF WaysLead
    <2>4. U \cap Expiring = {}
      BY <2>1 DEF Changes
    <2>5. V \ {r} = U /\ \A q \in U : q < r /\ Before(q)' = Before(q)
      BY <1>2, <2>4
    <2>6. Changes(l, t)' = V
      BY <2>2 DEF Changes
    <2>7. /\ U = {} => file[t] = k.files[t]
          /\ \A q \in U : (\A s \in U : q <= s) => Before(q) = k.files[t]
      BY <2>3 DEF Leads
    <2>8. r \in V => t = p
      BY <1>2
    <2>9. t = p => r \in V /\ Before(r)' = file[p]
      <3>1. r > k.rows
        BY <1>0, <1>3
      <3> QED BY <1>2, <2>1, <3>1
    <2>10. r \in Int /\ \A q \in U : q \in Int
      BY <1>0, <1>3 DEF Changes, Active, Rows
    <2> HIDE DEF U, V
    <2>11. V = {} => file'[t] = k.files[t]
      BY <1>4, <2>2, <2>5, <2>7, <2>9
    <2>12. ASSUME NEW q \in V, \A s \in V : q <= s
           PROVE  Before(q)' = k.files[t]
      <3>1. CASE q = r
        <4>1. U = {}
          <5>1. \A s \in U : s \in V /\ s < r
            BY <2>5
          <5>2. \A s \in U : q <= s /\ s < r
            BY <2>12, <5>1
          <5> QED BY <2>10, <3>1, <5>2
        <4>2. t = p /\ Before(r)' = file[t]
          BY <2>8, <2>9, <3>1
        <4> QED BY <2>7, <3>1, <4>1, <4>2
      <3>2. CASE q # r
        <4>1. q \in U /\ \A s \in U : q <= s
          BY <2>5, <2>12, <3>2
        <4> QED BY <2>5, <2>7, <4>1
      <3> QED BY <3>1, <3>2
    <2>13. \A q \in Changes(l, t)' : (\A s \in Changes(l, t)' : q <= s) => Before(q)' = l.files[t]
      BY <2>2, <2>6, <2>12
    <2>14. Changes(l, t)' = {} => file'[t] = l.files[t]
      BY <2>2, <2>6, <2>11
    <2> QED BY <2>13, <2>14 DEF Leads
  <1>7. CheckpointsTyped' /\ \A l \in cps' : l.rows <= rows'
    <2> SUFFICES ASSUME NEW l \in cps'
                 PROVE  /\ l \in [session : Sessions, rows : 0 .. MaxRows,
                                  files : [Paths -> Contents], whole : SUBSET Paths]
                        /\ l.rows <= rows'
      BY DEF CheckpointsTyped
    <2>1. PICK k \in cps : Narrowed(l, k)
      BY <1>5
    <2>2. k.rows <= rows /\ k.rows \in Nat /\ l.rows = k.rows
      BY <1>3, <2>1 DEF Narrowed
    <2> QED BY <1>0, <1>2, <1>3, <2>1, <2>2 DEF Narrowed
  <1> QED BY <1>2, <1>4, <1>6, <1>7 DEF CabinetInv, WaysLead

\* So does any change by a file tool.
LEMMA EditKeeps ==
    ASSUME CabinetInv, NEW c \in Edits, NEW fault \in {"none", "unread", "stuck", "norow", "fail"},
           Edit(c, fault)
    PROVE  CabinetInv'
  <1>1. CASE fault = "norow"
    <2>1. PICK freed \in SUBSET Expiring :
              /\ NoRow(c, freed)
              /\ cps' = {Without(k, freed, {PathOf[c]}) : k \in cps}
      BY <1>1 DEF Edit
    <2>2. file' = [file EXCEPT ![PathOf[c]] = Written(c)]
      BY <1>1 DEF Edit
    <2> QED BY <2>1, <2>2, NoRowKeeps
  <1>2. CASE fault # "norow"
    BY <1>2, RecordKeeps
  <1> QED BY <1>1, <1>2

\* So does a file tool in which the process dies.
LEMMA EditDiesKeeps ==
    ASSUME CabinetInv, NEW c \in Edits, EditDies(c)
    PROVE  CabinetInv'
  <1>1. cps' = {} /\ file' = file /\ aged' = aged /\ rows < MaxRows
    BY DEF EditDies
  <1>2. RowsTyped'
    <2>1. CASE Record(c, TRUE, {})
      <3> DEFINE readable == TRUE
                 kept == {}
      <3>1. readable \in BOOLEAN /\ Record(c, readable, kept)
        BY <2>1
      <3> HIDE DEF readable, kept
      <3>2. PICK r, p : r = rows + 1 /\ p = PathOf[c]
        OBVIOUS
      <3> QED BY <1>1, <3>1, <3>2, RecordRows
    <2>2. ASSUME NEW freed \in SUBSET Expiring, NoRow(c, freed)
          PROVE  RowsTyped'
      <3>1. PICK gone \in {{}, Expiring} : \E kept :
                gone \subseteq freed /\ Marked(gone, {}) /\ Freed(freed, kept)
        BY <2>2 DEF NoRow
      <3>2. PICK kept : Freed(freed, kept)
        BY <3>1
      <3>3. gone \in SUBSET Active /\ freed \in SUBSET Active
        BY DEF Expiring
      <3> QED BY <3>1, <3>2, <3>3, FreedKeeps
    <2> QED BY <2>1, <2>2 DEF EditDies
  <1> QED BY <1>1, <1>2 DEF CabinetInv, CheckpointsTyped, WaysLead

\* A tool that changes a file, or refuses.
LEMMA RunKeeps ==
    ASSUME CabinetInv, NEW c \in Calls, Run(c)
    PROVE  CabinetInv'
  <1>1. c \in Edits
    BY GuardAssumption
  <1>2. CASE \E fault \in {"none", "unread", "stuck", "norow", "fail"} : Edit(c, fault)
    BY <1>1, <1>2, EditKeeps
  <1>3. CASE UNCHANGED undoVars
    BY <1>3 DEF undoVars, CabinetInv, RowsTyped, CheckpointsTyped, WaysLead, Leads, Changes,
       Active, Path, Undoable, Before
  <1> QED BY <1>2, <1>3 DEF Run

\* Every step keeps the cabinet in order.
LEMMA CabinetStep == CabinetInv /\ [Next]_vars => CabinetInv'
  <1> SUFFICES ASSUME CabinetInv, [Next]_vars PROVE CabinetInv'
    OBVIOUS
  <1>0. /\ file \in [Paths -> Contents] /\ RowsTyped /\ CheckpointsTyped /\ WaysLead
        /\ rows \in Nat /\ \A k \in cps : k.rows <= rows
        /\ \A r \in Active : r <= rows /\ r \in Rows
    BY DEF CabinetInv, RowsTyped, Active
  <1>1. ASSUME UNCHANGED undoVars
        PROVE  CabinetInv'
    BY <1>1 DEF undoVars, CabinetInv, RowsTyped, CheckpointsTyped, WaysLead, Leads, Changes,
       Active, Path, Undoable, Before
  <1>2. ASSUME NEW c \in Calls, InvokeApproved(c) \/ InvokeClean(c) \/ InvokeRisky(c)
        PROVE  CabinetInv'
    <2>1. Run(c) \/ UNCHANGED undoVars
      BY <1>2 DEF InvokeApproved, InvokeClean, InvokeRisky
    <2> QED BY <1>1, <2>1, RunKeeps
  <1>dies. ASSUME NEW c \in Calls, InvokeDies(c)
           PROVE  CabinetInv'
    <2>1. c \in Edits /\ EditDies(c)
      BY <1>dies, GuardAssumption DEF InvokeDies
    <2> QED BY <2>1, EditDiesKeeps
  <1>3. ASSUME NEW i \in Ids, Answer(i) \/ RequestAges(i)
        PROVE  CabinetInv'
    <2>1. UNCHANGED undoVars
      BY <1>3 DEF Answer, RequestAges
    <2> QED BY <1>1, <2>1
  <1>4. ASSUME NEW r \in Rows, UserUndoes(r)
        PROVE  CabinetInv'
    <2>1. r \in Active /\ \E fault : UndoRows(cps, {}, {r}, fault)
      BY <1>4 DEF UserUndoes, Undo
    <2>2. {} \in SUBSET Active /\ {r} \in SUBSET Active /\ {} \cap {r} = {} /\ cps \in SUBSET cps
      BY <2>1
    <2> QED BY <2>1, <2>2, UndoRowsKeeps
  <1>5. ASSUME UserUndoesRecent
        PROVE  CabinetInv'
    <2>1. PICK S \in Recents : \E fault \in UndoFaults : UndoRows(cps, Expiring, S, fault)
      BY <1>5 DEF UserUndoesRecent, UndoRecent
    <2>2. S \in SUBSET Active /\ Expiring \in SUBSET Active /\ Expiring \cap S = {}
          /\ cps \in SUBSET cps
      BY DEF Recents, Expiring
    <2>3. PICK fault : UndoRows(cps, Expiring, S, fault)
      BY <2>1
    <2> QED BY <2>2, <2>3, UndoRowsKeeps
  <1>6. ASSUME NEW k \in cps, UserRewinds(k)
        PROVE  CabinetInv'
    <2> DEFINE K == {l \in cps : l.session = k.session => l.rows <= k.rows}
    <2>1. PICK fault : UndoRows(K, Expiring, Since(k), fault)
      BY <1>6 DEF UserRewinds, Rewind
    <2>2. Since(k) \in SUBSET Active /\ Expiring \in SUBSET Active /\ Expiring \cap Since(k) = {}
          /\ K \in SUBSET cps
      BY DEF Since, Expiring
    <2> HIDE DEF K
    <2> QED BY <2>1, <2>2, UndoRowsKeeps
  <1>7. ASSUME NEW s \in Sessions, TurnStarts(s)
        PROVE  CabinetInv'
    <2> DEFINE k == [session |-> s, rows |-> rows, files |-> file, whole |-> Paths]
    <2>1. cps' = cps \cup {k} /\ UNCHANGED <<file, rows, call, state, existed, copy, aged>>
      BY <1>7 DEF TurnStarts, Checkpoint
    <2>2. k \in [session : Sessions, rows : 0 .. MaxRows,
                 files : [Paths -> Contents], whole : SUBSET Paths]
      BY <1>0 DEF RowsTyped
    <2>3. k.rows = rows /\ k.files = file
      OBVIOUS
    <2> HIDE DEF k
    <2>4. \A p \in k.whole : Leads(k, p)
      <3> TAKE p \in k.whole
      <3>1. Changes(k, p) = {}
        <4>1. \A r \in Active : r \in Int /\ ~(r > k.rows)
          BY <1>0, <2>3 DEF Rows
        <4> QED BY <4>1 DEF Changes
      <3> QED BY <2>3, <3>1 DEF Leads
    <2>5. \A l, p : Leads(l, p)' <=> Leads(l, p)
      BY <2>1 DEF Leads, Changes, Active, Path, Undoable, Before
    <2>6. CheckpointsTyped' /\ \A l \in cps' : l.rows <= rows'
      BY <1>0, <2>1, <2>2, <2>3 DEF CheckpointsTyped
    <2>7. WaysLead'
      BY <1>0, <2>1, <2>4, <2>5 DEF WaysLead
    <2>8. RowsTyped' /\ file' \in [Paths -> Contents]
      BY <1>0, <2>1 DEF RowsTyped
    <2> QED BY <2>6, <2>7, <2>8 DEF CabinetInv
  <1>8. ASSUME NEW r \in Rows, RowGetsOld(r)
        PROVE  CabinetInv'
    <2>1. r <= rows /\ aged' = aged \cup {r}
          /\ UNCHANGED <<file, rows, call, state, existed, copy, cps>>
      BY <1>8 DEF RowGetsOld, RowAges
    <2>2. RowsTyped'
      BY <1>0, <2>1 DEF RowsTyped, Rows
    <2>3. WaysLead'
      BY <1>0, <2>1 DEF WaysLead, Leads, Changes, Active, Path, Undoable, Before
    <2> QED BY <1>0, <2>1, <2>2, <2>3 DEF CabinetInv, CheckpointsTyped
  <1>9. ASSUME NEW p \in Paths, NEW x \in {Outside, Absent}, ChangedOutside(p, x)
        PROVE  CabinetInv'
    <2>1. /\ file' = [file EXCEPT ![p] = x]
          /\ cps' = {[k EXCEPT !.whole = @ \ {p}] : k \in cps}
          /\ UNCHANGED <<rows, call, state, existed, copy, aged>>
      BY <1>9 DEF ChangedOutside, OutsideEdit
    <2>2. RowsTyped' /\ file' \in [Paths -> Contents]
      BY <1>0, <2>1 DEF RowsTyped, Contents
    <2>3. ASSUME NEW l \in cps'
          PROVE  \E k \in cps : Narrowed(l, k) /\ p \notin l.whole
      <3>1. PICK k \in cps : l = [k EXCEPT !.whole = @ \ {p}]
        BY <2>1
      <3>2. Narrowed(l, k) /\ l.whole = k.whole \ {p}
        BY <1>0, <3>1, NarrowedBy
      <3> QED BY <3>2
    <2>4. ASSUME NEW l \in cps', NEW t \in l.whole
          PROVE  Leads(l, t)'
      <3>1. PICK k \in cps : Narrowed(l, k) /\ p \notin l.whole
        BY <2>3
      <3>2. l.rows = k.rows /\ l.files = k.files /\ t \in k.whole /\ t \in Paths /\ t # p
        BY <3>1 DEF Narrowed
      <3>3. file'[t] = file[t]
        BY <1>0, <2>1, <3>2
      <3>4. Leads(k, t)
        BY <1>0, <3>2 DEF WaysLead
      <3> QED BY <2>1, <3>2, <3>3, <3>4 DEF Leads, Changes, Active, Path, Undoable, Before
    <2>5. CheckpointsTyped' /\ \A l \in cps' : l.rows <= rows'
      BY <1>0, <2>1, <2>3 DEF CheckpointsTyped, Narrowed
    <2> QED BY <2>2, <2>4, <2>5 DEF CabinetInv, WaysLead
  <1>10. CASE Crash
    <2>1. cps' = {} /\ UNCHANGED <<file, rows, call, state, existed, copy, aged>>
      BY <1>10 DEF Crash
    <2>2. RowsTyped' /\ file' \in [Paths -> Contents]
      BY <1>0, <2>1 DEF RowsTyped
    <2> QED BY <2>1, <2>2 DEF CabinetInv, CheckpointsTyped, WaysLead
  <1>11. CASE UNCHANGED vars
    <2>1. UNCHANGED undoVars
      BY <1>11 DEF vars
    <2> QED BY <1>1, <2>1
  <1> QED BY <1>2, <1>dies, <1>3, <1>4, <1>5, <1>6, <1>7, <1>8, <1>9, <1>10, <1>11 DEF Next

\* The cabinet is always in order.
LEMMA CabinetCorrect == Spec => []CabinetInv
  <1>1. Init => CabinetInv
    <2> SUFFICES ASSUME Init PROVE CabinetInv
      OBVIOUS
    <2>1. file \in [Paths -> Contents] /\ cps = {}
      BY DEF Init, UndoInit, Contents
    <2>2. RowsTyped
      BY UndoAssumption DEF Init, UndoInit, RowsTyped, Rows
    <2> QED BY <2>1, <2>2 DEF CabinetInv, CheckpointsTyped, WaysLead
  <1> QED BY <1>1, CabinetStep, PTL DEF Spec

\* RewindRestores: if the way back to a checkpoint is whole, and nothing else
\* happened to a file since, a rewind brings it back to what it was.
THEOREM RewindsRestore == Spec => []RewindRestores
  <1>1. CabinetInv => RewindRestores
    <2> SUFFICES ASSUME CabinetInv, NEW k \in cps, NEW p \in k.whole,
                        \A r \in (k.rows + 1) .. rows : Path(r) = p =>
                            SessionOf[call[r]] = k.session /\ r \notin Expiring
                 PROVE  Undone(Since(k))[p] = k.files[p]
      BY DEF RewindRestores
    <2>1. CabinetTypes /\ RowsTyped /\ Leads(k, p) /\ p \in Paths /\ k.rows \in Nat
      BY CabinetTyped DEF CabinetInv, WaysLead, CheckpointsTyped
    <2>2. \A r \in Active : r \in Rows /\ r \in Int /\ r <= rows /\ rows \in Nat
      BY <2>1 DEF RowsTyped, Active, Rows
    <2>3. Writes(Since(k), p) = Changes(k, p)
      <3>1. Writes(Since(k), p) \subseteq Changes(k, p)
        BY DEF Writes, Since, Changes
      <3>2. ASSUME NEW r \in Changes(k, p)
            PROVE  r \in Writes(Since(k), p)
        <4>1. r \in Active /\ r > k.rows /\ Path(r) = p /\ Undoable(r) /\ r \in Rows
          BY <2>2 DEF Changes
        <4>2. r \in (k.rows + 1) .. rows
          BY <2>1, <2>2, <4>1
        <4>3. r \notin aged /\ SessionOf[call[r]] = k.session
          BY <4>1, <4>2 DEF Expiring
        <4> QED BY <4>1, <4>3 DEF Writes, Since
      <3> QED BY <3>1, <3>2
    <2>4. CASE Changes(k, p) = {}
      <3>1. Undone(Since(k))[p] = file[p]
        BY <2>1, <2>3, <2>4, UndoneAt
      <3> QED BY <2>1, <2>4, <3>1 DEF Leads
    <2>5. CASE Changes(k, p) # {}
      <3>1. Changes(k, p) \in SUBSET Rows
        BY <2>2 DEF Changes
      <3>2. PICK r \in Changes(k, p) : \A q \in Changes(k, p) : r <= q
        BY <2>5, <3>1, Oldest
      <3>3. Undone(Since(k))[p] = Before(r)
        BY <2>1, <2>3, <3>2, UndoneAt
      <3> QED BY <2>1, <3>2, <3>3 DEF Leads
    <2> QED BY <2>4, <2>5
  <1> QED BY <1>1, CabinetCorrect, PTL

-----------------------------------------------------------------------------
(* Copies *)

\* What is left behind is a content, and only rows are put back.
LeftTyped == left \subseteq Contents /\ back \subseteq Rows

CopiesInv == CopyUntilBack /\ LeftTyped

\* Marking rows takes a copy only from a row that is marked too, is past the
\* window, or whose file is back.
LEMMA MarkedCopies ==
    ASSUME RowsTyped, CopiesInv, NEW gone, NEW S, NEW freed, NEW kept,
           Marked(gone, S), Freed(freed, kept),
           \A r \in freed : r \in gone \cup aged \cup back' \/ (r \in S /\ Undoable(r)),
           back \subseteq back', back' \subseteq Rows, kept \subseteq Contents
    PROVE  CopiesInv'
  <1>1. ASSUME NEW r \in Active', r \in existed', r \notin aged', r \notin back'
        PROVE  copy'[r] # NoCopy
    <2>1. r \in Rows /\ state'[r] = "active"
      BY DEF Active
    <2>2. r \notin gone /\ ~(r \in S /\ Undoable(r)) /\ r \in Active
      BY <2>1 DEF Marked, Active
    <2>3. r \in existed /\ r \notin aged /\ r \notin back
      BY <1>1 DEF Marked
    <2>4. r \notin freed
      BY <1>1, <2>2, <2>3
    <2> QED BY <2>1, <2>2, <2>3, <2>4 DEF CopiesInv, CopyUntilBack, Freed
  <1> QED BY <1>1 DEF CopiesInv, CopyUntilBack, LeftTyped, Freed

\* An undo takes only copies of such rows.
LEMMA UndoCopies ==
    ASSUME CabinetInv, CopiesInv, NEW K, NEW gone \in SUBSET Expiring,
           NEW S \in SUBSET Active, NEW fault, UndoRows(K, gone, S, fault)
    PROVE  CopiesInv'
  <1>1. RowsTyped /\ back \subseteq Rows /\ S \subseteq Rows /\ gone \subseteq Rows
    BY DEF CabinetInv, CopiesInv, LeftTyped, Expiring, Active
  <1>2. ASSUME NEW kept \in Kept(gone \cup {r \in S : Undoable(r)}, fault),
               AllUndone(K, gone, S, kept)
        PROVE  CopiesInv'
    <2> DEFINE freed == gone \cup {r \in S : Undoable(r)}
    <2>1. kept \subseteq Contents
      <3>1. freed \subseteq Rows
        BY <1>1
      <3>2. \A r \in freed : copy[r] \in Contents \cup {NoCopy}
        BY <1>1, <3>1 DEF RowsTyped
      <3>3. kept \in Kept(freed, fault)
        OBVIOUS
      <3> HIDE DEF freed
      <3> QED BY <3>2, <3>3 DEF Kept
    <2>2. Marked(gone, S) /\ Freed(freed, kept) /\ back \subseteq back' /\ back' \subseteq Rows
      BY <1>1, <1>2 DEF AllUndone, PutBack
    <2>3. \A r \in freed : r \in gone \cup aged \cup back' \/ (r \in S /\ Undoable(r))
      OBVIOUS
    <2> HIDE DEF freed
    <2> QED BY <1>1, <2>1, <2>2, <2>3, MarkedCopies
  <1>3. ASSUME NEW L, NoneUndone(L, gone)
        PROVE  CopiesInv'
    <2> DEFINE none == {}
    <2>1. PICK freed \in SUBSET gone : Marked(none, none) /\ Freed(freed, none) /\ back' = back
      BY <1>3 DEF NoneUndone
    <2>2. \A r \in freed : r \in none \cup aged \cup back' \/ (r \in none /\ Undoable(r))
      BY DEF Expiring
    <2>3. none \subseteq Contents
      OBVIOUS
    <2> HIDE DEF none
    <2> QED BY <1>1, <2>1, <2>2, <2>3, MarkedCopies
  <1>4. ASSUME NEW T \in SUBSET S, NEW U, Marked(gone, T),
               Freed(gone \cup {q \in T : Undoable(q)} \cup U, {}),
               U \subseteq back', back \subseteq back', back' \subseteq Rows
        PROVE  CopiesInv'
    <2> DEFINE freed == gone \cup {q \in T : Undoable(q)} \cup U
               none == {}
    <2>1. Freed(freed, none) /\ none \subseteq Contents
      BY <1>4
    <2>2. \A r \in freed : r \in gone \cup aged \cup back' \/ (r \in T /\ Undoable(r))
      BY <1>4
    <2> HIDE DEF freed, none
    <2> QED BY <1>1, <1>4, <2>1, <2>2, MarkedCopies
  <1>5. CASE OneFails(K, gone, S)
    <2>1. PICK r \in S : LET rest == S \ {r} IN
              /\ back' = back \cup {q \in rest : Undoable(q)}
              /\ Marked(gone, rest)
              /\ Freed(gone \cup {q \in rest : Undoable(q)}, {})
      BY <1>5 DEF OneFails
    <2> DEFINE T == S \ {r}
               U == {}
    <2>2. gone \cup {q \in T : Undoable(q)} \cup U = gone \cup {q \in T : Undoable(q)}
      OBVIOUS
    <2>3. /\ T \in SUBSET S /\ Marked(gone, T)
          /\ Freed(gone \cup {q \in T : Undoable(q)} \cup U, {})
          /\ U \subseteq back' /\ back \subseteq back' /\ back' \subseteq Rows
      BY <1>1, <2>1, <2>2
    <2> HIDE DEF T, U
    <2> QED BY <1>4, <2>3
  <1>6. CASE Stops(K, gone, S)
    <2>1. PICK r \in S : LET newer == {q \in S : q > r} IN
              /\ Undoable(r)
              /\ back' = back \cup {q \in newer \cup {r} : Undoable(q)}
              /\ Marked(gone, newer)
              /\ Freed(gone \cup {q \in newer : Undoable(q)} \cup {r}, {})
      BY <1>6 DEF Stops, PutBack
    <2> DEFINE T == {q \in S : q > r}
               U == {r}
    <2>2. /\ T \in SUBSET S /\ Marked(gone, T)
          /\ Freed(gone \cup {q \in T : Undoable(q)} \cup U, {})
          /\ U \subseteq back' /\ back \subseteq back' /\ back' \subseteq Rows
      BY <1>1, <2>1
    <2> HIDE DEF T, U
    <2> QED BY <1>4, <2>2
  <1>7. CASE DiesAt(gone, S)
    <2>1. PICK r \in S, how \in {"torn", "back", "freed"} : LET newer == {q \in S : q > r} IN
              /\ Undoable(r)
              /\ back' = back \cup (IF how = "torn" THEN {q \in newer : Undoable(q)}
                                    ELSE {q \in newer \cup {r} : Undoable(q)})
              /\ Marked(gone, newer)
              /\ Freed(gone \cup {q \in newer : Undoable(q)}
                            \cup (IF how = "freed" THEN {r} ELSE {}), {})
      BY <1>7 DEF DiesAt, PutBack
    <2> DEFINE T == {q \in S : q > r}
               U == IF how = "freed" THEN {r} ELSE {}
    <2>2. /\ T \in SUBSET S /\ Marked(gone, T)
          /\ Freed(gone \cup {q \in T : Undoable(q)} \cup U, {})
          /\ U \subseteq back' /\ back \subseteq back' /\ back' \subseteq Rows
      BY <1>1, <2>1
    <2> HIDE DEF T, U
    <2> QED BY <1>4, <2>2
  <1> QED BY <1>2, <1>3, <1>5, <1>6, <1>7 DEF UndoRows

\* A new row has the copy of its file, and rows that expire need none.
LEMMA RecordCopies ==
    ASSUME CabinetInv, CopiesInv, NEW c \in Edits, NEW readable, NEW kept,
           Record(c, readable, kept), kept \subseteq Contents, UNCHANGED <<aged, back>>
    PROVE  CopiesInv'
  <1>1. file[PathOf[c]] # NoCopy /\ existed \subseteq 1 .. rows /\ rows \in Nat
    BY UndoAssumption DEF CabinetInv, RowsTyped
  <1>2. PICK r, p, there : r = rows + 1 /\ p = PathOf[c]
                           /\ there = (file[p] # Absent /\ readable)
    OBVIOUS
  <1>3. /\ state' = [q \in Rows |-> IF q = r THEN "active"
                                   ELSE IF q \in Expiring THEN "expired" ELSE state[q]]
        /\ existed' = IF there THEN existed \cup {r} ELSE existed
        /\ copy' = [q \in Rows |-> IF q = r /\ there THEN file[p]
                                  ELSE IF q \in Expiring THEN NoCopy ELSE copy[q]]
        /\ left' = left \cup kept
    BY <1>2 DEF Record
  <1>4. r \notin existed
    BY <1>1, <1>2
  <1>5. ASSUME NEW q \in Active', q \in existed', q \notin aged', q \notin back'
        PROVE  copy'[q] # NoCopy
    <2>1. q \in Rows /\ state'[q] = "active"
      BY DEF Active
    <2>2. CASE q = r
      <3>1. there
        BY <1>3, <1>4, <1>5, <2>2
      <3> QED BY <1>1, <1>2, <1>3, <2>1, <2>2, <3>1
    <2>3. CASE q # r
      <3>1. q \in Active /\ q \in existed /\ q \notin Expiring /\ q \notin aged /\ q \notin back
        BY <1>3, <1>5, <2>1, <2>3 DEF Active
      <3> QED BY <1>3, <2>1, <2>3, <3>1 DEF CopiesInv, CopyUntilBack
    <2> QED BY <2>2, <2>3
  <1> QED BY <1>3, <1>5 DEF CopiesInv, CopyUntilBack, LeftTyped

\* Neither does a row that is not stored.
LEMMA NoRowCopies ==
    ASSUME CabinetInv, CopiesInv, NEW c \in Edits, NEW freed \in SUBSET Expiring,
           NoRow(c, freed), back' = back
    PROVE  CopiesInv'
  <1> DEFINE none == {}
  <1>1. PICK gone \in {{}, Expiring}, kept \in {{}, {file[PathOf[c]]} \ {Absent}} :
            Marked(gone, none) /\ Freed(freed, kept)
    BY DEF NoRow
  <1>2. file[PathOf[c]] \in Contents /\ RowsTyped /\ back \subseteq Rows
    BY UndoAssumption DEF CabinetInv, CopiesInv, LeftTyped
  <1>3. kept \subseteq Contents
    BY <1>2
  <1>4. \A r \in freed : r \in gone \cup aged \cup back' \/ (r \in none /\ Undoable(r))
    BY DEF Expiring
  <1> HIDE DEF none
  <1> QED BY <1>1, <1>2, <1>3, <1>4, MarkedCopies

\* Every step keeps the copies.
LEMMA CopiesStep == CabinetInv /\ CopiesInv /\ [Next]_vars => CopiesInv'
  <1> SUFFICES ASSUME CabinetInv, CopiesInv, [Next]_vars PROVE CopiesInv'
    OBVIOUS
  <1>1. ASSUME UNCHANGED <<state, existed, copy, left, back>>, aged \subseteq aged'
        PROVE  CopiesInv'
    BY <1>1 DEF CopiesInv, CopyUntilBack, LeftTyped, Active
  <1>2. ASSUME NEW c \in Edits, NEW fault, Edit(c, fault)
        PROVE  CopiesInv'
    <2>1. UNCHANGED <<aged, back>>
      BY <1>2 DEF Edit
    <2>2. CASE fault # "norow"
      <3>1. PICK kept \in Kept(Expiring, fault)
                 \cup (IF fault = "unread" /\ file[PathOf[c]] # Absent THEN {{Torn}} ELSE {}) :
                Record(c, fault # "unread", kept)
        BY <1>2, <2>2 DEF Edit
      <3>2. \A r \in Expiring : copy[r] \in Contents \cup {NoCopy}
        BY DEF Expiring, Active, CabinetInv, RowsTyped
      <3>3. kept \subseteq Contents
        BY <3>1, <3>2 DEF Kept, Contents
      <3> QED BY <2>1, <3>1, <3>3, RecordCopies
    <2>3. CASE fault = "norow"
      <3>1. PICK freed \in SUBSET Expiring : NoRow(c, freed)
        BY <1>2, <2>3 DEF Edit
      <3> QED BY <2>1, <3>1, NoRowCopies
    <2> QED BY <2>2, <2>3
  <1>3. ASSUME NEW c \in Edits, EditDies(c)
        PROVE  CopiesInv'
    <2> DEFINE none == {}
    <2>1. UNCHANGED <<aged, back>> /\ none \subseteq Contents
      BY <1>3 DEF EditDies
    <2>2. Record(c, TRUE, none) \/ \E freed \in SUBSET Expiring : NoRow(c, freed)
      BY <1>3 DEF EditDies
    <2> HIDE DEF none
    <2> QED BY <2>1, <2>2, RecordCopies, NoRowCopies
  <1>4. ASSUME NEW c \in Calls,
               InvokeApproved(c) \/ InvokeClean(c) \/ InvokeDies(c) \/ InvokeRisky(c)
        PROVE  CopiesInv'
    <2>1. c \in Edits
      BY GuardAssumption
    <2>2. (\E fault : Edit(c, fault)) \/ EditDies(c) \/ UNCHANGED undoVars
      BY <1>4 DEF InvokeApproved, InvokeClean, InvokeDies, InvokeRisky, Run
    <2>3. CASE UNCHANGED undoVars
      BY <1>1, <2>3 DEF undoVars
    <2> QED BY <1>2, <1>3, <2>1, <2>2, <2>3
  <1>5. ASSUME NEW r \in Rows, UserUndoes(r)
        PROVE  CopiesInv'
    <2>1. r \in Active /\ \E fault : UndoRows(cps, {}, {r}, fault)
      BY <1>5 DEF UserUndoes, Undo
    <2>2. {} \in SUBSET Expiring /\ {r} \in SUBSET Active
      BY <2>1
    <2> QED BY <2>1, <2>2, UndoCopies
  <1>6. ASSUME UserUndoesRecent
        PROVE  CopiesInv'
    <2>1. PICK S \in Recents : \E fault \in UndoFaults : UndoRows(cps, Expiring, S, fault)
      BY <1>6 DEF UserUndoesRecent, UndoRecent
    <2>2. S \in SUBSET Active /\ Expiring \in SUBSET Expiring
      BY DEF Recents
    <2> QED BY <2>1, <2>2, UndoCopies
  <1>7. ASSUME NEW k \in cps, UserRewinds(k)
        PROVE  CopiesInv'
    <2>1. \E fault, K : UndoRows(K, Expiring, Since(k), fault)
      BY <1>7 DEF UserRewinds, Rewind
    <2>2. Since(k) \in SUBSET Active /\ Expiring \in SUBSET Expiring
      BY DEF Since
    <2> QED BY <2>1, <2>2, UndoCopies
  <1>8. CASE (\E i \in Ids : Answer(i) \/ RequestAges(i)) \/ (\E s \in Sessions : TurnStarts(s))
             \/ (\E r \in Rows : RowGetsOld(r))
             \/ (\E p \in Paths, x \in {Outside, Absent} : ChangedOutside(p, x)) \/ Crash
             \/ UNCHANGED vars
    <2>1. UNCHANGED <<state, existed, copy, left, back>> /\ aged \subseteq aged'
      BY <1>8 DEF Answer, RequestAges, TurnStarts, Checkpoint, RowGetsOld, RowAges,
         ChangedOutside, OutsideEdit, Crash, vars, undoVars
    <2> QED BY <1>1, <2>1
  <1> QED BY <1>4, <1>5, <1>6, <1>7, <1>8 DEF Next

\* The copies are always in order.
LEMMA CopiesCorrect == Spec => []CopiesInv
  <1>1. Init => CopiesInv
    BY DEF Init, UndoInit, CopiesInv, CopyUntilBack, LeftTyped
  <1> QED BY <1>1, CopiesStep, CabinetCorrect, PTL DEF Spec

\* CopyUntilBack: whatever fails, is interrupted or cannot be unlinked, an active
\* row keeps the copy of what its file had until that is back in the file.
THEOREM CopiesLast == Spec => []CopyUntilBack
  <1>1. CopiesInv => CopyUntilBack
    BY DEF CopiesInv
  <1> QED BY <1>1, CopiesCorrect, PTL

\* Runs and events are counted.
LEMMA CountsStep ==
    ran \in [Calls -> Nat] /\ used \in [Events -> Nat] /\ [Next]_vars
    => ran' \in [Calls -> Nat] /\ used' \in [Events -> Nat]
  <1> SUFFICES ASSUME ran \in [Calls -> Nat], used \in [Events -> Nat], [Next]_vars
               PROVE  ran' \in [Calls -> Nat] /\ used' \in [Events -> Nat]
    OBVIOUS
  <1>1. ASSUME NEW E, SpendAll(E)
        PROVE  used' \in [Events -> Nat]
    BY <1>1 DEF SpendAll
  <1>2. ASSUME NEW c \in Calls, Run(c)
        PROVE  ran' \in [Calls -> Nat] /\ used' \in [Events -> Nat]
    BY <1>1, <1>2 DEF Run
  <1>3. ASSUME NEW fault, Cabinet(fault)
        PROVE  ran' \in [Calls -> Nat] /\ used' \in [Events -> Nat]
    BY <1>1, <1>3 DEF Cabinet
  <1>4. ASSUME NEW c \in Calls, InvokeApproved(c) \/ InvokeClean(c) \/ InvokeRisky(c)
        PROVE  ran' \in [Calls -> Nat] /\ used' \in [Events -> Nat]
    <2>1. Run(c) \/ UNCHANGED <<ran, used>>
      BY <1>4 DEF InvokeApproved, InvokeClean, InvokeRisky
    <2> QED BY <1>2, <2>1
  <1>dies. ASSUME NEW c \in Calls, InvokeDies(c)
           PROVE  ran' \in [Calls -> Nat] /\ used' \in [Events -> Nat]
    BY <1>1, <1>dies DEF InvokeDies
  <1>5. ASSUME NEW i \in Ids, Answer(i) \/ RequestAges(i)
        PROVE  ran' \in [Calls -> Nat] /\ used' \in [Events -> Nat]
    BY <1>1, <1>5 DEF Answer, RequestAges
  <1>6. CASE (\E r \in Rows : UserUndoes(r)) \/ UserUndoesRecent
             \/ \E k \in cps : UserRewinds(k)
    <2>1. PICK fault \in UndoFaults : Cabinet(fault)
      BY <1>6 DEF UserUndoes, UserUndoesRecent, UserRewinds
    <2> QED BY <1>3, <2>1
  <1>7. CASE (\E s \in Sessions : TurnStarts(s)) \/ (\E r \in Rows : RowGetsOld(r))
             \/ (\E p \in Paths, x \in {Outside, Absent} : ChangedOutside(p, x)) \/ Crash
    <2>1. ran' = ran /\ \E E : SpendAll(E)
      BY <1>7 DEF TurnStarts, RowGetsOld, ChangedOutside, Crash
    <2> QED BY <1>1, <2>1
  <1>8. CASE UNCHANGED vars
    BY <1>8 DEF vars
  <1> QED BY <1>4, <1>dies, <1>5, <1>6, <1>7, <1>8 DEF Next

\* TypeOK: approvals, rows, files and checkpoints keep their types, and there is
\* always a place for the next answer.
THEOREM TypeCorrect == Spec => []TypeOK
  <1> DEFINE Counted == ran \in [Calls -> Nat] /\ used \in [Events -> Nat]
  <1>1. Init => Counted
    BY DEF Init
  <1>2. Counted /\ [Next]_vars => Counted'
    BY CountsStep
  <1>3. Spec => []Counted
    <2> HIDE DEF Counted
    <2> QED BY <1>1, <1>2, PTL DEF Spec
  <1>4. AnswersInv /\ CabinetInv /\ CopiesInv /\ Counted => TypeOK
    BY DEF AnswersInv, CabinetInv, CopiesInv, RowsTyped, LeftTyped, UndoTypeOK, TypeOK
  <1> HIDE DEF Counted
  <1> QED BY <1>3, <1>4, AnswersCorrect, CabinetCorrect, CopiesCorrect, PTL
=============================================================================
