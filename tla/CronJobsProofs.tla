---------------------------- MODULE CronJobsProofs ----------------------------
(* Proofs of the safety properties of CronJobs, for all sets of jobs and all *)
(* bounds.                                                                   *)
EXTENDS CronJobs, TLAPS

\* Counting events keeps the counters typed.
LEMMA SpendType ==
    ASSUME used \in [Events -> Nat], NEW E, SpendAll(E)
    PROVE  used' \in [Events -> Nat]
  BY DEF SpendAll

\* Every step keeps the types.
LEMMA TypeStep == TypeOK /\ [Next]_vars => TypeOK'
  <1> SUFFICES ASSUME TypeOK, [Next]_vars PROVE TypeOK'
    OBVIOUS
  <1> USE DEF TypeOK, Records, Wishes
  <1>1. ASSUME NEW j \in Jobs, NEW once \in {{}, {"once"}}, Create(j, once)
        PROVE  TypeOK'
    BY <1>1, SpendType, ConstantsAssumption DEF Create, Has, Saved, With,
        Asked, tickVars
  <1>2. ASSUME NEW j \in Jobs, Remove(j)
        PROVE  TypeOK'
    BY <1>2, SpendType, ConstantsAssumption DEF Remove, Has, Saved, With,
        Asked, tickVars
  <1>3. ASSUME NEW j \in Jobs, Pause(j)
        PROVE  TypeOK'
    BY <1>3, SpendType, ConstantsAssumption DEF Pause, Has, Saved, With,
        Asked, tickVars
  <1>4. ASSUME NEW j \in Jobs, Resume(j)
        PROVE  TypeOK'
    BY <1>4, SpendType, ConstantsAssumption DEF Resume, Has, Saved, With,
        Asked, tickVars
  <1>5. ASSUME NEW j \in Jobs, Trigger(j)
        PROVE  TypeOK'
    BY <1>5, SpendType, ConstantsAssumption DEF Trigger, Has, Saved, With,
        Asked, tickVars
  <1>6. ASSUME NEW j \in Jobs, Elapse(j)
        PROVE  TypeOK'
    BY <1>6, SpendType, ConstantsAssumption DEF Elapse, Has, With, tickVars,
        histVars
  <1>7. ASSUME NEW j \in Jobs, RunStarts(j)
        PROVE  TypeOK'
    BY <1>7, SpendType, ConstantsAssumption DEF RunStarts, Asked, storeVars
  <1>8. ASSUME TakeDue
        PROVE  TypeOK'
    BY <1>8, SpendType, ConstantsAssumption DEF TakeDue, Due, storeVars,
        histVars
  <1>9. ASSUME RunEnds
        PROVE  TypeOK'
    BY <1>9, SpendType, ConstantsAssumption DEF RunEnds, RunOver, MarkSaved,
        Marked, Has, MarkUnsaved
  <1>10. ASSUME RunRaises
        PROVE  TypeOK'
    BY <1>10, SpendType, ConstantsAssumption DEF RunRaises, RunOver,
        MarkSaved, Marked, Has, MarkUnsaved
  <1>11. ASSUME Crash
        PROVE  TypeOK'
    BY <1>11, SpendType, ConstantsAssumption DEF Crash, Gone
  <1>12. ASSUME Stop
        PROVE  TypeOK'
    BY <1>12, SpendType, ConstantsAssumption DEF Stop, storeVars, tickVars,
        histVars
  <1>13. ASSUME Stopped
        PROVE  TypeOK'
    BY <1>13, SpendType, ConstantsAssumption DEF Stopped, Gone
  <1>14. ASSUME Start
        PROVE  TypeOK'
    BY <1>14, SpendType, ConstantsAssumption DEF Start, tickVars
  <1>15. CASE UNCHANGED vars
    BY <1>15 DEF vars
  <1> QED BY <1>1, <1>2, <1>3, <1>4, <1>5, <1>6, <1>7, <1>8, <1>9, <1>10,
             <1>11, <1>12, <1>13, <1>14, <1>15 DEF Next

\* TypeOK: each variable keeps its type.
THEOREM TypeCorrect == Spec => []TypeOK
  <1>1. Init => TypeOK
    BY ConstantsAssumption DEF Init, TypeOK, Records, Wishes
  <1> QED BY <1>1, TypeStep, PTL DEF Spec

\* A process that is gone runs nothing and remembers nothing, and a record with
\* a flag is listed.
OffInv ==
    /\ daemon = "off" => running = None /\ todo = {} /\ \A j \in Jobs : mem[j] = {}
    /\ \A j \in Jobs : \A r \in {mem[j], disk[j]} : r = {} \/ "listed" \in r

\* What was asked to be kept was not asked to run only once.
KeptInv ==
    \A j \in Jobs : wish[j] \in {"kept", "now"} =>
        "once" \notin mem[j] /\ "once" \notin disk[j]

EditInv == TypeOK /\ OffInv /\ KeptInv /\ EditsStand

\* Every step keeps OffInv.
LEMMA OffStep == TypeOK /\ OffInv /\ [Next]_vars => OffInv'
  <1> SUFFICES ASSUME TypeOK, OffInv, [Next]_vars PROVE OffInv'
    OBVIOUS
  <1> USE DEF TypeOK, Records, Wishes, OffInv
  <1>1. ASSUME NEW j \in Jobs, NEW once \in {{}, {"once"}}, Create(j, once)
        PROVE  OffInv'
    BY <1>1, ConstantsAssumption DEF Create, Has, Saved, With, Asked, tickVars
  <1>2. ASSUME NEW j \in Jobs, Remove(j)
        PROVE  OffInv'
    BY <1>2, ConstantsAssumption DEF Remove, Has, Saved, With, Asked, tickVars
  <1>3. ASSUME NEW j \in Jobs, Pause(j)
        PROVE  OffInv'
    BY <1>3, ConstantsAssumption DEF Pause, Has, Saved, With, Asked, tickVars
  <1>4. ASSUME NEW j \in Jobs, Resume(j)
        PROVE  OffInv'
    BY <1>4, ConstantsAssumption DEF Resume, Has, Saved, With, Asked, tickVars
  <1>5. ASSUME NEW j \in Jobs, Trigger(j)
        PROVE  OffInv'
    BY <1>5, ConstantsAssumption DEF Trigger, Has, Saved, With, Asked,
        tickVars
  <1>6. ASSUME NEW j \in Jobs, Elapse(j)
        PROVE  OffInv'
    BY <1>6, ConstantsAssumption DEF Elapse, Has, With, tickVars, histVars
  <1>7. ASSUME NEW j \in Jobs, RunStarts(j)
        PROVE  OffInv'
    BY <1>7, ConstantsAssumption DEF RunStarts, Asked, storeVars
  <1>8. ASSUME TakeDue
        PROVE  OffInv'
    BY <1>8, ConstantsAssumption DEF TakeDue, Due, storeVars, histVars
  <1>9. ASSUME RunEnds
        PROVE  OffInv'
    BY <1>9, ConstantsAssumption DEF RunEnds, RunOver, MarkSaved, Marked,
        Has, MarkUnsaved
  <1>10. ASSUME RunRaises
        PROVE  OffInv'
    BY <1>10, ConstantsAssumption DEF RunRaises, RunOver, MarkSaved, Marked,
        Has, MarkUnsaved
  <1>11. ASSUME Crash
        PROVE  OffInv'
    BY <1>11, ConstantsAssumption DEF Crash, Gone
  <1>12. ASSUME Stop
        PROVE  OffInv'
    BY <1>12, ConstantsAssumption DEF Stop, storeVars, tickVars, histVars
  <1>13. ASSUME Stopped
        PROVE  OffInv'
    BY <1>13, ConstantsAssumption DEF Stopped, Gone
  <1>14. ASSUME Start
        PROVE  OffInv'
    BY <1>14, ConstantsAssumption DEF Start, tickVars
  <1>15. CASE UNCHANGED vars
    BY <1>15 DEF vars
  <1> QED BY <1>1, <1>2, <1>3, <1>4, <1>5, <1>6, <1>7, <1>8, <1>9, <1>10,
             <1>11, <1>12, <1>13, <1>14, <1>15 DEF Next

\* Every step keeps KeptInv.
LEMMA KeptStep == EditInv /\ [Next]_vars => KeptInv'
  <1> SUFFICES ASSUME EditInv, [Next]_vars PROVE KeptInv'
    OBVIOUS
  <1> USE DEF EditInv, TypeOK, Records, OffInv, KeptInv, EditsStand, Stands
  <1>1. ASSUME NEW j \in Jobs, NEW once \in {{}, {"once"}}, Create(j, once)
        PROVE  KeptInv'
    BY <1>1, ConstantsAssumption DEF Create, Has, Saved, With, Asked, tickVars
  <1>2. ASSUME NEW j \in Jobs, Remove(j)
        PROVE  KeptInv'
    BY <1>2, ConstantsAssumption DEF Remove, Has, Saved, With, Asked, tickVars
  <1>3. ASSUME NEW j \in Jobs, Pause(j)
        PROVE  KeptInv'
    BY <1>3, ConstantsAssumption DEF Pause, Has, Saved, With, Asked, tickVars
  <1>4. ASSUME NEW j \in Jobs, Resume(j)
        PROVE  KeptInv'
    BY <1>4, ConstantsAssumption DEF Resume, Has, Saved, With, Asked, tickVars
  <1>5. ASSUME NEW j \in Jobs, Trigger(j)
        PROVE  KeptInv'
    BY <1>5, ConstantsAssumption DEF Trigger, Has, Saved, With, Asked,
        tickVars
  <1>6. ASSUME NEW j \in Jobs, Elapse(j)
        PROVE  KeptInv'
    BY <1>6, ConstantsAssumption DEF Elapse, Has, With, tickVars, histVars
  <1>7. ASSUME NEW j \in Jobs, RunStarts(j)
        PROVE  KeptInv'
    BY <1>7, ConstantsAssumption DEF RunStarts, Asked, storeVars
  <1>8. ASSUME TakeDue
        PROVE  KeptInv'
    BY <1>8, ConstantsAssumption DEF TakeDue, Due, storeVars, histVars
  <1>9. ASSUME RunEnds
        PROVE  KeptInv'
    BY <1>9, ConstantsAssumption DEF RunEnds, RunOver, MarkSaved, Marked,
        Has, MarkUnsaved
  <1>10. ASSUME RunRaises
        PROVE  KeptInv'
    BY <1>10, ConstantsAssumption DEF RunRaises, RunOver, MarkSaved, Marked,
        Has, MarkUnsaved
  <1>11. ASSUME Crash
        PROVE  KeptInv'
    BY <1>11, ConstantsAssumption DEF Crash, Gone
  <1>12. ASSUME Stop
        PROVE  KeptInv'
    BY <1>12, ConstantsAssumption DEF Stop, storeVars, tickVars, histVars
  <1>13. ASSUME Stopped
        PROVE  KeptInv'
    BY <1>13, ConstantsAssumption DEF Stopped, Gone
  <1>14. ASSUME Start
        PROVE  KeptInv'
    BY <1>14, ConstantsAssumption DEF Start, tickVars
  <1>15. CASE UNCHANGED vars
    BY <1>15 DEF vars
  <1> QED BY <1>1, <1>2, <1>3, <1>4, <1>5, <1>6, <1>7, <1>8, <1>9, <1>10,
             <1>11, <1>12, <1>13, <1>14, <1>15 DEF Next

\* Every step keeps what the edits asked for.
LEMMA EditStep == EditInv /\ [Next]_vars => EditsStand'
  <1> SUFFICES ASSUME EditInv, [Next]_vars PROVE EditsStand'
    OBVIOUS
  <1> USE DEF EditInv, TypeOK, Records, OffInv, KeptInv, EditsStand, Stands
  <1>1. ASSUME NEW j \in Jobs, NEW once \in {{}, {"once"}}, Create(j, once)
        PROVE  EditsStand'
    BY <1>1, ConstantsAssumption DEF Create, Has, Saved, With, Asked, tickVars
  <1>2. ASSUME NEW j \in Jobs, Remove(j)
        PROVE  EditsStand'
    BY <1>2, ConstantsAssumption DEF Remove, Has, Saved, With, Asked, tickVars
  <1>3. ASSUME NEW j \in Jobs, Pause(j)
        PROVE  EditsStand'
    BY <1>3, ConstantsAssumption DEF Pause, Has, Saved, With, Asked, tickVars
  <1>4. ASSUME NEW j \in Jobs, Resume(j)
        PROVE  EditsStand'
    BY <1>4, ConstantsAssumption DEF Resume, Has, Saved, With, Asked, tickVars
  <1>5. ASSUME NEW j \in Jobs, Trigger(j)
        PROVE  EditsStand'
    BY <1>5, ConstantsAssumption DEF Trigger, Has, Saved, With, Asked,
        tickVars
  <1>6. ASSUME NEW j \in Jobs, Elapse(j)
        PROVE  EditsStand'
    BY <1>6, ConstantsAssumption DEF Elapse, Has, With, tickVars, histVars
  <1>7. ASSUME NEW j \in Jobs, RunStarts(j)
        PROVE  EditsStand'
    BY <1>7, ConstantsAssumption DEF RunStarts, Asked, storeVars
  <1>8. ASSUME TakeDue
        PROVE  EditsStand'
    BY <1>8, ConstantsAssumption DEF TakeDue, Due, storeVars, histVars
  <1>9. ASSUME RunEnds
        PROVE  EditsStand'
    BY <1>9, ConstantsAssumption DEF RunEnds, RunOver, MarkSaved, Marked,
        Has, MarkUnsaved
  <1>10. ASSUME RunRaises
        PROVE  EditsStand'
    BY <1>10, ConstantsAssumption DEF RunRaises, RunOver, MarkSaved, Marked,
        Has, MarkUnsaved
  <1>11. ASSUME Crash
        PROVE  EditsStand'
    BY <1>11, ConstantsAssumption DEF Crash, Gone
  <1>12. ASSUME Stop
        PROVE  EditsStand'
    BY <1>12, ConstantsAssumption DEF Stop, storeVars, tickVars, histVars
  <1>13. ASSUME Stopped
        PROVE  EditsStand'
    BY <1>13, ConstantsAssumption DEF Stopped, Gone
  <1>14. ASSUME Start
        PROVE  EditsStand'
    BY <1>14, ConstantsAssumption DEF Start, tickVars
  <1>15. CASE UNCHANGED vars
    BY <1>15 DEF vars
  <1> QED BY <1>1, <1>2, <1>3, <1>4, <1>5, <1>6, <1>7, <1>8, <1>9, <1>10,
             <1>11, <1>12, <1>13, <1>14, <1>15 DEF Next

\* EditsStand: an acknowledged edit stands until the next one, whatever runs
\* end, saves fail and processes restart in between.
THEOREM EditsKept == Spec => []EditsStand
  <1>1. Init => EditInv
    BY ConstantsAssumption DEF Init, EditInv, TypeOK, Records, Wishes, OffInv,
       KeptInv, EditsStand, Stands
  <1>2. EditInv /\ [Next]_vars => EditInv'
    BY TypeStep, OffStep, KeptStep, EditStep DEF EditInv
  <1>3. EditInv => EditsStand
    BY DEF EditInv
  <1> QED BY <1>1, <1>2, <1>3, PTL DEF Spec

\* Every step keeps the count of the runs of a job to run once.
LEMMA OnceStep == TypeOK /\ OffInv /\ OnceRunsOnce /\ [Next]_vars => OnceRunsOnce'
  <1> SUFFICES ASSUME TypeOK, OffInv, OnceRunsOnce, [Next]_vars PROVE OnceRunsOnce'
    OBVIOUS
  <1> USE DEF TypeOK, Records, Wishes, OffInv, OnceRunsOnce
  <1>1. ASSUME NEW j \in Jobs, NEW once \in {{}, {"once"}}, Create(j, once)
        PROVE  OnceRunsOnce'
    BY <1>1, ConstantsAssumption DEF Create, Has, Saved, With, Asked, tickVars
  <1>2. ASSUME NEW j \in Jobs, Remove(j)
        PROVE  OnceRunsOnce'
    BY <1>2, ConstantsAssumption DEF Remove, Has, Saved, With, Asked, tickVars
  <1>3. ASSUME NEW j \in Jobs, Pause(j)
        PROVE  OnceRunsOnce'
    BY <1>3, ConstantsAssumption DEF Pause, Has, Saved, With, Asked, tickVars
  <1>4. ASSUME NEW j \in Jobs, Resume(j)
        PROVE  OnceRunsOnce'
    BY <1>4, ConstantsAssumption DEF Resume, Has, Saved, With, Asked, tickVars
  <1>5. ASSUME NEW j \in Jobs, Trigger(j)
        PROVE  OnceRunsOnce'
    BY <1>5, ConstantsAssumption DEF Trigger, Has, Saved, With, Asked,
        tickVars
  <1>6. ASSUME NEW j \in Jobs, Elapse(j)
        PROVE  OnceRunsOnce'
    BY <1>6, ConstantsAssumption DEF Elapse, Has, With, tickVars, histVars
  <1>7. ASSUME NEW j \in Jobs, RunStarts(j)
        PROVE  OnceRunsOnce'
    BY <1>7, ConstantsAssumption DEF RunStarts, Asked, storeVars
  <1>8. ASSUME TakeDue
        PROVE  OnceRunsOnce'
    BY <1>8, ConstantsAssumption DEF TakeDue, Due, storeVars, histVars
  <1>9. ASSUME RunEnds
        PROVE  OnceRunsOnce'
    BY <1>9, ConstantsAssumption DEF RunEnds, RunOver, MarkSaved, Marked,
        Has, MarkUnsaved
  <1>10. ASSUME RunRaises
        PROVE  OnceRunsOnce'
    BY <1>10, ConstantsAssumption DEF RunRaises, RunOver, MarkSaved, Marked,
        Has, MarkUnsaved
  <1>11. ASSUME Crash
        PROVE  OnceRunsOnce'
    BY <1>11, ConstantsAssumption DEF Crash, Gone
  <1>12. ASSUME Stop
        PROVE  OnceRunsOnce'
    BY <1>12, ConstantsAssumption DEF Stop, storeVars, tickVars, histVars
  <1>13. ASSUME Stopped
        PROVE  OnceRunsOnce'
    BY <1>13, ConstantsAssumption DEF Stopped, Gone
  <1>14. ASSUME Start
        PROVE  OnceRunsOnce'
    BY <1>14, ConstantsAssumption DEF Start, tickVars
  <1>15. CASE UNCHANGED vars
    BY <1>15 DEF vars
  <1> QED BY <1>1, <1>2, <1>3, <1>4, <1>5, <1>6, <1>7, <1>8, <1>9, <1>10,
             <1>11, <1>12, <1>13, <1>14, <1>15 DEF Next

\* OnceRunsOnce: a job to run once runs again only if the end of its run could
\* not be recorded.
THEOREM OnceKept == Spec => []OnceRunsOnce
  <1>1. Init => TypeOK /\ OffInv /\ OnceRunsOnce
    BY ConstantsAssumption DEF Init, TypeOK, Records, Wishes, OffInv, OnceRunsOnce
  <1> QED BY <1>1, TypeStep, OffStep, OnceStep, PTL DEF Spec

\* Every step keeps file and memory together.
LEMMA FileStep == TypeOK /\ FileFollows /\ [Next]_vars => FileFollows'
  <1> SUFFICES ASSUME TypeOK, FileFollows, [Next]_vars PROVE FileFollows'
    OBVIOUS
  <1> USE DEF TypeOK, Records, Wishes, FileFollows
  <1>1. ASSUME NEW j \in Jobs, NEW once \in {{}, {"once"}}, Create(j, once)
        PROVE  FileFollows'
    BY <1>1, ConstantsAssumption DEF Create, Has, Saved, With, Asked, tickVars
  <1>2. ASSUME NEW j \in Jobs, Remove(j)
        PROVE  FileFollows'
    BY <1>2, ConstantsAssumption DEF Remove, Has, Saved, With, Asked, tickVars
  <1>3. ASSUME NEW j \in Jobs, Pause(j)
        PROVE  FileFollows'
    BY <1>3, ConstantsAssumption DEF Pause, Has, Saved, With, Asked, tickVars
  <1>4. ASSUME NEW j \in Jobs, Resume(j)
        PROVE  FileFollows'
    BY <1>4, ConstantsAssumption DEF Resume, Has, Saved, With, Asked, tickVars
  <1>5. ASSUME NEW j \in Jobs, Trigger(j)
        PROVE  FileFollows'
    BY <1>5, ConstantsAssumption DEF Trigger, Has, Saved, With, Asked,
        tickVars
  <1>6. ASSUME NEW j \in Jobs, Elapse(j)
        PROVE  FileFollows'
    BY <1>6, ConstantsAssumption DEF Elapse, Has, With, tickVars, histVars
  <1>7. ASSUME NEW j \in Jobs, RunStarts(j)
        PROVE  FileFollows'
    BY <1>7, ConstantsAssumption DEF RunStarts, Asked, storeVars
  <1>8. ASSUME TakeDue
        PROVE  FileFollows'
    BY <1>8, ConstantsAssumption DEF TakeDue, Due, storeVars, histVars
  <1>9. ASSUME RunEnds
        PROVE  FileFollows'
    BY <1>9, ConstantsAssumption DEF RunEnds, RunOver, MarkSaved, Marked,
        Has, MarkUnsaved
  <1>10. ASSUME RunRaises
        PROVE  FileFollows'
    BY <1>10, ConstantsAssumption DEF RunRaises, RunOver, MarkSaved, Marked,
        Has, MarkUnsaved
  <1>11. ASSUME Crash
        PROVE  FileFollows'
    BY <1>11, ConstantsAssumption DEF Crash, Gone
  <1>12. ASSUME Stop
        PROVE  FileFollows'
    BY <1>12, ConstantsAssumption DEF Stop, storeVars, tickVars, histVars
  <1>13. ASSUME Stopped
        PROVE  FileFollows'
    BY <1>13, ConstantsAssumption DEF Stopped, Gone
  <1>14. ASSUME Start
        PROVE  FileFollows'
    BY <1>14, ConstantsAssumption DEF Start, tickVars
  <1>15. CASE UNCHANGED vars
    BY <1>15 DEF vars
  <1> QED BY <1>1, <1>2, <1>3, <1>4, <1>5, <1>6, <1>7, <1>8, <1>9, <1>10,
             <1>11, <1>12, <1>13, <1>14, <1>15 DEF Next

\* FileFollows: without a failed save the file is what memory is.
THEOREM FileKept == Spec => []FileFollows
  <1>1. Init => TypeOK /\ FileFollows
    BY ConstantsAssumption DEF Init, TypeOK, Records, Wishes, FileFollows
  <1> QED BY <1>1, TypeStep, FileStep, PTL DEF Spec
=============================================================================
