-------------------------- MODULE KernelPoolProofs --------------------------
(* Proofs of the safety properties of KernelPool, for all constants. *)
EXTENDS KernelPool, TLAPS, FiniteSetTheorems

\* Counting an event keeps the counters typed.
LEMMA SpendType ==
    ASSUME used \in [Events -> Nat], NEW e \in Events, Spend(e)
    PROVE  used' \in [Events -> Nat]
  BY DEF Spend

\* Whoever counts an event names one.
LEMMA EventNames ==
    {"reset", "cancel", "hang", "error", "die", "unready", "life"} \subseteq Events
  BY DEF Events

\* A call at or in a kernel knows which.
HeldInv ==
    \A c \in Calls :
        /\ pc[c] \in {"waiting", "boot", "user"} => kof[c] \in Calls
        /\ pc[c] = "spawning" => kof[c] = c

\* What the end of an awaited thread does.
EffectOfThread(c) ==
    /\ kof[c] \in Calls /\ <<c, pc[c]>> \in threads
    /\ \/ /\ pc[c] = "boot" /\ pc' = [pc EXCEPT ![c] = "user"]
          /\ threads' = (threads \ {<<c, "boot">>}) \cup {<<c, "user">>}
          /\ result' = result
       \/ /\ pc[c] = "user" /\ pc' = [pc EXCEPT ![c] = "ended"]
          /\ threads' = threads \ {<<c, "user">>}
          /\ \E r \in Results : result' = [result EXCEPT ![c] = r]
    /\ dead \subseteq dead' /\ dead' \subseteq dead \cup {kof[c]}
    /\ strays \subseteq strays' /\ strays' \subseteq strays \cup {kof[c]}
    /\ kof[c] \in dead' \ dead =>
           proc[kof[c]] = "gone" \/ kof[c] \in killing \cup strays'
    /\ older' \subseteq older \cup (Pooled \X {session[c]})
    /\ used' \in [Events -> Nat]
    /\ UNCHANGED <<pool, booted, proc, killing, session, kof, reaping, daemon>>

\* What a thread of a call may do as it ends.
LEMMA ThreadEffect ==
    ASSUME TypeOK, HeldInv, NEW c \in Calls, ThreadEnds(c)
    PROVE  EffectOfThread(c)
  <1>1. kof[c] \in Calls /\ pc[c] \in {"boot", "user"} /\ <<c, pc[c]>> \in threads
    BY DEF ThreadEnds, HeldInv, Awaited
  <1>2. PICK r \in Outcomes(kof[c]) \cup {"raised"} :
            /\ \/ /\ r \in Outcomes(kof[c])
                  /\ UNCHANGED <<strays, used>>
               \/ /\ r \notin Outcomes(kof[c])
                  /\ Spend("error")
                  /\ strays' = strays \cup {kof[c]}
            /\ Resume(c, pc[c], r, threads \ {<<c, pc[c]>>})
            /\ dead' = IF r = "raised" THEN dead \cup {kof[c]} ELSE dead
            /\ older' = IF r # "raised" /\ pool[session[c]] = kof[c]
                        THEN Touched(session[c]) ELSE older
    BY DEF ThreadEnds
  <1>3. used' \in [Events -> Nat]
    BY <1>2, SpendType, EventNames DEF TypeOK
  <1>4. r \in Results
    BY <1>2 DEF Outcomes, Results
  <1>5. r = "raised" /\ r \in Outcomes(kof[c]) =>
            proc[kof[c]] = "gone" \/ kof[c] \in killing
    BY DEF Outcomes
  <1>6. older' \subseteq older \cup (Pooled \X {session[c]})
    BY <1>2 DEF Touched
  <1>7. \/ /\ pc[c] = "boot" /\ pc' = [pc EXCEPT ![c] = "user"]
           /\ threads' = (threads \ {<<c, "boot">>}) \cup {<<c, "user">>}
           /\ result' = result
        \/ /\ pc[c] = "user" /\ pc' = [pc EXCEPT ![c] = "ended"]
           /\ threads' = threads \ {<<c, "user">>}
           /\ \E q \in Results : result' = [result EXCEPT ![c] = q]
    BY <1>1, <1>2, <1>4 DEF Resume, Goto, Ends
  <1>8. /\ dead \subseteq dead' /\ dead' \subseteq dead \cup {kof[c]}
        /\ strays \subseteq strays' /\ strays' \subseteq strays \cup {kof[c]}
        /\ kof[c] \in dead' \ dead =>
               proc[kof[c]] = "gone" \/ kof[c] \in killing \cup strays'
    BY <1>2, <1>5
  <1>9. UNCHANGED <<pool, booted, proc, killing, session, kof, reaping, daemon>>
    BY DEF ThreadEnds, lifeVars
  <1> QED BY <1>1, <1>3, <1>6, <1>7, <1>8, <1>9 DEF EffectOfThread

\* Every step keeps the types.
LEMMA TypeStep == TypeOK /\ HeldInv /\ [Next]_vars => TypeOK'
  <1> SUFFICES ASSUME TypeOK, HeldInv, [Next]_vars PROVE TypeOK'
    OBVIOUS
  <1> USE DEF TypeOK, HeldInv, Steps, Results, Awaited
  <1>1. ASSUME NEW c \in Calls, Queue(c)
        PROVE  TypeOK'
    BY <1>1, SpendType, EventNames DEF Queue, Goto, poolVars, procVars,
        lifeVars
  <1>2. ASSUME NEW c \in Calls, ResetSession(c)
        PROVE  TypeOK'
    BY <1>2, SpendType, EventNames DEF ResetSession, AsksReset, Goto, lifeVars
  <1>3. ASSUME NEW c \in Calls, ResetDone(c)
        PROVE  TypeOK'
    BY <1>3, SpendType, EventNames DEF ResetDone, Goto, poolVars, procVars,
        lifeVars
  <1>4. ASSUME NEW c \in Calls, GetEntry(c)
        PROVE  TypeOK'
    BY <1>4, SpendType, EventNames DEF GetEntry, AtPool, HasEntry, Touched,
        Pooled, Enter, Goto, procVars, lifeVars
  <1>5. ASSUME NEW c \in Calls, Spawn(c)
        PROVE  TypeOK'
    BY <1>5, SpendType, EventNames DEF Spawn, AtPool, HasEntry, Victims,
        Pooled, Goto, lifeVars
  <1>6. ASSUME NEW c \in Calls, SpawnReady(c)
        PROVE  TypeOK'
    BY <1>6, SpendType, EventNames DEF SpawnReady, Touched, Pooled, Enter,
        Goto, lifeVars
  <1>7. ASSUME NEW c \in Calls, SpawnFails(c)
        PROVE  TypeOK'
    BY <1>7, SpendType, EventNames DEF SpawnFails, Ends, Goto, poolVars,
        lifeVars
  <1>8. ASSUME NEW c \in Calls, StrayStart(c)
        PROVE  TypeOK'
    BY <1>8, SpendType, EventNames DEF StrayStart, poolVars, callVars,
        lifeVars
  <1>9. ASSUME NEW c \in Calls, Acquire(c)
        PROVE  TypeOK'
    BY <1>9, SpendType, EventNames DEF Acquire, Enter, Goto, procVars,
        lifeVars
  <1>10. ASSUME NEW c \in Calls, ThreadEnds(c)
        PROVE  TypeOK'
    <2>1. EffectOfThread(c)
      BY <1>10, ThreadEffect
    <2> QED BY <2>1, ConstantsAssumption DEF EffectOfThread, Pooled
  <1>11. ASSUME NEW c \in Calls, NEW ph \in Awaited, LateThreadEnds(c, ph)
        PROVE  TypeOK'
    BY <1>11, SpendType, EventNames DEF LateThreadEnds, poolVars, procVars,
        lifeVars
  <1>12. ASSUME NEW c \in Calls, HardTimeout(c)
        PROVE  TypeOK'
    BY <1>12, SpendType, EventNames DEF HardTimeout, Resume, Goto, Ends,
        lifeVars
  <1>13. ASSUME NEW c \in Calls, Cancel(c)
        PROVE  TypeOK'
    BY <1>13, SpendType, EventNames DEF Cancel, Ends, Goto, poolVars, lifeVars
  <1>14. ASSUME NEW c \in Calls, ProcessDies(c)
        PROVE  TypeOK'
    BY <1>14, SpendType, EventNames DEF ProcessDies, poolVars, callVars,
        lifeVars
  <1>15. ASSUME NEW c \in Calls, KillDone(c)
        PROVE  TypeOK'
    BY <1>15, SpendType, EventNames DEF KillDone, poolVars, callVars, lifeVars
  <1>16. ASSUME NEW c \in Calls, ReapNext(c)
        PROVE  TypeOK'
    BY <1>16, SpendType, EventNames DEF ReapNext, poolVars, callVars
  <1>17. ASSUME NEW S \in SUBSET Sessions, ReapIdle(S)
        PROVE  TypeOK'
    BY <1>17, SpendType, EventNames DEF ReapIdle, Pooled, callVars
  <1>18. ASSUME Stop
        PROVE  TypeOK'
    BY <1>18, SpendType, EventNames DEF Stop, poolVars, callVars
  <1>19. ASSUME ShutdownAll
        PROVE  TypeOK'
    BY <1>19, SpendType, EventNames DEF ShutdownAll, Pooled, callVars
  <1>20. ASSUME Unwire
        PROVE  TypeOK'
    BY <1>20, SpendType, EventNames DEF Unwire, poolVars, procVars, callVars
  <1>21. CASE UNCHANGED vars
    BY <1>21 DEF vars
  <1> QED BY <1>1, <1>2, <1>3, <1>4, <1>5, <1>6, <1>7, <1>8, <1>9, <1>10,
             <1>11, <1>12, <1>13, <1>14, <1>15, <1>16, <1>17, <1>18, <1>19,
             <1>20, <1>21 DEF Next

\* Every step keeps HeldInv.
LEMMA HeldStep == TypeOK /\ HeldInv /\ [Next]_vars => HeldInv'
  <1> SUFFICES ASSUME TypeOK, HeldInv, [Next]_vars PROVE HeldInv'
    OBVIOUS
  <1> USE DEF TypeOK, HeldInv, Steps, Results, Awaited
  <1>1. ASSUME NEW c \in Calls, Queue(c)
        PROVE  HeldInv'
    BY <1>1 DEF Queue, Goto, poolVars, procVars, lifeVars
  <1>2. ASSUME NEW c \in Calls, ResetSession(c)
        PROVE  HeldInv'
    BY <1>2 DEF ResetSession, AsksReset, Goto, lifeVars
  <1>3. ASSUME NEW c \in Calls, ResetDone(c)
        PROVE  HeldInv'
    BY <1>3 DEF ResetDone, Goto, poolVars, procVars, lifeVars
  <1>4. ASSUME NEW c \in Calls, GetEntry(c)
        PROVE  HeldInv'
    BY <1>4 DEF GetEntry, AtPool, HasEntry, Touched, Pooled, Enter, Goto,
                procVars, lifeVars
  <1>5. ASSUME NEW c \in Calls, Spawn(c)
        PROVE  HeldInv'
    BY <1>5 DEF Spawn, AtPool, HasEntry, Goto, lifeVars
  <1>6. ASSUME NEW c \in Calls, SpawnReady(c)
        PROVE  HeldInv'
    BY <1>6 DEF SpawnReady, Touched, Pooled, Enter, Goto, lifeVars
  <1>7. ASSUME NEW c \in Calls, SpawnFails(c)
        PROVE  HeldInv'
    BY <1>7 DEF SpawnFails, Ends, Goto, poolVars, lifeVars
  <1>8. ASSUME NEW c \in Calls, StrayStart(c)
        PROVE  HeldInv'
    BY <1>8 DEF StrayStart, poolVars, callVars, lifeVars
  <1>9. ASSUME NEW c \in Calls, Acquire(c)
        PROVE  HeldInv'
    BY <1>9 DEF Acquire, Enter, Goto, procVars, lifeVars
  <1>10. ASSUME NEW c \in Calls, ThreadEnds(c)
        PROVE  HeldInv'
    <2>1. EffectOfThread(c)
      BY <1>10, ThreadEffect
    <2> QED BY <2>1, ConstantsAssumption DEF EffectOfThread
  <1>11. ASSUME NEW c \in Calls, NEW ph \in Awaited, LateThreadEnds(c, ph)
        PROVE  HeldInv'
    BY <1>11 DEF LateThreadEnds, poolVars, procVars, lifeVars
  <1>12. ASSUME NEW c \in Calls, HardTimeout(c)
        PROVE  HeldInv'
    BY <1>12 DEF HardTimeout, Resume, Goto, Ends, lifeVars
  <1>13. ASSUME NEW c \in Calls, Cancel(c)
        PROVE  HeldInv'
    BY <1>13 DEF Cancel, Ends, Goto, poolVars, lifeVars
  <1>14. ASSUME NEW c \in Calls, ProcessDies(c)
        PROVE  HeldInv'
    BY <1>14 DEF ProcessDies, poolVars, callVars, lifeVars
  <1>15. ASSUME NEW c \in Calls, KillDone(c)
        PROVE  HeldInv'
    BY <1>15 DEF KillDone, poolVars, callVars, lifeVars
  <1>16. ASSUME NEW c \in Calls, ReapNext(c)
        PROVE  HeldInv'
    BY <1>16 DEF ReapNext, poolVars, callVars
  <1>17. ASSUME NEW S \in SUBSET Sessions, ReapIdle(S)
        PROVE  HeldInv'
    BY <1>17 DEF ReapIdle, Pooled, callVars
  <1>18. ASSUME Stop
        PROVE  HeldInv'
    BY <1>18 DEF Stop, poolVars, callVars
  <1>19. ASSUME ShutdownAll
        PROVE  HeldInv'
    BY <1>19 DEF ShutdownAll, Pooled, callVars
  <1>20. ASSUME Unwire
        PROVE  HeldInv'
    BY <1>20 DEF Unwire, poolVars, procVars, callVars
  <1>21. CASE UNCHANGED vars
    BY <1>21 DEF vars
  <1> QED BY <1>1, <1>2, <1>3, <1>4, <1>5, <1>6, <1>7, <1>8, <1>9, <1>10,
             <1>11, <1>12, <1>13, <1>14, <1>15, <1>16, <1>17, <1>18, <1>19,
             <1>20, <1>21 DEF Next

\* Types and the kernels held.
LEMMA TypeInvariant == Spec => [](TypeOK /\ HeldInv)
  <1>1. Init => TypeOK /\ HeldInv
    BY DEF Init, TypeOK, HeldInv, Steps, Results, Events
  <1> QED BY <1>1, TypeStep, HeldStep, PTL DEF Spec

\* TypeOK: each variable keeps its type.
THEOREM TypeCorrect == Spec => []TypeOK
  <1> QED BY TypeInvariant, PTL

(***************************************************************************)
(* Kernels                                                                 *)
(***************************************************************************)

\* Starting a kernel is one call's affair at a time, and only once per call.
StartInv ==
    /\ \A c, d \in Calls : pc[c] = "spawning" /\ pc[d] = "spawning" => c = d
    /\ \A c \in Calls :
        /\ pc[c] = "spawning" => proc[c] = "starting" /\ kof[c] = c
        /\ proc[c] = "starting" => pc[c] = "spawning" \/ c \in strays
        /\ pc[c] \in {"new", "asked", "queued", "resetting"} => proc[c] = "none"
        /\ proc[c] = "starting" => pc[c] \in {"spawning", "ended"}

\* Entries and what calls hold are kernels that have started, each in the slot
\* of its session.
SlotInv ==
    /\ \A s \in Sessions : pool[s] # None =>
        session[pool[s]] = s /\ proc[pool[s]] \notin {"none", "starting"}
    /\ \A c \in Calls : kof[c] # None /\ kof[c] # c =>
        proc[kof[c]] \notin {"none", "starting"}
    /\ \A c \in Calls : pc[c] \in {"waiting", "boot", "user"} =>
        proc[kof[c]] \notin {"none", "starting"}
    /\ \A k \in killing \cup reaping : proc[k] \notin {"none", "starting"}

\* An entry is marked dead when its process is gone or is about to be, or has
\* been lost; a call that starts a kernel replaces no other entry.
DeadInv ==
    /\ \A k \in dead :
        proc[k] \in {"exited", "gone"} \/ k \in killing \cup strays
    /\ \A c \in Calls : pc[c] = "spawning" =>
        pool[session[c]] = None \/ pool[session[c]] \in dead

KernelInv == TypeOK /\ HeldInv /\ StartInv /\ SlotInv /\ DeadInv /\ KernelAccounted

\* Every step keeps StartInv.
LEMMA StartStep == KernelInv /\ [Next]_vars => StartInv'
  <1> SUFFICES ASSUME KernelInv, [Next]_vars PROVE StartInv'
    OBVIOUS
  <1> USE DEF KernelInv, HeldInv, TypeOK, StartInv, SlotInv
  <1>1. ASSUME NEW c \in Calls, Queue(c)
        PROVE  StartInv'
    BY <1>1 DEF Queue, GlobalFree, Goto, poolVars, procVars, lifeVars
  <1>2. ASSUME NEW c \in Calls, ResetSession(c)
        PROVE  StartInv'
    BY <1>2 DEF ResetSession, AsksReset, GlobalFree, Goto, lifeVars
  <1>3. ASSUME NEW c \in Calls, ResetDone(c)
        PROVE  StartInv'
    BY <1>3 DEF ResetDone, Goto, poolVars, procVars, lifeVars
  <1>4. ASSUME NEW c \in Calls, GetEntry(c)
        PROVE  StartInv'
    BY <1>4 DEF GetEntry, AtPool, GlobalFree, Touched, Pooled, Enter, Goto,
                procVars, lifeVars
  <1>5. ASSUME NEW c \in Calls, Spawn(c)
        PROVE  StartInv'
    BY <1>5 DEF Spawn, AtPool, GlobalFree, Goto, lifeVars
  <1>6. ASSUME NEW c \in Calls, SpawnReady(c)
        PROVE  StartInv'
    BY <1>6 DEF SpawnReady, Touched, Pooled, Enter, Goto, lifeVars
  <1>7. ASSUME NEW c \in Calls, SpawnFails(c)
        PROVE  StartInv'
    BY <1>7 DEF SpawnFails, Ends, Goto, poolVars, lifeVars
  <1>8. ASSUME NEW c \in Calls, StrayStart(c)
        PROVE  StartInv'
    BY <1>8 DEF StrayStart, poolVars, callVars, lifeVars
  <1>9. ASSUME NEW c \in Calls, Acquire(c)
        PROVE  StartInv'
    BY <1>9 DEF Acquire, Enter, Goto, procVars, lifeVars
  <1>10. ASSUME NEW c \in Calls, ThreadEnds(c)
        PROVE  StartInv'
    <2>1. EffectOfThread(c)
      BY <1>10, ThreadEffect
    <2> QED BY <2>1, ConstantsAssumption DEF EffectOfThread
  <1>11. ASSUME NEW c \in Calls, NEW ph \in Awaited, LateThreadEnds(c, ph)
        PROVE  StartInv'
    BY <1>11 DEF LateThreadEnds, poolVars, procVars, lifeVars
  <1>12. ASSUME NEW c \in Calls, HardTimeout(c)
        PROVE  StartInv'
    BY <1>12 DEF HardTimeout, Awaited, Resume, Goto, Ends, lifeVars
  <1>13. ASSUME NEW c \in Calls, Cancel(c)
        PROVE  StartInv'
    BY <1>13 DEF Cancel, Ends, Goto, poolVars, lifeVars
  <1>14. ASSUME NEW c \in Calls, ProcessDies(c)
        PROVE  StartInv'
    BY <1>14 DEF ProcessDies, poolVars, callVars, lifeVars
  <1>15. ASSUME NEW c \in Calls, KillDone(c)
        PROVE  StartInv'
    BY <1>15 DEF KillDone, poolVars, callVars, lifeVars
  <1>16. ASSUME NEW c \in Calls, ReapNext(c)
        PROVE  StartInv'
    BY <1>16 DEF ReapNext, poolVars, callVars
  <1>17. ASSUME NEW S \in SUBSET Sessions, ReapIdle(S)
        PROVE  StartInv'
    BY <1>17 DEF ReapIdle, GlobalFree, Pooled, callVars
  <1>18. ASSUME Stop
        PROVE  StartInv'
    BY <1>18 DEF Stop, poolVars, callVars
  <1>19. ASSUME ShutdownAll
        PROVE  StartInv'
    BY <1>19 DEF ShutdownAll, GlobalFree, Pooled, callVars
  <1>20. ASSUME Unwire
        PROVE  StartInv'
    BY <1>20 DEF Unwire, poolVars, procVars, callVars
  <1>21. CASE UNCHANGED vars
    BY <1>21 DEF vars
  <1> QED BY <1>1, <1>2, <1>3, <1>4, <1>5, <1>6, <1>7, <1>8, <1>9, <1>10,
             <1>11, <1>12, <1>13, <1>14, <1>15, <1>16, <1>17, <1>18, <1>19,
             <1>20, <1>21 DEF Next

\* Every step keeps SlotInv.
LEMMA SlotStep == KernelInv /\ [Next]_vars => SlotInv'
  <1> SUFFICES ASSUME KernelInv, [Next]_vars PROVE SlotInv'
    OBVIOUS
  <1> USE DEF KernelInv, HeldInv, TypeOK, StartInv, SlotInv
  <1>1. ASSUME NEW c \in Calls, Queue(c)
        PROVE  SlotInv'
    BY <1>1, ConstantsAssumption DEF Queue, Goto, poolVars, procVars, lifeVars
  <1>2. ASSUME NEW c \in Calls, ResetSession(c)
        PROVE  SlotInv'
    BY <1>2, ConstantsAssumption DEF ResetSession, AsksReset, Goto, lifeVars
  <1>3. ASSUME NEW c \in Calls, ResetDone(c)
        PROVE  SlotInv'
    BY <1>3, ConstantsAssumption DEF ResetDone, Goto, poolVars, procVars,
        lifeVars
  <1>4. ASSUME NEW c \in Calls, GetEntry(c)
        PROVE  SlotInv'
    BY <1>4, ConstantsAssumption DEF GetEntry, AtPool, HasEntry, Touched,
        Pooled, Enter, Goto, procVars, lifeVars
  <1>5. ASSUME NEW c \in Calls, Spawn(c)
        PROVE  SlotInv'
    BY <1>5, ConstantsAssumption DEF Spawn, AtPool, HasEntry, Victims,
        Pooled, Goto, lifeVars
  <1>6. ASSUME NEW c \in Calls, SpawnReady(c)
        PROVE  SlotInv'
    BY <1>6, ConstantsAssumption DEF SpawnReady, Touched, Pooled, Enter,
        Goto, lifeVars
  <1>7. ASSUME NEW c \in Calls, SpawnFails(c)
        PROVE  SlotInv'
    BY <1>7, ConstantsAssumption DEF SpawnFails, Ends, Goto, poolVars,
        lifeVars
  <1>8. ASSUME NEW c \in Calls, StrayStart(c)
        PROVE  SlotInv'
    BY <1>8, ConstantsAssumption DEF StrayStart, poolVars, callVars, lifeVars
  <1>9. ASSUME NEW c \in Calls, Acquire(c)
        PROVE  SlotInv'
    BY <1>9, ConstantsAssumption DEF Acquire, Enter, Goto, procVars, lifeVars
  <1>10. ASSUME NEW c \in Calls, ThreadEnds(c)
        PROVE  SlotInv'
    <2>1. EffectOfThread(c)
      BY <1>10, ThreadEffect
    <2> QED BY <2>1, ConstantsAssumption DEF EffectOfThread
  <1>11. ASSUME NEW c \in Calls, NEW ph \in Awaited, LateThreadEnds(c, ph)
        PROVE  SlotInv'
    BY <1>11, ConstantsAssumption DEF LateThreadEnds, poolVars, procVars,
        lifeVars
  <1>12. ASSUME NEW c \in Calls, HardTimeout(c)
        PROVE  SlotInv'
    BY <1>12, ConstantsAssumption DEF HardTimeout, Awaited, Resume, Goto,
        Ends, lifeVars
  <1>13. ASSUME NEW c \in Calls, Cancel(c)
        PROVE  SlotInv'
    BY <1>13, ConstantsAssumption DEF Cancel, Ends, Goto, poolVars, lifeVars
  <1>14. ASSUME NEW c \in Calls, ProcessDies(c)
        PROVE  SlotInv'
    BY <1>14, ConstantsAssumption DEF ProcessDies, poolVars, callVars,
        lifeVars
  <1>15. ASSUME NEW c \in Calls, KillDone(c)
        PROVE  SlotInv'
    BY <1>15, ConstantsAssumption DEF KillDone, poolVars, callVars, lifeVars
  <1>16. ASSUME NEW c \in Calls, ReapNext(c)
        PROVE  SlotInv'
    BY <1>16, ConstantsAssumption DEF ReapNext, poolVars, callVars
  <1>17. ASSUME NEW S \in SUBSET Sessions, ReapIdle(S)
        PROVE  SlotInv'
    BY <1>17, ConstantsAssumption DEF ReapIdle, Pooled, callVars
  <1>18. ASSUME Stop
        PROVE  SlotInv'
    BY <1>18, ConstantsAssumption DEF Stop, poolVars, callVars
  <1>19. ASSUME ShutdownAll
        PROVE  SlotInv'
    BY <1>19, ConstantsAssumption DEF ShutdownAll, Pooled, callVars
  <1>20. ASSUME Unwire
        PROVE  SlotInv'
    BY <1>20, ConstantsAssumption DEF Unwire, poolVars, procVars, callVars
  <1>21. CASE UNCHANGED vars
    BY <1>21 DEF vars
  <1> QED BY <1>1, <1>2, <1>3, <1>4, <1>5, <1>6, <1>7, <1>8, <1>9, <1>10,
             <1>11, <1>12, <1>13, <1>14, <1>15, <1>16, <1>17, <1>18, <1>19,
             <1>20, <1>21 DEF Next

\* Every step keeps DeadInv.
LEMMA DeadStep == KernelInv /\ [Next]_vars => DeadInv'
  <1> SUFFICES ASSUME KernelInv, [Next]_vars PROVE DeadInv'
    OBVIOUS
  <1> USE DEF KernelInv, HeldInv, TypeOK, StartInv, SlotInv, DeadInv
  <1>1. ASSUME NEW c \in Calls, Queue(c)
        PROVE  DeadInv'
    BY <1>1, ConstantsAssumption DEF Queue, GlobalFree, Goto, poolVars,
        procVars, lifeVars
  <1>2. ASSUME NEW c \in Calls, ResetSession(c)
        PROVE  DeadInv'
    BY <1>2, ConstantsAssumption DEF ResetSession, AsksReset, GlobalFree,
        Goto, lifeVars
  <1>3. ASSUME NEW c \in Calls, ResetDone(c)
        PROVE  DeadInv'
    BY <1>3, ConstantsAssumption DEF ResetDone, Goto, poolVars, procVars,
        lifeVars
  <1>4. ASSUME NEW c \in Calls, GetEntry(c)
        PROVE  DeadInv'
    BY <1>4, ConstantsAssumption DEF GetEntry, AtPool, GlobalFree, HasEntry,
        Touched, Pooled, Enter, Goto, procVars, lifeVars
  <1>5. ASSUME NEW c \in Calls, Spawn(c)
        PROVE  DeadInv'
    BY <1>5, ConstantsAssumption DEF Spawn, AtPool, GlobalFree, HasEntry,
        Goto, lifeVars
  <1>6. ASSUME NEW c \in Calls, SpawnReady(c)
        PROVE  DeadInv'
    BY <1>6, ConstantsAssumption DEF SpawnReady, Touched, Pooled, Enter,
        Goto, lifeVars
  <1>7. ASSUME NEW c \in Calls, SpawnFails(c)
        PROVE  DeadInv'
    <2>1. /\ c \in strays' \/ proc'[c] = "gone"
          /\ \A k \in Calls \ {c} : proc'[k] = proc[k] /\ pc'[k] = pc[k]
          /\ pc'[c] = "ended" /\ strays \subseteq strays'
          /\ UNCHANGED <<killing, dead, pool, session>>
      BY <1>7 DEF SpawnFails, Ends, Goto, poolVars
    <2> QED BY <2>1
  <1>8. ASSUME NEW c \in Calls, StrayStart(c)
        PROVE  DeadInv'
    BY <1>8, ConstantsAssumption DEF StrayStart, poolVars, callVars, lifeVars
  <1>9. ASSUME NEW c \in Calls, Acquire(c)
        PROVE  DeadInv'
    BY <1>9, ConstantsAssumption DEF Acquire, Enter, Goto, procVars, lifeVars
  <1>10. ASSUME NEW c \in Calls, ThreadEnds(c)
        PROVE  DeadInv'
    <2>1. EffectOfThread(c)
      BY <1>10, ThreadEffect
    <2> QED BY <2>1, ConstantsAssumption DEF EffectOfThread
  <1>11. ASSUME NEW c \in Calls, NEW ph \in Awaited, LateThreadEnds(c, ph)
        PROVE  DeadInv'
    BY <1>11, ConstantsAssumption DEF LateThreadEnds, poolVars, procVars,
        lifeVars
  <1>12. ASSUME NEW c \in Calls, HardTimeout(c)
        PROVE  DeadInv'
    BY <1>12, ConstantsAssumption DEF HardTimeout, Awaited, Resume, Goto,
        Ends, lifeVars
  <1>13. ASSUME NEW c \in Calls, Cancel(c)
        PROVE  DeadInv'
    BY <1>13, ConstantsAssumption DEF Cancel, Ends, Goto, poolVars, lifeVars
  <1>14. ASSUME NEW c \in Calls, ProcessDies(c)
        PROVE  DeadInv'
    BY <1>14, ConstantsAssumption DEF ProcessDies, poolVars, callVars,
        lifeVars
  <1>15. ASSUME NEW c \in Calls, KillDone(c)
        PROVE  DeadInv'
    BY <1>15, ConstantsAssumption DEF KillDone, poolVars, callVars, lifeVars
  <1>16. ASSUME NEW c \in Calls, ReapNext(c)
        PROVE  DeadInv'
    BY <1>16, ConstantsAssumption DEF ReapNext, poolVars, callVars
  <1>17. ASSUME NEW S \in SUBSET Sessions, ReapIdle(S)
        PROVE  DeadInv'
    BY <1>17, ConstantsAssumption DEF ReapIdle, GlobalFree, Pooled, callVars
  <1>18. ASSUME Stop
        PROVE  DeadInv'
    BY <1>18, ConstantsAssumption DEF Stop, poolVars, callVars
  <1>19. ASSUME ShutdownAll
        PROVE  DeadInv'
    BY <1>19, ConstantsAssumption DEF ShutdownAll, GlobalFree, Pooled,
        callVars
  <1>20. ASSUME Unwire
        PROVE  DeadInv'
    BY <1>20, ConstantsAssumption DEF Unwire, poolVars, procVars, callVars
  <1>21. CASE UNCHANGED vars
    BY <1>21 DEF vars
  <1> QED BY <1>1, <1>2, <1>3, <1>4, <1>5, <1>6, <1>7, <1>8, <1>9, <1>10,
             <1>11, <1>12, <1>13, <1>14, <1>15, <1>16, <1>17, <1>18, <1>19,
             <1>20, <1>21 DEF Next

\* No step loses a live process but those the property names.
LEMMA AccountedStep == KernelInv /\ [Next]_vars => KernelAccounted'
  <1> SUFFICES ASSUME KernelInv, [Next]_vars PROVE KernelAccounted'
    OBVIOUS
  <1> USE DEF KernelInv, HeldInv, TypeOK, StartInv, SlotInv, DeadInv,
              KernelAccounted, Live, Swept
  <1>1. ASSUME NEW c \in Calls, Queue(c)
        PROVE  KernelAccounted'
    BY <1>1, ConstantsAssumption DEF Queue, Goto, poolVars, procVars, lifeVars
  <1>2. ASSUME NEW c \in Calls, ResetSession(c)
        PROVE  KernelAccounted'
    BY <1>2, ConstantsAssumption DEF ResetSession, AsksReset, Goto, lifeVars
  <1>3. ASSUME NEW c \in Calls, ResetDone(c)
        PROVE  KernelAccounted'
    BY <1>3, ConstantsAssumption DEF ResetDone, Goto, poolVars, procVars,
        lifeVars
  <1>4. ASSUME NEW c \in Calls, GetEntry(c)
        PROVE  KernelAccounted'
    BY <1>4, ConstantsAssumption DEF GetEntry, AtPool, HasEntry, Touched,
        Pooled, Enter, Goto, procVars, lifeVars
  <1>5. ASSUME NEW c \in Calls, Spawn(c)
        PROVE  KernelAccounted'
    BY <1>5, ConstantsAssumption DEF Spawn, AtPool, HasEntry, Victims,
        Pooled, Goto, lifeVars
  <1>6. ASSUME NEW c \in Calls, SpawnReady(c)
        PROVE  KernelAccounted'
    BY <1>6, ConstantsAssumption DEF SpawnReady, Touched, Pooled, Enter,
        Goto, lifeVars
  <1>7. ASSUME NEW c \in Calls, SpawnFails(c)
        PROVE  KernelAccounted'
    BY <1>7, ConstantsAssumption DEF SpawnFails, Ends, Goto, poolVars,
        lifeVars
  <1>8. ASSUME NEW c \in Calls, StrayStart(c)
        PROVE  KernelAccounted'
    BY <1>8, ConstantsAssumption DEF StrayStart, poolVars, callVars, lifeVars
  <1>9. ASSUME NEW c \in Calls, Acquire(c)
        PROVE  KernelAccounted'
    BY <1>9, ConstantsAssumption DEF Acquire, Enter, Goto, procVars, lifeVars
  <1>10. ASSUME NEW c \in Calls, ThreadEnds(c)
        PROVE  KernelAccounted'
    <2>1. EffectOfThread(c)
      BY <1>10, ThreadEffect
    <2> QED BY <2>1, ConstantsAssumption DEF EffectOfThread
  <1>11. ASSUME NEW c \in Calls, NEW ph \in Awaited, LateThreadEnds(c, ph)
        PROVE  KernelAccounted'
    BY <1>11, ConstantsAssumption DEF LateThreadEnds, poolVars, procVars,
        lifeVars
  <1>12. ASSUME NEW c \in Calls, HardTimeout(c)
        PROVE  KernelAccounted'
    BY <1>12, ConstantsAssumption DEF HardTimeout, Awaited, Resume, Goto,
        Ends, lifeVars
  <1>13. ASSUME NEW c \in Calls, Cancel(c)
        PROVE  KernelAccounted'
    BY <1>13, ConstantsAssumption DEF Cancel, Ends, Goto, poolVars, lifeVars
  <1>14. ASSUME NEW c \in Calls, ProcessDies(c)
        PROVE  KernelAccounted'
    BY <1>14, ConstantsAssumption DEF ProcessDies, poolVars, callVars,
        lifeVars
  <1>15. ASSUME NEW c \in Calls, KillDone(c)
        PROVE  KernelAccounted'
    BY <1>15, ConstantsAssumption DEF KillDone, poolVars, callVars, lifeVars
  <1>16. ASSUME NEW c \in Calls, ReapNext(c)
        PROVE  KernelAccounted'
    BY <1>16, ConstantsAssumption DEF ReapNext, poolVars, callVars
  <1>17. ASSUME NEW S \in SUBSET Sessions, ReapIdle(S)
        PROVE  KernelAccounted'
    BY <1>17, ConstantsAssumption DEF ReapIdle, Pooled, callVars
  <1>18. ASSUME Stop
        PROVE  KernelAccounted'
    BY <1>18, ConstantsAssumption DEF Stop, poolVars, callVars
  <1>19. ASSUME ShutdownAll
        PROVE  KernelAccounted'
    BY <1>19, ConstantsAssumption DEF ShutdownAll, Pooled, callVars
  <1>20. ASSUME Unwire
        PROVE  KernelAccounted'
    BY <1>20, ConstantsAssumption DEF Unwire, poolVars, procVars, callVars
  <1>21. CASE UNCHANGED vars
    BY <1>21 DEF vars
  <1> QED BY <1>1, <1>2, <1>3, <1>4, <1>5, <1>6, <1>7, <1>8, <1>9, <1>10,
             <1>11, <1>12, <1>13, <1>14, <1>15, <1>16, <1>17, <1>18, <1>19,
             <1>20, <1>21 DEF Next

\* The inductive invariant.
LEMMA KernelInvariant == Spec => []KernelInv
  <1>1. Init => KernelInv
    BY ConstantsAssumption DEF Init, KernelInv, HeldInv, TypeOK, Steps, Results, Events,
       StartInv, SlotInv, DeadInv, KernelAccounted, Live, Swept
  <1>2. KernelInv /\ [Next]_vars => KernelInv'
    BY TypeStep, HeldStep, StartStep, SlotStep, DeadStep, AccountedStep DEF KernelInv
  <1> QED BY <1>1, <1>2, PTL DEF Spec

\* KernelAccounted: shutdown, reset, eviction and the reaper reach every
\* process that nobody lost in one of the named ways.
THEOREM NoKernelLost == Spec => []KernelAccounted
  <1>1. KernelInv => KernelAccounted
    BY DEF KernelInv
  <1> QED BY <1>1, KernelInvariant, PTL

\* OneNamespace: the code of a session runs in one kernel.
THEOREM NamespaceUnique == Spec => []OneNamespace
  <1>1. KernelInv => OneNamespace
    <2> SUFFICES ASSUME KernelInv, NEW j \in Live, NEW k \in Live,
                        {j, k} \cap (dead \cup strays \cup killing \cup reaping) = {},
                        session[j] = session[k]
                 PROVE  j = k
      BY DEF OneNamespace
    <2>0. j \in Calls /\ k \in Calls
      BY DEF Live
    <2>1. \A i \in {j, k} : pool[session[i]] = i \/ pc[i] = "spawning"
      <3> SUFFICES ASSUME NEW i \in {j, k}, pc[i] # "spawning"
                   PROVE  pool[session[i]] = i
        OBVIOUS
      <3>1. PICK s \in Sessions : pool[s] = i
        BY DEF KernelInv, KernelAccounted
      <3> QED BY <2>0, <3>1, ConstantsAssumption DEF KernelInv, SlotInv
    <2>2. CASE pc[j] = "spawning" /\ pc[k] = "spawning"
      BY <2>2 DEF KernelInv, StartInv, Live
    <2>3. CASE pc[j] # "spawning" /\ pc[k] # "spawning"
      BY <2>1, <2>3
    <2>4. CASE pc[j] = "spawning" /\ pc[k] # "spawning"
      BY <2>1, <2>4, ConstantsAssumption DEF KernelInv, DeadInv, Live
    <2>5. CASE pc[j] # "spawning" /\ pc[k] = "spawning"
      BY <2>1, <2>5, ConstantsAssumption DEF KernelInv, DeadInv, Live
    <2> QED BY <2>2, <2>3, <2>4, <2>5
  <1> QED BY <1>1, KernelInvariant, PTL

(***************************************************************************)
(* The cap                                                                 *)
(***************************************************************************)

\* A call that starts a kernel has made room for it.
CapInv ==
    /\ CapHolds
    /\ \A c \in Calls : pc[c] = "spawning" =>
        Cardinality(Pooled \ {session[c]}) < MaxKernels

\* Fewer entries keep the cap.
LEMMA FewerPooled ==
    ASSUME TypeOK, NEW S, NEW T, T \subseteq S, S \subseteq Sessions
    PROVE  /\ Cardinality(T) <= Cardinality(S)
           /\ Cardinality(T) \in Nat /\ Cardinality(S) \in Nat
  <1>1. IsFiniteSet(S)
    BY ConstantsAssumption, FS_Subset
  <1> QED BY <1>1, FS_Subset, FS_CardinalityType

\* Every step but a start and its end only takes entries away.
LEMMA OtherSteps ==
    ASSUME TypeOK, HeldInv, Next, \A c \in Calls : ~Spawn(c) /\ ~SpawnReady(c)
    PROVE  /\ Pooled' \subseteq Pooled
           /\ \A c \in Calls : pc'[c] = "spawning" => pc[c] = "spawning"
           /\ session' = session

  <1>1. ASSUME NEW c \in Calls, Queue(c)
        PROVE  /\ Pooled' \subseteq Pooled /\ session' = session
               /\ \A d \in Calls : pc'[d] = "spawning" => pc[d] = "spawning"
    BY <1>1 DEF Queue, Goto, poolVars, procVars, lifeVars, TypeOK, Pooled
  <1>2. ASSUME NEW c \in Calls, ResetSession(c)
        PROVE  /\ Pooled' \subseteq Pooled /\ session' = session
               /\ \A d \in Calls : pc'[d] = "spawning" => pc[d] = "spawning"
    BY <1>2 DEF ResetSession, AsksReset, Goto, lifeVars, TypeOK, Pooled
  <1>3. ASSUME NEW c \in Calls, ResetDone(c)
        PROVE  /\ Pooled' \subseteq Pooled /\ session' = session
               /\ \A d \in Calls : pc'[d] = "spawning" => pc[d] = "spawning"
    BY <1>3 DEF ResetDone, Goto, poolVars, procVars, lifeVars, TypeOK, Pooled
  <1>4. ASSUME NEW c \in Calls, GetEntry(c)
        PROVE  /\ Pooled' \subseteq Pooled /\ session' = session
               /\ \A d \in Calls : pc'[d] = "spawning" => pc[d] = "spawning"
    BY <1>4 DEF GetEntry, AtPool, Touched, Pooled, Enter, Goto, procVars,
                lifeVars, TypeOK
  <1>5. ASSUME NEW c \in Calls, SpawnFails(c)
        PROVE  /\ Pooled' \subseteq Pooled /\ session' = session
               /\ \A d \in Calls : pc'[d] = "spawning" => pc[d] = "spawning"
    BY <1>5 DEF SpawnFails, Ends, Goto, poolVars, lifeVars, TypeOK, Pooled
  <1>6. ASSUME NEW c \in Calls, StrayStart(c)
        PROVE  /\ Pooled' \subseteq Pooled /\ session' = session
               /\ \A d \in Calls : pc'[d] = "spawning" => pc[d] = "spawning"
    BY <1>6 DEF StrayStart, poolVars, callVars, lifeVars, TypeOK, Pooled
  <1>7. ASSUME NEW c \in Calls, Acquire(c)
        PROVE  /\ Pooled' \subseteq Pooled /\ session' = session
               /\ \A d \in Calls : pc'[d] = "spawning" => pc[d] = "spawning"
    BY <1>7 DEF Acquire, Enter, Goto, procVars, lifeVars, TypeOK, Pooled
  <1>8. ASSUME NEW c \in Calls, ThreadEnds(c)
        PROVE  /\ Pooled' \subseteq Pooled /\ session' = session
               /\ \A d \in Calls : pc'[d] = "spawning" => pc[d] = "spawning"
    <2>1. EffectOfThread(c)
      BY <1>8, ThreadEffect
    <2>2. \E x \in {"user", "ended"} : pc' = [pc EXCEPT ![c] = x]
      BY <2>1 DEF EffectOfThread
    <2>3. UNCHANGED <<pool, session>>
      BY <2>1 DEF EffectOfThread
    <2> QED BY <2>2, <2>3 DEF TypeOK, Pooled
  <1>9. ASSUME NEW c \in Calls, NEW ph \in Awaited, LateThreadEnds(c, ph)
        PROVE  /\ Pooled' \subseteq Pooled /\ session' = session
               /\ \A d \in Calls : pc'[d] = "spawning" => pc[d] = "spawning"
    BY <1>9 DEF LateThreadEnds, poolVars, procVars, lifeVars, TypeOK, Pooled
  <1>10. ASSUME NEW c \in Calls, HardTimeout(c)
        PROVE  /\ Pooled' \subseteq Pooled /\ session' = session
               /\ \A d \in Calls : pc'[d] = "spawning" => pc[d] = "spawning"
    BY <1>10 DEF HardTimeout, Awaited, Resume, Goto, Ends, lifeVars, TypeOK,
                 Pooled
  <1>11. ASSUME NEW c \in Calls, Cancel(c)
        PROVE  /\ Pooled' \subseteq Pooled /\ session' = session
               /\ \A d \in Calls : pc'[d] = "spawning" => pc[d] = "spawning"
    BY <1>11 DEF Cancel, Ends, Goto, poolVars, lifeVars, TypeOK, Pooled
  <1>12. ASSUME NEW c \in Calls, ProcessDies(c)
        PROVE  /\ Pooled' \subseteq Pooled /\ session' = session
               /\ \A d \in Calls : pc'[d] = "spawning" => pc[d] = "spawning"
    BY <1>12 DEF ProcessDies, poolVars, callVars, lifeVars, TypeOK, Pooled
  <1>13. ASSUME NEW c \in Calls, KillDone(c)
        PROVE  /\ Pooled' \subseteq Pooled /\ session' = session
               /\ \A d \in Calls : pc'[d] = "spawning" => pc[d] = "spawning"
    BY <1>13 DEF KillDone, poolVars, callVars, lifeVars, TypeOK, Pooled
  <1>14. ASSUME NEW c \in Calls, ReapNext(c)
        PROVE  /\ Pooled' \subseteq Pooled /\ session' = session
               /\ \A d \in Calls : pc'[d] = "spawning" => pc[d] = "spawning"
    BY <1>14 DEF ReapNext, poolVars, callVars, TypeOK, Pooled
  <1>15. ASSUME NEW S \in SUBSET Sessions, ReapIdle(S)
        PROVE  /\ Pooled' \subseteq Pooled /\ session' = session
               /\ \A d \in Calls : pc'[d] = "spawning" => pc[d] = "spawning"
    BY <1>15 DEF ReapIdle, Pooled, callVars, TypeOK
  <1>16. ASSUME Stop
        PROVE  /\ Pooled' \subseteq Pooled /\ session' = session
               /\ \A d \in Calls : pc'[d] = "spawning" => pc[d] = "spawning"
    BY <1>16 DEF Stop, poolVars, callVars, TypeOK, Pooled
  <1>17. ASSUME ShutdownAll
        PROVE  /\ Pooled' \subseteq Pooled /\ session' = session
               /\ \A d \in Calls : pc'[d] = "spawning" => pc[d] = "spawning"
    BY <1>17 DEF ShutdownAll, Pooled, callVars, TypeOK
  <1>18. ASSUME Unwire
        PROVE  /\ Pooled' \subseteq Pooled /\ session' = session
               /\ \A d \in Calls : pc'[d] = "spawning" => pc[d] = "spawning"
    BY <1>18 DEF Unwire, poolVars, procVars, callVars, TypeOK, Pooled
  <1> QED BY <1>1, <1>2, <1>3, <1>4, <1>5, <1>6, <1>7, <1>8, <1>9, <1>10,
             <1>11, <1>12, <1>13, <1>14, <1>15, <1>16, <1>17, <1>18 DEF Next

\* Every step keeps the cap.
LEMMA CapStep == TypeOK /\ HeldInv /\ StartInv /\ CapInv /\ [Next]_vars => CapInv'
  <1> SUFFICES ASSUME TypeOK, HeldInv, StartInv, CapInv, [Next]_vars PROVE CapInv'
    OBVIOUS
  <1>0. Pooled \subseteq Sessions /\ MaxKernels \in Nat
    BY ConstantsAssumption DEF Pooled
  <1>1. ASSUME NEW c \in Calls, Spawn(c)
        PROVE  CapInv'
    <2>1. session' = session /\ \A d \in Calls : pc'[d] = "spawning" => d = c
      BY <1>1 DEF Spawn, GlobalFree, Goto, TypeOK, lifeVars
    <2>2. PICK v \in Victims :
              pool' = IF v = None THEN pool ELSE [pool EXCEPT ![v] = None]
      BY <1>1 DEF Spawn
    <2>3. CASE v = None
      <3>1. Cardinality(Pooled) < MaxKernels
        BY <2>2, <2>3, ConstantsAssumption DEF Victims, Pooled
      <3>2. Pooled' = Pooled
        BY <2>2, <2>3 DEF Pooled
      <3>3. Cardinality(Pooled \ {session[c]}) <= Cardinality(Pooled)
        BY <1>0, FewerPooled
      <3> QED BY <1>0, <2>1, <3>1, <3>2, <3>3, FewerPooled DEF CapInv, CapHolds
    <2>4. CASE v # None
      <3>1. v \in Pooled
        BY <2>2, <2>4 DEF Victims
      <3>2. Pooled' = Pooled \ {v}
        BY <2>2, <2>4, <3>1 DEF Pooled, TypeOK
      <3>3. IsFiniteSet(Pooled)
        BY <1>0, ConstantsAssumption, FS_Subset
      <3>4. Cardinality(Pooled') = Cardinality(Pooled) - 1
        BY <3>1, <3>2, <3>3, FS_RemoveElement
      <3>5. Cardinality(Pooled') < MaxKernels
        BY <1>0, <3>3, <3>4, FS_CardinalityType DEF CapInv, CapHolds
      <3>6. Cardinality(Pooled' \ {session[c]}) <= Cardinality(Pooled')
        BY <1>0, <3>2, FewerPooled
      <3>7. Cardinality(Pooled' \ {session[c]}) \in Nat /\ Cardinality(Pooled') \in Nat
        BY <1>0, <3>2, FewerPooled
      <3> QED BY <1>0, <2>1, <3>5, <3>6, <3>7 DEF CapInv, CapHolds
    <2> QED BY <2>3, <2>4
  <1>2. ASSUME NEW c \in Calls, SpawnReady(c)
        PROVE  CapInv'
    <2>1. \A d \in Calls : pc'[d] # "spawning"
      BY <1>2 DEF SpawnReady, Enter, Goto, TypeOK, StartInv
    <2>2. Pooled' \subseteq (Pooled \ {session[c]}) \cup {session[c]}
      BY <1>2 DEF SpawnReady, Pooled, TypeOK
    <2>3. IsFiniteSet(Pooled \ {session[c]})
      BY <1>0, ConstantsAssumption, FS_Subset
    <2>4. Cardinality((Pooled \ {session[c]}) \cup {session[c]})
              = Cardinality(Pooled \ {session[c]}) + 1
      BY <2>3, FS_AddElement
    <2>5. Cardinality(Pooled \ {session[c]}) < MaxKernels
      BY <1>2 DEF SpawnReady, CapInv
    <2>6. (Pooled \ {session[c]}) \cup {session[c]} \subseteq Sessions
      BY <1>0 DEF TypeOK
    <2>7. Cardinality(Pooled') <= Cardinality((Pooled \ {session[c]}) \cup {session[c]})
      BY <2>2, <2>6, FewerPooled
    <2>8. Cardinality(Pooled') \in Nat /\ Cardinality(Pooled \ {session[c]}) \in Nat
      BY <2>2, <2>3, <2>6, FewerPooled, FS_CardinalityType
    <2> QED BY <1>0, <2>1, <2>4, <2>5, <2>7, <2>8 DEF CapInv, CapHolds
  <1>3. CASE Next /\ \A c \in Calls : ~Spawn(c) /\ ~SpawnReady(c)
    <2>1. /\ Pooled' \subseteq Pooled /\ session' = session
          /\ \A c \in Calls : pc'[c] = "spawning" => pc[c] = "spawning"
      BY <1>3, OtherSteps
    <2>2. Cardinality(Pooled') <= Cardinality(Pooled)
      BY <1>0, <2>1, FewerPooled
    <2>3. \A c \in Calls : Cardinality(Pooled' \ {session[c]})
                               <= Cardinality(Pooled \ {session[c]})
      BY <1>0, <2>1, FewerPooled
    <2>4. \A T \in SUBSET Sessions : Cardinality(T) \in Nat
      BY FewerPooled
    <2>5. \A T \in {Pooled, Pooled'} : \A c \in Calls : T \ {session[c]} \in SUBSET Sessions
      BY <1>0, <2>1
    <2>6. CapHolds'
      <3>1. Cardinality(Pooled) \in Nat /\ Cardinality(Pooled') \in Nat
        BY <1>0, <2>1, <2>4
      <3> QED BY <1>0, <2>2, <3>1 DEF CapInv, CapHolds
    <2>7. ASSUME NEW c \in Calls, pc'[c] = "spawning"
          PROVE  Cardinality(Pooled' \ {session'[c]}) < MaxKernels
      <3>1. Cardinality(Pooled \ {session[c]}) < MaxKernels
        BY <2>1, <2>7 DEF CapInv
      <3>2. /\ Cardinality(Pooled \ {session[c]}) \in Nat
            /\ Cardinality(Pooled' \ {session[c]}) \in Nat
        BY <2>4, <2>5
      <3> QED BY <1>0, <2>1, <2>3, <3>1, <3>2
    <2> QED BY <2>6, <2>7 DEF CapInv
  <1>4. CASE UNCHANGED vars
    BY <1>4 DEF vars, CapInv, CapHolds, Pooled
  <1> QED BY <1>1, <1>2, <1>3, <1>4

\* CapHolds: never more than max_kernels entries, though a start takes seconds.
THEOREM CapKept == Spec => []CapHolds
  <1>1. Init => CapInv
    <2>1. Init => Pooled = {}
      BY DEF Init, Pooled
    <2> QED BY <2>1, FS_EmptySet, ConstantsAssumption DEF Init, CapInv, CapHolds
  <1>2. KernelInv /\ CapInv /\ [Next]_vars => CapInv'
    BY CapStep DEF KernelInv
  <1>3. CapInv => CapHolds
    BY DEF CapInv
  <1> QED BY <1>1, <1>2, <1>3, KernelInvariant, PTL DEF Spec

(***************************************************************************)
(* Worker threads                                                          *)
(***************************************************************************)

\* Threads belong to calls that have entered a kernel, and results to calls
\* that have ended.
ThreadInv ==
    /\ \A t \in threads : pc[t[1]] \in Awaited \cup {"ended"}
    /\ \A c \in Calls : result[c] # "none" => pc[c] = "ended"
    /\ StrayThreadHasCause

\* Every step keeps ThreadInv.
LEMMA ThreadStep == KernelInv /\ ThreadInv /\ [Next]_vars => ThreadInv'
  <1> SUFFICES ASSUME KernelInv, ThreadInv, [Next]_vars PROVE ThreadInv'
    OBVIOUS
  <1> USE DEF KernelInv, HeldInv, TypeOK, StartInv, SlotInv, ThreadInv,
              StrayThreadHasCause, Awaited
  <1>1. ASSUME NEW c \in Calls, Queue(c)
        PROVE  ThreadInv'
    BY <1>1, ConstantsAssumption DEF Queue, Goto, poolVars, procVars, lifeVars
  <1>2. ASSUME NEW c \in Calls, ResetSession(c)
        PROVE  ThreadInv'
    BY <1>2, ConstantsAssumption DEF ResetSession, AsksReset, Goto, lifeVars
  <1>3. ASSUME NEW c \in Calls, ResetDone(c)
        PROVE  ThreadInv'
    BY <1>3, ConstantsAssumption DEF ResetDone, Goto, poolVars, procVars,
        lifeVars
  <1>4. ASSUME NEW c \in Calls, GetEntry(c)
        PROVE  ThreadInv'
    BY <1>4, ConstantsAssumption DEF GetEntry, AtPool, Touched, Pooled,
        EntryFree, Enter, Goto, procVars, lifeVars
  <1>5. ASSUME NEW c \in Calls, Spawn(c)
        PROVE  ThreadInv'
    BY <1>5, ConstantsAssumption DEF Spawn, AtPool, Goto, lifeVars
  <1>6. ASSUME NEW c \in Calls, SpawnReady(c)
        PROVE  ThreadInv'
    BY <1>6, ConstantsAssumption DEF SpawnReady, Touched, Pooled, Enter,
        Goto, lifeVars
  <1>7. ASSUME NEW c \in Calls, SpawnFails(c)
        PROVE  ThreadInv'
    BY <1>7, ConstantsAssumption DEF SpawnFails, Ends, Goto, poolVars,
        lifeVars
  <1>8. ASSUME NEW c \in Calls, StrayStart(c)
        PROVE  ThreadInv'
    BY <1>8, ConstantsAssumption DEF StrayStart, poolVars, callVars, lifeVars
  <1>9. ASSUME NEW c \in Calls, Acquire(c)
        PROVE  ThreadInv'
    BY <1>9, ConstantsAssumption DEF Acquire, EntryFree, Enter, Goto,
        procVars, lifeVars
  <1>10. ASSUME NEW c \in Calls, ThreadEnds(c)
        PROVE  ThreadInv'
    <2>1. EffectOfThread(c)
      BY <1>10, ThreadEffect
    <2>2. CASE pc[c] = "boot"
      BY <2>1, <2>2, ConstantsAssumption DEF EffectOfThread
    <2>3. CASE pc[c] = "user"
      <3>1. /\ pc' = [pc EXCEPT ![c] = "ended"] /\ threads' = threads \ {<<c, "user">>}
            /\ \A d \in Calls : d # c => result'[d] = result[d]
        BY <2>1, <2>3 DEF EffectOfThread
      <3>2. /\ \A t \in threads' : pc'[t[1]] \in Awaited \cup {"ended"}
            /\ \A d \in Calls : result'[d] # "none" => pc'[d] = "ended"
        BY <3>1
      <3> QED BY <2>1, <2>3, <3>1, <3>2 DEF EffectOfThread
    <2> QED BY <2>1, <2>2, <2>3 DEF EffectOfThread
  <1>11. ASSUME NEW c \in Calls, NEW ph \in Awaited, LateThreadEnds(c, ph)
        PROVE  ThreadInv'
    BY <1>11, ConstantsAssumption DEF LateThreadEnds, poolVars, procVars,
        lifeVars
  <1>12. ASSUME NEW c \in Calls, HardTimeout(c)
        PROVE  ThreadInv'
    <2>1. CASE pc[c] = "boot"
      BY <1>12, <2>1 DEF HardTimeout, Resume, Goto, Ends, lifeVars
    <2>2. CASE pc[c] = "user"
      BY <1>12, <2>2 DEF HardTimeout, Resume, Goto, Ends, lifeVars
    <2> QED BY <1>12, <2>1, <2>2 DEF HardTimeout
  <1>13. ASSUME NEW c \in Calls, Cancel(c)
        PROVE  ThreadInv'
    BY <1>13, ConstantsAssumption DEF Cancel, Ends, Goto, poolVars, lifeVars
  <1>14. ASSUME NEW c \in Calls, ProcessDies(c)
        PROVE  ThreadInv'
    BY <1>14, ConstantsAssumption DEF ProcessDies, poolVars, callVars,
        lifeVars
  <1>15. ASSUME NEW c \in Calls, KillDone(c)
        PROVE  ThreadInv'
    BY <1>15, ConstantsAssumption DEF KillDone, poolVars, callVars, lifeVars
  <1>16. ASSUME NEW c \in Calls, ReapNext(c)
        PROVE  ThreadInv'
    BY <1>16, ConstantsAssumption DEF ReapNext, poolVars, callVars
  <1>17. ASSUME NEW S \in SUBSET Sessions, ReapIdle(S)
        PROVE  ThreadInv'
    BY <1>17, ConstantsAssumption DEF ReapIdle, Pooled, callVars
  <1>18. ASSUME Stop
        PROVE  ThreadInv'
    BY <1>18, ConstantsAssumption DEF Stop, poolVars, callVars
  <1>19. ASSUME ShutdownAll
        PROVE  ThreadInv'
    BY <1>19, ConstantsAssumption DEF ShutdownAll, Pooled, callVars
  <1>20. ASSUME Unwire
        PROVE  ThreadInv'
    BY <1>20, ConstantsAssumption DEF Unwire, poolVars, procVars, callVars
  <1>21. CASE UNCHANGED vars
    BY <1>21 DEF vars
  <1> QED BY <1>1, <1>2, <1>3, <1>4, <1>5, <1>6, <1>7, <1>8, <1>9, <1>10,
             <1>11, <1>12, <1>13, <1>14, <1>15, <1>16, <1>17, <1>18, <1>19,
             <1>20, <1>21 DEF Next

\* StrayThreadHasCause: one call at a time in a kernel, and no thread left in a
\* client but by a cancel or a hard timeout.
THEOREM ThreadsAccounted == Spec => []StrayThreadHasCause
  <1>1. Init => ThreadInv
    BY DEF Init, ThreadInv, StrayThreadHasCause, Awaited
  <1>2. ThreadInv => StrayThreadHasCause
    BY DEF ThreadInv
  <1> QED BY <1>1, <1>2, ThreadStep, KernelInvariant, PTL DEF Spec
=============================================================================
