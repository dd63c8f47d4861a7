---------------------------- MODULE EventBusProofs ----------------------------
(***************************************************************************)
(* TypeOK of EventBus, and that a handler only ever sees recorded events,  *)
(* for every number of publishers, kinds, events and faults.  TLC's        *)
(* SeenIsDurable is not inductive: the argument needs who owns the lock    *)
(* and the connection's transaction, and that a task that is past its      *)
(* write has a written batch in hand.                                      *)
(***************************************************************************)
EXTENDS EventBus, TLAPS, SequenceTheorems

(***************************************************************************)
(* Lemmas about Elems                                                      *)
(***************************************************************************)

\* The elements of a sequence over S are in S.
LEMMA ElemsType ==
    ASSUME NEW S, NEW q \in Seq(S)
    PROVE  Elems(q) \subseteq S
  BY DEF Elems

\* The empty sequence has no elements.
LEMMA ElemsEmpty == Elems(<<>>) = {}
  BY DEF Elems

\* Concatenation joins the elements and stays in Seq(S).
LEMMA ElemsConcat ==
    ASSUME NEW S, NEW q \in Seq(S), NEW r \in Seq(S)
    PROVE  /\ q \o r \in Seq(S)
           /\ Elems(q \o r) = Elems(q) \cup Elems(r)
  <1>1. /\ q \o r \in Seq(S)
        /\ Len(q \o r) = Len(q) + Len(r)
        /\ \A i \in 1 .. Len(q) + Len(r) :
              (q \o r)[i] = IF i <= Len(q) THEN q[i] ELSE r[i - Len(q)]
    BY ConcatProperties
  <1>2. Elems(q \o r) \subseteq Elems(q) \cup Elems(r)
    BY <1>1 DEF Elems
  <1>3. Elems(q) \subseteq Elems(q \o r)
    BY <1>1 DEF Elems
  <1>4. Elems(r) \subseteq Elems(q \o r)
    <2>1. SUFFICES ASSUME NEW i \in DOMAIN r PROVE r[i] \in Elems(q \o r)
      BY DEF Elems
    <2>2. /\ i + Len(q) \in DOMAIN (q \o r)
          /\ (q \o r)[i + Len(q)] = r[i]
      BY <1>1
    <2> QED BY <2>2 DEF Elems
  <1> QED BY <1>1, <1>2, <1>3, <1>4

\* Append adds one element and stays in Seq(S).
LEMMA ElemsAppend ==
    ASSUME NEW S, NEW q \in Seq(S), NEW e \in S
    PROVE  /\ Append(q, e) \in Seq(S)
           /\ Elems(Append(q, e)) = Elems(q) \cup {e}
  <1>1. /\ Append(q, e) \in Seq(S)
        /\ Len(Append(q, e)) = Len(q) + 1
        /\ \A i \in 1 .. Len(q) : Append(q, e)[i] = q[i]
        /\ Append(q, e)[Len(q) + 1] = e
    BY AppendProperties
  <1>2. Elems(Append(q, e)) \subseteq Elems(q) \cup {e}
    BY <1>1 DEF Elems
  <1>3. Elems(q) \subseteq Elems(Append(q, e))
    BY <1>1 DEF Elems
  <1>4. e \in Elems(Append(q, e))
    BY <1>1 DEF Elems
  <1> QED BY <1>1, <1>2, <1>3, <1>4

(***************************************************************************)
(* Type correctness                                                        *)
(***************************************************************************)

CoType ==
    /\ pc \in [Tasks -> {"idle", "asleep"} \cup Waiting \cup Holding \cup Orphan]
    /\ ev \in [Publishers -> Events \cup {None}]
    /\ todo \in [Publishers -> SUBSET Kinds]
    /\ kind \in [Publishers -> Kinds \cup {None}]
    /\ batch \in [Tasks -> Seq(Events)]

SubType ==
    /\ active \subseteq Subs
    /\ inbox \in [Subs -> Seq(Events)]
    /\ fanned \subseteq Events

\* A task that ends keeps the coroutine variables typed.
LEMMA FinishType ==
    ASSUME CoType, NEW t \in Tasks, Finish(t)
    PROVE  CoType'
  BY ConstantsAssumption DEF CoType, Finish, Tasks

\* A fan-out of events keeps the subscriber variables typed.
LEMMA FanOutType ==
    ASSUME SubType, NEW q \in Seq(Events), FanOut(q)
    PROVE  SubType'
  <1>1. \A s \in Subs : inbox[s] \o q \in Seq(Events)
    BY ElemsConcat DEF SubType
  <1>2. Elems(q) \subseteq Events
    BY ElemsType
  <1> QED BY <1>1, <1>2 DEF SubType, FanOut

\* The code after a flush keeps both groups typed.
LEMMA ContinueType ==
    ASSUME CoType, SubType, NEW t \in Tasks, NEW rest \in SUBSET Kinds,
           NEW q \in Seq(Events), Continue(t, rest, q)
    PROVE  CoType' /\ SubType'
  <1>1. CASE FanOut(q) /\ Finish(t)
    BY <1>1, FanOutType, FinishType
  <1>2. CASE /\ t \in Publishers /\ ev[t] # None
             /\ FanOut(Append(q, ev[t])) /\ Finish(t)
    <2>1. Append(q, ev[t]) \in Seq(Events)
      BY <1>2, ElemsAppend DEF CoType
    <2> QED BY <1>2, <2>1, FanOutType, FinishType
  <1>3. CASE /\ t \in Publishers /\ ev[t] # None
             /\ \E k \in rest :
                   /\ kind' = [kind EXCEPT ![t] = k]
                   /\ todo' = [todo EXCEPT ![t] = rest \ {k}]
             /\ pc' = [pc EXCEPT ![t] = "flush"]
             /\ batch' = [batch EXCEPT ![t] = <<>>]
             /\ FanOut(q)
             /\ UNCHANGED ev
    <2>1. SubType'
      BY <1>3, FanOutType
    <2>2. CoType'
      BY <1>3 DEF CoType, Waiting
    <2> QED BY <2>1, <2>2
  <1> QED BY <1>1, <1>2, <1>3 DEF Continue

\* What a coroutine carries at the places where it is used: TypeOK alone is not
\* inductive, since a drained kind or a published event could be None.
PcData ==
    \A p \in Publishers :
        /\ pc[p] = "flush" => kind[p] \in Kinds
        /\ pc[p] = "chunk" => ev[p] \in Chunks
        /\ pc[p] \in {"low", "insert", "inserted", "orphanInsert"}
              => ev[p] \in Events

TypeInv == TypeOK /\ PcData

\* PcData holds again when a coroutine ends or goes on to drain a kind.
LEMMA FinishData ==
    ASSUME CoType, PcData, NEW t \in Tasks, Finish(t)
    PROVE  PcData'
  BY ConstantsAssumption DEF CoType, PcData, Finish, Tasks

\* The same holds of a coroutine that goes on after its insert or flush.
LEMMA ContinueData ==
    ASSUME CoType, PcData, NEW t \in Tasks, NEW rest \in SUBSET Kinds, NEW q,
           Continue(t, rest, q)
    PROVE  PcData'
  <1>1. CASE Finish(t)
    BY <1>1, FinishData
  <1>2. CASE /\ t \in Publishers
             /\ \E k \in rest : kind' = [kind EXCEPT ![t] = k]
             /\ pc' = [pc EXCEPT ![t] = "flush"]
             /\ UNCHANGED ev
    BY <1>2 DEF CoType, PcData
  <1> QED BY <1>1, <1>2 DEF Continue

\* The kind a task is about to flush is a batchable one.
LEMMA FlushKindType ==
    ASSUME PcData, NEW t \in Tasks, pc[t] = "flush"
    PROVE  FlushKind(t) \in Kinds
  BY ConstantsAssumption DEF PcData, FlushKind, Chunks, Tasks

\* Counting a fault keeps the counters typed.
LEMMA SpendType ==
    ASSUME used \in [Faults -> Nat], NEW f \in Faults, Spend(f)
    PROVE  used' \in [Faults -> Nat]
  BY DEF Spend

\* Every step keeps the types, and with them what each state of a coroutine
\* says of the data it carries.
LEMMA TypeStep == TypeInv /\ [Next]_vars => TypeInv'
  <1> SUFFICES ASSUME TypeInv, [Next]_vars PROVE TypeInv'
    OBVIOUS
  <1> USE DEF TypeInv
  <1>0. CoType /\ SubType /\ PcData
    BY DEF TypeOK, CoType, SubType
  <1>1. ASSUME NEW p \in Publishers, NEW e \in Events, Publish(p, e)
        PROVE  TypeInv'
    <2>1. Append(said[p], e) \in Seq(Events)
      BY ElemsAppend DEF TypeOK
    <2> QED BY <1>1, <2>1, ConstantsAssumption
        DEF Publish, TypeOK, PcData, Chunks, Tasks, Waiting, memVars, dbVars, subVars
  <1>2. ASSUME NEW p \in Publishers, NEW q \in BulkLists, PublishMany(p, q)
        PROVE  TypeInv'
    <2>1. PICK n \in 1..2 : q \in [1..n -> Events]
      BY DEF BulkLists
    <2>2. q \in Seq(Events)
      BY <2>1
    <2>3. said[p] \in Seq(Events)
      BY DEF TypeOK
    <2>4. said[p] \o q \in Seq(Events)
      BY <2>2, <2>3, ElemsConcat
    <2> QED BY <1>2, <2>2, <2>4
        DEF PublishMany, TypeOK, PcData, Tasks, Waiting, memVars, dbVars, subVars
  <1>3. ASSUME NEW p \in Publishers, AppendChunk(p)
        PROVE  TypeInv'
    <2>1. ev[p] \in Chunks /\ KindOf[ev[p]] \in Kinds
      BY <1>3 DEF AppendChunk, PcData, Chunks
    <2>2. Append(buffer[KindOf[ev[p]]], ev[p]) \in Seq(Events)
      BY <2>1, ElemsAppend DEF TypeOK, Chunks
    <2>3. CoType'
      BY <1>0, <1>3, <2>1, ConstantsAssumption DEF AppendChunk, CoType, Chunks, Tasks
    <2>4. PcData'
      BY <1>0, <1>3, <2>1, ConstantsAssumption DEF AppendChunk, CoType, PcData, Chunks, Tasks
    <2> QED BY <1>3, <2>1, <2>2, <2>3, <2>4
        DEF AppendChunk, TypeOK, CoType, dbVars, subVars, histVars
  <1>4. ASSUME NEW p \in Publishers, StartInsert(p) \/ StartBulk(p)
        PROVE  TypeInv'
    BY <1>4 DEF StartInsert, StartBulk, TypeOK, PcData, Tasks, Holding,
                dbVars, subVars, histVars
  <1>5. ASSUME NEW p \in Publishers, Insert(p)
        PROVE  TypeInv'
    <2>1. p \in Tasks /\ ev[p] \in Events
      BY <1>5 DEF Insert, PcData, Tasks
    <2>2. CoType' /\ PcData'
      <3>1. CASE pc[p] = "orphanInsert" /\ Finish(p)
        BY <1>0, <2>1, <3>1, FinishType, FinishData
      <3>2. CASE pc[p] = "insert" /\ pc' = [pc EXCEPT ![p] = "inserted"]
                  /\ UNCHANGED <<ev, todo, kind, batch>>
        BY <1>0, <2>1, <3>2 DEF CoType, PcData, Holding
      <3> QED BY <1>5, <3>1, <3>2 DEF Insert
    <2> QED BY <1>5, <2>1, <2>2 DEF Insert, TypeOK, CoType, memVars, subVars
  <1>6. ASSUME NEW p \in Publishers, InsertFails(p)
        PROVE  TypeInv'
    <2>1. CoType' /\ PcData'
      BY <1>0, <1>6, FinishType, FinishData DEF InsertFails, Tasks
    <2>2. used' \in [Faults -> Nat]
      BY <1>6, SpendType DEF InsertFails, TypeOK, Faults
    <2> QED BY <1>6, <2>1, <2>2 DEF InsertFails, Release, TypeOK, CoType, dbVars, subVars
  <1>7. ASSUME NEW p \in Publishers, AfterInsert(p)
        PROVE  TypeInv'
    <2>1. p \in Tasks /\ pending \in SUBSET Kinds /\ <<>> \in Seq(Events)
      BY DEF TypeOK, Tasks
    <2>2. CoType' /\ SubType' /\ PcData'
      BY <1>0, <1>7, <2>1, ContinueType, ContinueData DEF AfterInsert
    <2> QED BY <1>7, <2>2 DEF AfterInsert, Release, TypeOK, CoType, SubType, dbVars, histVars
  <1>8. ASSUME NEW t \in Tasks, TimerFires(t)
        PROVE  TypeInv'
    BY <1>8, ConstantsAssumption
       DEF TimerFires, TypeOK, PcData, Chunks, Waiting, memVars, dbVars, subVars, histVars
  <1>9. ASSUME NEW t \in Tasks, TakeBatch(t)
        PROVE  TypeInv'
    <2>1. FlushKind(t) \in Kinds
      BY <1>9, FlushKindType DEF TakeBatch
    <2> QED BY <1>9, <2>1 DEF TakeBatch, TypeOK, PcData, Holding, dbVars, subVars, histVars
  <1>10. ASSUME NEW t \in Tasks, NothingToFlush(t)
         PROVE  TypeInv'
    <2> DEFINE rest == IF t \in Publishers THEN todo[t] ELSE {}
    <2>1. rest \in SUBSET Kinds /\ <<>> \in Seq(Events)
      BY DEF TypeOK
    <2>2. Continue(t, rest, <<>>)
      BY <1>10 DEF NothingToFlush
    <2> HIDE DEF rest
    <2>3. CoType' /\ SubType' /\ PcData'
      BY <1>0, <2>1, <2>2, ContinueType, ContinueData
    <2> QED BY <1>10, <2>3 DEF NothingToFlush, TypeOK, CoType, SubType, dbVars, histVars
  <1>11. ASSUME NEW t \in Tasks, BeginWrite(t)
         PROVE  TypeInv'
    <2>1. Elems(batch[t]) \subseteq Events
      BY ElemsType DEF TypeOK
    <2> QED BY <1>11, <2>1
        DEF BeginWrite, TypeOK, PcData, Holding, Orphan, memVars, subVars, histVars
  <1>12. ASSUME NEW t \in Tasks, CommitWrite(t)
         PROVE  TypeInv'
    <2>1. CoType' /\ PcData'
      <3>1. CASE Finish(t)
        BY <1>0, <3>1, FinishType, FinishData
      <3>2. CASE /\ pc' = [pc EXCEPT ![t] = "written"]
                 /\ UNCHANGED <<ev, todo, kind, batch>>
        BY <1>0, <3>2 DEF CoType, PcData, Holding
      <3> QED BY <1>12, <3>1, <3>2 DEF CommitWrite
    <2> QED BY <1>12, <2>1 DEF CommitWrite, TypeOK, CoType, memVars, subVars, histVars
  <1>13. ASSUME NEW t \in Tasks, WriteFails(t)
         PROVE  TypeInv'
    <2>1. CoType' /\ PcData'
      BY <1>0, <1>13, FinishType, FinishData DEF WriteFails
    <2>2. used' \in [Faults -> Nat]
      BY <1>13, SpendType DEF WriteFails, TypeOK, Faults
    <2>3. Elems(batch[t]) \subseteq Events
      BY ElemsType DEF TypeOK
    <2>4. txn' \in Tasks \cup {None, Maint} /\ stored' \subseteq Events
      BY <1>13 DEF WriteFails, TypeOK
    <2> QED BY <1>13, <2>1, <2>2, <2>3, <2>4
        DEF WriteFails, Release, TypeOK, CoType, subVars
  <1>14. ASSUME NEW t \in Tasks, AfterWrite(t)
         PROVE  TypeInv'
    <2> DEFINE rest == IF t \in Publishers THEN todo[t] ELSE {}
    <2>1. rest \in SUBSET Kinds /\ batch[t] \in Seq(Events)
      BY DEF TypeOK
    <2>2. Continue(t, rest, batch[t])
      BY <1>14 DEF AfterWrite
    <2> HIDE DEF rest
    <2>3. CoType' /\ SubType' /\ PcData'
      BY <1>0, <2>1, <2>2, ContinueType, ContinueData
    <2> QED BY <1>14, <2>3
        DEF AfterWrite, Release, TypeOK, CoType, SubType, dbVars, histVars
  <1>15. ASSUME NEW p \in Publishers, Cancel(p)
         PROVE  TypeInv'
    <2>1. p \in Tasks /\ Elems(batch[p]) \subseteq Events
      BY ElemsType DEF TypeOK, Tasks
    <2>2. used' \in [Faults -> Nat]
      BY <1>15, SpendType DEF Cancel, TypeOK, Faults
    <2>3. CASE /\ Finish(p)
               /\ lost' = lost \cup (CASE pc[p] = "begin" -> Elems(batch[p])
                                      [] pc[p] = "chunk" -> {ev[p]}
                                      [] OTHER -> {})
      <3>1. CoType' /\ PcData'
        BY <1>0, <2>1, <2>3, FinishType, FinishData
      <3>2. lost' \subseteq Events
        BY <2>1, <2>3 DEF TypeOK, PcData, Chunks
      <3> QED BY <1>15, <2>2, <3>1, <3>2 DEF Cancel, Release, TypeOK, CoType, dbVars, subVars
    <2>4. CASE /\ pc[p] \in {"insert", "begin", "commit"}
               /\ pc' = [pc EXCEPT ![p] = CASE @ = "insert" -> "orphanInsert"
                                            [] @ = "begin"  -> "orphanBegin"
                                            [] @ = "commit" -> "orphanCommit"]
               /\ UNCHANGED <<ev, todo, kind, batch, lost>>
      <3>1. CoType' /\ PcData'
        BY <1>0, <2>1, <2>4 DEF CoType, PcData, Orphan
      <3> QED BY <1>15, <2>2, <2>4, <3>1 DEF Cancel, Release, TypeOK, CoType, dbVars, subVars
    <2> QED BY <1>15, <2>3, <2>4 DEF Cancel
  <1>16. ASSUME MaintBegin \/ MaintCommit \/ MaintFails
         PROVE  TypeInv'
    <2>1. used' \in [Faults -> Nat]
      BY <1>16, SpendType DEF MaintBegin, MaintCommit, MaintFails, TypeOK, Faults
    <2> QED BY <1>16, <2>1
        DEF MaintBegin, MaintCommit, MaintFails, TypeOK, PcData, coVars, memVars, subVars
  <1>17. ASSUME NEW D \in SUBSET stored, MaintDelete(D)
         PROVE  TypeInv'
    BY <1>17 DEF MaintDelete, TypeOK, PcData, coVars, memVars, subVars, histVars
  <1>18. ASSUME NEW s \in Subs, Subscribe(s) \/ Unsubscribe(s)
         PROVE  TypeInv'
    BY <1>18 DEF Subscribe, Unsubscribe, TypeOK, PcData, coVars, memVars, dbVars, histVars
  <1>19. ASSUME Close
         PROVE  TypeInv'
    <2>1. used' \in [Faults -> Nat]
      BY <1>19, SpendType DEF Close, TypeOK, Faults
    <2>2. \A t \in Tasks : Elems(batch[t]) \subseteq Events
      BY ElemsType DEF TypeOK
    <2>3. lost' \subseteq Events
      BY <1>19, <2>2 DEF Close, TypeOK, Tasks
    <2>4. CoType' /\ PcData'
      <3>1. \A t \in Tasks : batch'[t] \in Seq(Events)
        BY <1>19 DEF Close, TypeOK
      <3>2. batch' \in [Tasks -> Seq(Events)]
        BY <1>19, <3>1 DEF Close
      <3> QED BY <1>0, <1>19, <3>2, ConstantsAssumption
              DEF Close, CoType, PcData, Tasks, Chunks
    <2> QED BY <1>19, <2>1, <2>3, <2>4 DEF Close, TypeOK, CoType, subVars
  <1>20. ASSUME Crash
         PROVE  TypeInv'
    <2>1. used' \in [Faults -> Nat]
      BY <1>20, SpendType DEF Crash, TypeOK, Faults
    <2>2. /\ \A t \in Tasks : Elems(batch[t]) \subseteq Events
          /\ \A k \in Kinds : Elems(buffer[k]) \subseteq Events
          /\ InHand \subseteq Events
      BY ElemsType DEF TypeOK, PcData, InHand, Chunks
    <2>3. Buffered \subseteq Events /\ InBatch \subseteq Events
      BY <2>2 DEF Buffered, InBatch
    <2>4. lost' \subseteq Events
      BY <1>20, <2>2, <2>3 DEF Crash, TypeOK
    <2>5. CoType' /\ PcData'
      <3>1. batch' \in [Tasks -> Seq(Events)]
        BY <1>20 DEF Crash
      <3>2. todo' \in [Publishers -> SUBSET Kinds]
        BY <1>20 DEF Crash
      <3>3. /\ pc' \in [Tasks -> {"idle"}]
            /\ ev' \in [Publishers -> {None}] /\ kind' \in [Publishers -> {None}]
        BY <1>20 DEF Crash
      <3> QED BY <3>1, <3>2, <3>3 DEF CoType, PcData, Tasks
    <2>6. buffer' \in [Kinds -> Seq(Events)]
      BY <1>20 DEF Crash
    <2> QED BY <1>20, <2>1, <2>4, <2>5, <2>6 DEF Crash, TypeOK, CoType
  <1>21. CASE UNCHANGED vars
    BY <1>21 DEF vars, TypeOK, PcData
  <1> QED
    BY <1>1, <1>2, <1>3, <1>4, <1>5, <1>6, <1>7, <1>8, <1>9, <1>10, <1>11, <1>12,
       <1>13, <1>14, <1>15, <1>16, <1>17, <1>18, <1>19, <1>20, <1>21
       DEF Next, PublisherStep, TaskStep, Quiet, Tasks

\* The initial values are typed.
LEMMA TypeInit == Init => TypeInv
  <1> SUFFICES ASSUME Init PROVE TypeInv
    OBVIOUS
  <1>1. CoType /\ PcData
    <2>1. batch \in [Tasks -> Seq(Events)]
      BY DEF Init
    <2>2. todo \in [Publishers -> SUBSET Kinds]
      BY DEF Init
    <2>3. /\ pc \in [Tasks -> {"idle"}]
          /\ ev \in [Publishers -> {None}] /\ kind \in [Publishers -> {None}]
      BY DEF Init
    <2> QED BY <2>1, <2>2, <2>3 DEF CoType, PcData, Tasks
  <1>2. /\ buffer \in [Kinds -> Seq(Events)]
        /\ inbox \in [Subs -> Seq(Events)]
        /\ said \in [Publishers -> Seq(Events)]
        /\ used \in [Faults -> Nat]
    BY DEF Init
  <1> QED BY <1>1, <1>2 DEF Init, TypeInv, TypeOK, CoType

\* TypeOK of EventBus for every instance: in particular the buffer is only ever
\* indexed with a batchable kind and only events are written.
THEOREM TypeCorrect == Spec => []TypeOK
  BY TypeInit, TypeStep, PTL DEF Spec, TypeInv


-----------------------------------------------------------------------------
(* The event a publisher carries *)

\* A publisher carries an event only while it publishes it, no two publishers
\* carry the same one, and the timer of a carried chunk is not armed yet.
EvInv ==
    /\ \A p \in Publishers : pc[p] \in {"idle", "bulk"} => ev[p] = None
    /\ \A p \in Publishers : ev[p] # None => ev[p] \in Published
    /\ \A p, q \in Publishers : p # q /\ ev[p] = ev[q] => ev[p] = None
    /\ \A e \in Chunks : pc[e] # "idle" =>
          e \in Published /\ \A p \in Publishers : pc[p] = "chunk" => ev[p] # e

\* Published grows by what is published and by nothing else.
LEMMA PublishedUnchanged ==
    ASSUME said' = said
    PROVE  Published' = Published
  BY DEF Published, Elems

\* publish_many adds the events of its list.
LEMMA PublishedGrows ==
    ASSUME TypeOK, NEW p \in Publishers, NEW q \in Seq(Events),
           said' = [said EXCEPT ![p] = @ \o q]
    PROVE  Published' = Published \cup Elems(q)
  <1>1. /\ said[p] \in Seq(Events)
        /\ Elems(said[p] \o q) = Elems(said[p]) \cup Elems(q)
    BY ElemsConcat DEF TypeOK
  <1>2. \A r \in Publishers :
          \A x : x \in Elems(said'[r])
                  <=> x \in Elems(said[r]) \/ (r = p /\ x \in Elems(q))
    BY <1>1 DEF TypeOK
  <1>3. Published' = UNION {Elems(said'[r]) : r \in Publishers}
    BY DEF Published, Elems
  <1>4. \A x : x \in Published' <=> \E r \in Publishers : x \in Elems(said'[r])
    BY <1>3
  <1>5. \A x : x \in Published <=> \E r \in Publishers : x \in Elems(said[r])
    BY DEF Published
  <1>6. \A x : x \in Published' <=> x \in Published \/ x \in Elems(q)
    BY <1>2, <1>4, <1>5
  <1> QED BY <1>6

\* publish adds its event.
LEMMA PublishedAdds ==
    ASSUME TypeOK, NEW p \in Publishers, NEW e \in Events,
           said' = [said EXCEPT ![p] = Append(@, e)]
    PROVE  Published' = Published \cup {e}
  <1>1. /\ said[p] \in Seq(Events)
        /\ Elems(Append(said[p], e)) = Elems(said[p]) \cup {e}
    BY ElemsAppend DEF TypeOK
  <1>2. \A r \in Publishers :
          \A x : x \in Elems(said'[r])
                  <=> x \in Elems(said[r]) \/ (r = p /\ x \in {e})
    BY <1>1 DEF TypeOK
  <1>3. Published' = UNION {Elems(said'[r]) : r \in Publishers}
    BY DEF Published, Elems
  <1>4. \A x : x \in Published' <=> \E r \in Publishers : x \in Elems(said'[r])
    BY <1>3
  <1>5. \A x : x \in Published <=> \E r \in Publishers : x \in Elems(said[r])
    BY DEF Published
  <1>6. \A x : x \in Published' <=> x \in Published \/ x \in {e}
    BY <1>2, <1>4, <1>5
  <1> QED BY <1>6

\* What Continue does to the coroutine variables: the task ends, or drains on.
LEMMA ContinueCases ==
    ASSUME NEW t \in Tasks, NEW rest, NEW q, Continue(t, rest, q)
    PROVE  \/ Finish(t)
           \/ /\ t \in Publishers /\ pc' = [pc EXCEPT ![t] = "flush"]
              /\ batch' = [batch EXCEPT ![t] = <<>>]
              /\ UNCHANGED ev
  BY DEF Continue

\* EvInv only depends on these, so a step that lowers them keeps it.
LEMMA EvStable ==
    ASSUME TypeOK, EvInv, UNCHANGED said,
           \A p \in Publishers : ev'[p] \in {ev[p], None},
           \A p \in Publishers : pc'[p] \in {"idle", "bulk"} => ev'[p] = None,
           \A p \in Publishers : pc'[p] = "chunk" => pc[p] = "chunk",
           \A e \in Chunks : pc'[e] # "idle" => pc[e] # "idle"
    PROVE  EvInv'
  <1>1. Published' = Published
    BY PublishedUnchanged
  <1>2. \A p \in Publishers : pc'[p] = "chunk" /\ ev'[p] = ev[p] => pc[p] = "chunk"
    OBVIOUS
  <1>3. \A e \in Chunks : e # None
    BY ConstantsAssumption DEF Chunks
  <1> QED BY <1>1, <1>2, <1>3 DEF EvInv

\* A task that ends carries nothing.
LEMMA EvFinish ==
    ASSUME TypeInv, EvInv, NEW t \in Tasks, Finish(t), UNCHANGED said
    PROVE  EvInv'
  <1>1. /\ \A p \in Publishers : ev'[p] \in {ev[p], None}
        /\ \A p \in Publishers : pc'[p] \in {"idle", "bulk"} => ev'[p] = None
        /\ \A p \in Publishers : pc'[p] = "chunk" => pc[p] = "chunk"
        /\ \A e \in Chunks : pc'[e] # "idle" => pc[e] # "idle"
    BY DEF Finish, TypeInv, TypeOK, EvInv, Tasks
  <1> QED BY <1>1, EvStable DEF TypeInv

\* A task that moves on with its event in hand carries what it carried.
LEMMA EvMove ==
    ASSUME TypeInv, EvInv, NEW t \in Tasks, UNCHANGED <<said, ev>>,
           NEW x, pc' = [pc EXCEPT ![t] = x], pc[t] # "idle",
           x \notin {"idle", "bulk", "chunk"}
    PROVE  EvInv'
  <1>1. /\ \A p \in Publishers : ev'[p] \in {ev[p], None}
        /\ \A p \in Publishers : pc'[p] \in {"idle", "bulk"} => ev'[p] = None
        /\ \A p \in Publishers : pc'[p] = "chunk" => pc[p] = "chunk"
        /\ \A e \in Chunks : pc'[e] # "idle" => pc[e] # "idle"
    BY DEF TypeInv, TypeOK, EvInv, Tasks
  <1> QED BY <1>1, EvStable DEF TypeInv

\* Going on after an insert or a flush keeps or hands out the event.
LEMMA EvContinue ==
    ASSUME TypeInv, EvInv, NEW t \in Tasks, NEW rest, NEW q,
           Continue(t, rest, q), UNCHANGED said, pc[t] # "idle"
    PROVE  EvInv'
  BY ContinueCases, EvFinish, EvMove

\* Every step keeps EvInv.
LEMMA EvStep == TypeInv /\ EvInv /\ [Next]_vars => EvInv'
  <1> SUFFICES ASSUME TypeInv, EvInv, [Next]_vars PROVE EvInv'
    OBVIOUS
  <1>0. TypeOK /\ PcData
    BY DEF TypeInv
  <1>1. ASSUME NEW p \in Publishers, NEW e \in Events, Publish(p, e)
        PROVE  EvInv'
    <2>1. Published' = Published \cup {e} /\ e \notin Published /\ e # None
      BY <1>0, <1>1, PublishedAdds, ConstantsAssumption DEF Publish
    <2>2. /\ pc' = [pc EXCEPT ![p] = IF e \in Chunks THEN "chunk" ELSE "low"]
          /\ ev' = [ev EXCEPT ![p] = e]
          /\ p \notin Chunks
      BY <1>1, ConstantsAssumption DEF Publish, Chunks
    <2> QED BY <1>0, <2>1, <2>2 DEF EvInv, TypeOK, Tasks
  <1>2. ASSUME NEW p \in Publishers, NEW q \in BulkLists, PublishMany(p, q)
        PROVE  EvInv'
    <2>1. q \in Seq(Events)
      BY DEF BulkLists
    <2>2. Published \subseteq Published'
      BY <1>0, <1>2, <2>1, PublishedGrows DEF PublishMany
    <2>3. pc' = [pc EXCEPT ![p] = "bulk"] /\ ev' = ev /\ pc[p] = "idle" /\ p \notin Chunks
      BY <1>2, ConstantsAssumption DEF PublishMany, Chunks
    <2> QED BY <1>0, <2>2, <2>3 DEF EvInv, TypeOK, Tasks
  <1>3. ASSUME NEW p \in Publishers, AppendChunk(p)
        PROVE  EvInv'
    <2>1. Published' = Published
      BY <1>3, PublishedUnchanged DEF AppendChunk, histVars
    <2>2. ev[p] \in Chunks /\ ev[p] # p /\ ev[p] # None /\ pc[p] = "chunk" /\ p \notin Chunks
      BY <1>0, <1>3, ConstantsAssumption DEF AppendChunk, PcData, Chunks
    <2>3. /\ ev' = [ev EXCEPT ![p] = None]
          /\ \E x \in {pc[ev[p]], "asleep"} :
                pc' = [pc EXCEPT ![p] = "idle", ![ev[p]] = x]
      BY <1>0, <1>3, <2>2 DEF AppendChunk, TypeOK, Tasks
    <2> QED BY <1>0, <2>1, <2>2, <2>3 DEF EvInv, TypeOK, Tasks, Chunks
  <1>4. ASSUME NEW p \in Publishers, StartInsert(p) \/ StartBulk(p)
        PROVE  EvInv'
    BY <1>0, <1>4, EvMove DEF StartInsert, StartBulk, Tasks, histVars
  <1>5. ASSUME NEW p \in Publishers, Insert(p)
        PROVE  EvInv'
    BY <1>0, <1>5, EvMove, EvFinish DEF Insert, Tasks
  <1>6. ASSUME NEW p \in Publishers, InsertFails(p)
        PROVE  EvInv'
    BY <1>6, EvFinish DEF InsertFails, Tasks
  <1>7. ASSUME NEW p \in Publishers, AfterInsert(p)
        PROVE  EvInv'
    BY <1>7, EvContinue DEF AfterInsert, Tasks, histVars
  <1>8. ASSUME NEW t \in Tasks,
               TimerFires(t) \/ TakeBatch(t) \/ BeginWrite(t)
        PROVE  EvInv'
    <2>1. CASE TimerFires(t)
      BY <2>1, EvMove DEF TimerFires, histVars
    <2>2. CASE TakeBatch(t)
      BY <2>2, EvMove DEF TakeBatch, histVars
    <2>3. CASE BeginWrite(t)
      BY <1>0, <2>3, EvMove DEF BeginWrite, histVars, TypeOK
    <2> QED BY <1>8, <2>1, <2>2, <2>3
  <1>9. ASSUME NEW t \in Tasks, NothingToFlush(t) \/ AfterWrite(t)
        PROVE  EvInv'
    BY <1>9, EvContinue DEF NothingToFlush, AfterWrite, histVars
  <1>10. ASSUME NEW t \in Tasks, CommitWrite(t)
         PROVE  EvInv'
    BY <1>10, EvMove, EvFinish DEF CommitWrite, histVars
  <1>11. ASSUME NEW t \in Tasks, WriteFails(t)
         PROVE  EvInv'
    BY <1>11, EvFinish DEF WriteFails
  <1>12. ASSUME NEW p \in Publishers, Cancel(p)
         PROVE  EvInv'
    <2>1. CASE Finish(p)
      BY <1>12, <2>1, EvFinish DEF Cancel, Tasks
    <2>2. CASE \E x \in Orphan : pc' = [pc EXCEPT ![p] = x] /\ UNCHANGED ev
      BY <1>12, <2>2, EvMove DEF Cancel, Orphan, Waiting, Holding, Tasks
    <2> QED BY <1>0, <1>12, <2>1, <2>2 DEF Cancel, Orphan, TypeOK, Tasks
  <1>13. ASSUME \/ MaintBegin \/ MaintCommit \/ MaintFails
                \/ \E D \in SUBSET stored : MaintDelete(D)
                \/ \E s \in Subs : Subscribe(s) \/ Unsubscribe(s)
                \/ UNCHANGED vars
         PROVE  EvInv'
    <2>1. UNCHANGED <<pc, ev, said>>
      BY <1>13 DEF MaintBegin, MaintCommit, MaintFails, MaintDelete, Subscribe,
                   Unsubscribe, coVars, histVars, vars
    <2> QED BY <2>1, PublishedUnchanged DEF EvInv
  <1>14. ASSUME Close
         PROVE  EvInv'
    <2>1. /\ UNCHANGED <<ev, said>>
          /\ \A t \in Tasks : pc'[t] = IF t \in Chunks THEN "idle" ELSE pc[t]
          /\ \A p \in Publishers : p \notin Chunks
      BY <1>14, ConstantsAssumption DEF Close, Chunks
    <2> QED BY <2>1, PublishedUnchanged DEF EvInv, Tasks
  <1>15. ASSUME Crash
         PROVE  EvInv'
    BY <1>0, <1>15, EvStable DEF Crash, Tasks
  <1> QED
    BY <1>1, <1>2, <1>3, <1>4, <1>5, <1>6, <1>7, <1>8, <1>9, <1>10, <1>11, <1>12,
       <1>13, <1>14, <1>15
       DEF Next, PublisherStep, TaskStep, Quiet, Tasks

-----------------------------------------------------------------------------
(* Who holds the lock *)

\* A coroutine that ends or drains on after releasing the lock.
LEMMA LockLeave ==
    ASSUME TypeOK, LockOwned, NEW t \in Tasks, Release(t),
           NEW x, pc' = [pc EXCEPT ![t] = x], x \notin Holding
    PROVE  LockOwned'
  BY ConstantsAssumption DEF TypeOK, LockOwned, Release

\* A coroutine, or a thread without one, that moves on without the lock changing.
LEMMA LockKeep ==
    ASSUME TypeOK, LockOwned, NEW t \in Tasks, lock' = lock,
           NEW x, pc' = [pc EXCEPT ![t] = x], x \in Holding <=> pc[t] \in Holding
    PROVE  LockOwned'
  BY DEF TypeOK, LockOwned

\* A coroutine that is granted the lock.
LEMMA LockTake ==
    ASSUME TypeOK, LockOwned, NEW t \in Tasks, lock = None, lock' = t,
           NEW x, pc' = [pc EXCEPT ![t] = x], x \in Holding
    PROVE  LockOwned'
  BY ConstantsAssumption DEF TypeOK, LockOwned

\* Every step keeps the lock with the task that is writing under it: failure,
\* cancellation, close and crash give it back.
LEMMA LockStep == TypeInv /\ EvInv /\ LockOwned /\ [Next]_vars => LockOwned'
  <1> SUFFICES ASSUME TypeInv, EvInv, LockOwned, [Next]_vars PROVE LockOwned'
    OBVIOUS
  <1>0. TypeOK /\ PcData
    BY DEF TypeInv
  <1>1. \A p \in Publishers : p \in Tasks /\ p \notin Chunks
    BY ConstantsAssumption DEF Tasks, Chunks
  <1>2. ASSUME NEW p \in Publishers,
               \/ \E e \in Events : Publish(p, e)
               \/ \E q \in BulkLists : PublishMany(p, q)
        PROVE  LockOwned'
    <2>1. \E x \in Waiting : pc' = [pc EXCEPT ![p] = x]
      BY <1>2 DEF Publish, PublishMany, Waiting
    <2>2. pc[p] = "idle" /\ lock' = lock
      BY <1>2 DEF Publish, PublishMany, memVars
    <2> QED BY <1>0, <1>1, <2>1, <2>2, LockKeep DEF Waiting, Holding
  <1>3. ASSUME NEW p \in Publishers, AppendChunk(p)
        PROVE  LockOwned'
    <2>1. /\ ev[p] \in Chunks /\ ev[p] \in Tasks /\ ev[p] # p /\ p \in Tasks
          /\ pc[ev[p]] = "idle" /\ pc[p] = "chunk" /\ lock' = lock
      BY <1>0, <1>1, <1>3 DEF AppendChunk, PcData, EvInv, Tasks
    <2>2. \E x \in {"idle", "asleep"} :
             pc' = [pc EXCEPT ![p] = "idle", ![ev[p]] = x]
      BY <1>0, <1>3, <2>1 DEF AppendChunk, TypeOK
    <2> QED BY <1>0, <2>1, <2>2 DEF LockOwned, TypeOK, Holding
  <1>4. ASSUME NEW p \in Publishers, StartInsert(p) \/ StartBulk(p)
        PROVE  LockOwned'
    BY <1>0, <1>1, <1>4, LockTake DEF StartInsert, StartBulk, Holding
  <1>5. ASSUME NEW p \in Publishers, Insert(p)
        PROVE  LockOwned'
    BY <1>0, <1>1, <1>5, LockKeep DEF Insert, Finish, Holding, memVars
  <1>6. ASSUME NEW p \in Publishers, InsertFails(p)
        PROVE  LockOwned'
    BY <1>0, <1>1, <1>6, LockLeave DEF InsertFails, Finish, Holding
  <1>7. ASSUME NEW p \in Publishers, AfterInsert(p)
        PROVE  LockOwned'
    BY <1>0, <1>1, <1>7, ContinueCases, LockLeave DEF AfterInsert, Finish, Holding
  <1>8. ASSUME NEW t \in Tasks, TimerFires(t)
        PROVE  LockOwned'
    BY <1>0, <1>8, LockKeep DEF TimerFires, memVars, Holding
  <1>9. ASSUME NEW t \in Tasks, TakeBatch(t)
        PROVE  LockOwned'
    BY <1>0, <1>9, LockTake DEF TakeBatch, Holding
  <1>10. ASSUME NEW t \in Tasks, NothingToFlush(t)
         PROVE  LockOwned'
    BY <1>0, <1>10, ContinueCases, LockKeep DEF NothingToFlush, Finish, Holding
  <1>11. ASSUME NEW t \in Tasks, BeginWrite(t) \/ CommitWrite(t)
         PROVE  LockOwned'
    <2>1. CASE BeginWrite(t)
      BY <1>0, <2>1, LockKeep DEF BeginWrite, Holding, memVars, TypeOK
    <2>2. CASE CommitWrite(t)
      BY <1>0, <2>2, LockKeep DEF CommitWrite, Finish, Holding, memVars
    <2> QED BY <1>11, <2>1, <2>2
  <1>12. ASSUME NEW t \in Tasks, WriteFails(t)
         PROVE  LockOwned'
    BY <1>0, <1>12, LockLeave DEF WriteFails, Finish, Holding
  <1>13. ASSUME NEW t \in Tasks, AfterWrite(t)
         PROVE  LockOwned'
    BY <1>0, <1>13, ContinueCases, LockLeave DEF AfterWrite, Finish, Holding
  <1>14. ASSUME NEW p \in Publishers, Cancel(p)
         PROVE  LockOwned'
    <2>1. \E x \in Orphan \cup {"idle"} : pc' = [pc EXCEPT ![p] = x]
      BY <1>0, <1>1, <1>14 DEF Cancel, Finish, Orphan, TypeOK
    <2> QED BY <1>0, <1>1, <1>14, <2>1, LockLeave DEF Cancel, Orphan, Holding
  <1>15. ASSUME \/ MaintBegin \/ MaintCommit \/ MaintFails
                \/ \E D \in SUBSET stored : MaintDelete(D)
                \/ \E s \in Subs : Subscribe(s) \/ Unsubscribe(s)
                \/ UNCHANGED vars
         PROVE  LockOwned'
    <2>1. UNCHANGED <<pc, lock>>
      BY <1>15 DEF MaintBegin, MaintCommit, MaintFails, MaintDelete, Subscribe,
                   Unsubscribe, coVars, memVars, vars
    <2> QED BY <2>1 DEF LockOwned
  <1>16. ASSUME Close
         PROVE  LockOwned'
    <2>1. /\ \A t \in Tasks : pc'[t] = IF t \in Chunks THEN "idle" ELSE pc[t]
          /\ lock' = IF lock \in Chunks THEN None ELSE lock
      BY <1>16 DEF Close
    <2> QED BY <2>1, ConstantsAssumption DEF LockOwned, Holding
  <1>17. ASSUME Crash
         PROVE  LockOwned'
    BY <1>17, ConstantsAssumption DEF Crash, LockOwned, Holding
  <1> QED
    BY <1>2, <1>3, <1>4, <1>5, <1>6, <1>7, <1>8, <1>9, <1>10, <1>11, <1>12,
       <1>13, <1>14, <1>15, <1>16, <1>17
       DEF Next, PublisherStep, TaskStep, Quiet, Tasks

-----------------------------------------------------------------------------
(* Who owns the connection's transaction *)

\* The transaction open on the connection is that of the task between its BEGIN
\* and its COMMIT or of maintenance; what it wrote is not durable yet, and only
\* maintenance takes rows away.
TxnInv ==
    /\ \A t \in Tasks : txn = t <=> pc[t] \in {"commit", "orphanCommit"} /\ up
    /\ txn = Maint <=> maint # "idle"
    /\ ~up => txn = None
    /\ txn = None => stored = durable
    /\ txn \in Tasks => durable \subseteq stored

\* A step of a task outside its transaction leaves TxnInv alone.
LEMMA TxnKeep ==
    ASSUME TypeOK, TxnInv, UNCHANGED dbVars,
           \A t \in Tasks : pc'[t] = pc[t] \/ ~up \/
                {pc[t], pc'[t]} \cap {"commit", "orphanCommit"} = {} \/
                {pc[t], pc'[t]} \subseteq {"commit", "orphanCommit"}
    PROVE  TxnInv'
  BY DEF TypeOK, TxnInv, dbVars

\* Moving between states without a transaction changes no ownership.
LEMMA TxnMove ==
    ASSUME TypeOK, TxnInv, UNCHANGED dbVars, NEW t \in Tasks, NEW x,
           pc' = [pc EXCEPT ![t] = x],
           {pc[t], x} \cap {"commit", "orphanCommit"} = {}
    PROVE  TxnInv'
  BY TxnKeep DEF TypeOK

\* Every step keeps TxnInv: a transaction is open for its writer only.
LEMMA TxnStep == TypeInv /\ EvInv /\ TxnInv /\ [Next]_vars => TxnInv'
  <1> SUFFICES ASSUME TypeInv, EvInv, TxnInv, [Next]_vars PROVE TxnInv'
    OBVIOUS
  <1>0. TypeOK /\ PcData
    BY DEF TypeInv
  <1>1. \A p \in Publishers : p \in Tasks /\ p \notin Chunks
    BY ConstantsAssumption DEF Tasks, Chunks
  <1>2. None \notin Tasks /\ Maint \notin Tasks /\ Maint # None
    BY ConstantsAssumption
  <1>3. ASSUME NEW p \in Publishers,
               \/ \E e \in Events : Publish(p, e)
               \/ \E q \in BulkLists : PublishMany(p, q)
               \/ StartInsert(p) \/ StartBulk(p)
        PROVE  TxnInv'
    <2>1. \E x \in Waiting \cup {"insert", "begin"} : pc' = [pc EXCEPT ![p] = x]
      BY <1>3 DEF Publish, PublishMany, StartInsert, StartBulk, Waiting
    <2>2. pc[p] \in {"idle", "low", "bulk"} /\ UNCHANGED dbVars
      BY <1>3 DEF Publish, PublishMany, StartInsert, StartBulk
    <2> QED BY <1>0, <1>1, <2>1, <2>2, TxnMove DEF Waiting
  <1>4. ASSUME NEW p \in Publishers, AppendChunk(p)
        PROVE  TxnInv'
    <2>1. /\ ev[p] \in Tasks /\ ev[p] # p /\ p \in Tasks
          /\ pc[ev[p]] = "idle" /\ pc[p] = "chunk" /\ UNCHANGED dbVars
      BY <1>0, <1>1, <1>4 DEF AppendChunk, PcData, EvInv, Tasks
    <2>2. \E x \in {"idle", "asleep"} :
             pc' = [pc EXCEPT ![p] = "idle", ![ev[p]] = x]
      BY <1>0, <1>4, <2>1 DEF AppendChunk, TypeOK
    <2> QED BY <1>0, <2>1, <2>2, TxnKeep DEF TypeOK
  <1>5. ASSUME NEW p \in Publishers, Insert(p)
        PROVE  TxnInv'
    <2>1. \E x \in {"inserted", "idle"} : pc' = [pc EXCEPT ![p] = x]
      BY <1>5 DEF Insert, Finish
    <2>2. p \in Tasks /\ pc[p] \in {"insert", "orphanInsert"}
      BY <1>1, <1>5 DEF Insert
    <2>3. \A t \in Tasks : pc'[t] \in {"commit", "orphanCommit"}
                        <=> pc[t] \in {"commit", "orphanCommit"}
      BY <1>0, <2>1, <2>2 DEF TypeOK
    <2>4. UNCHANGED <<up, txn, maint>> /\ stored' = stored \cup {ev[p]}
          /\ durable' = IF txn = None THEN durable \cup {ev[p]} ELSE durable
      BY <1>5 DEF Insert
    <2> QED BY <2>3, <2>4, <1>2 DEF TxnInv
  <1>6. ASSUME NEW p \in Publishers, InsertFails(p)
        PROVE  TxnInv'
    BY <1>0, <1>1, <1>6, TxnMove DEF InsertFails, Finish
  <1>7. ASSUME NEW p \in Publishers, AfterInsert(p)
        PROVE  TxnInv'
    BY <1>0, <1>1, <1>7, ContinueCases, TxnMove DEF AfterInsert, Finish
  <1>8. ASSUME NEW t \in Tasks, TimerFires(t) \/ TakeBatch(t)
        PROVE  TxnInv'
    BY <1>0, <1>8, TxnMove DEF TimerFires, TakeBatch
  <1>9. ASSUME NEW t \in Tasks, NothingToFlush(t) \/ AfterWrite(t)
        PROVE  TxnInv'
    BY <1>0, <1>9, ContinueCases, TxnMove DEF NothingToFlush, AfterWrite, Finish
  <1>10. ASSUME NEW t \in Tasks, BeginWrite(t)
         PROVE  TxnInv'
    <2>1. \E x \in {"commit", "orphanCommit"} : pc' = [pc EXCEPT ![t] = x]
      BY <1>0, <1>10 DEF BeginWrite, TypeOK
    <2>2. \A u \in Tasks : pc[u] \notin {"commit", "orphanCommit"}
      BY <1>2, <1>10 DEF BeginWrite, TxnInv
    <2> QED BY <1>0, <1>2, <1>10, <2>1, <2>2 DEF BeginWrite, TxnInv, TypeOK
  <1>11. ASSUME NEW t \in Tasks, CommitWrite(t)
         PROVE  TxnInv'
    <2>1. \E x \in {"written", "idle"} : pc' = [pc EXCEPT ![t] = x]
      BY <1>11 DEF CommitWrite, Finish
    <2>2. \A u \in Tasks : u # t => pc[u] \notin {"commit", "orphanCommit"}
      BY <1>11 DEF CommitWrite, TxnInv
    <2> QED BY <1>0, <1>2, <1>11, <2>1, <2>2 DEF CommitWrite, TxnInv, TypeOK
  <1>12. ASSUME NEW t \in Tasks, WriteFails(t)
         PROVE  TxnInv'
    <2>1. pc' = [pc EXCEPT ![t] = "idle"] /\ UNCHANGED <<up, durable, maint>>
      BY <1>12 DEF WriteFails, Finish
    <2>2. CASE /\ UNCHANGED <<txn, stored>>
               /\ ~up \/ pc[t] \in {"begin", "orphanBegin"}
      BY <1>0, <2>1, <2>2, TxnKeep DEF TypeOK, dbVars
    <2>3. CASE /\ up /\ pc[t] \in {"commit", "orphanCommit"}
               /\ txn' = None /\ stored' = durable
      <3>1. txn = t /\ maint = "idle"
        BY <1>2, <2>3 DEF TxnInv
      <3>2. \A u \in Tasks : u # t => pc[u] \notin {"commit", "orphanCommit"}
        BY <2>3, <3>1 DEF TxnInv
      <3> QED BY <1>0, <1>2, <2>1, <2>3, <3>1, <3>2 DEF TxnInv, TypeOK
    <2> QED BY <1>12, <2>2, <2>3 DEF WriteFails
  <1>13. ASSUME NEW p \in Publishers, Cancel(p)
         PROVE  TxnInv'
    <2>1. p \in Tasks /\ UNCHANGED dbVars
      BY <1>1, <1>13 DEF Cancel
    <2>2. CASE pc[p] # "commit"
      <3>1. PICK x \in {"idle", "orphanInsert", "orphanBegin"} :
               pc' = [pc EXCEPT ![p] = x]
        BY <1>0, <1>13, <2>1, <2>2 DEF Cancel, Finish, TypeOK
      <3>2. pc[p] # "orphanCommit"
        BY <1>13 DEF Cancel, Waiting, Holding
      <3>3. {pc[p], x} \cap {"commit", "orphanCommit"} = {}
        BY <2>2, <3>2
      <3> QED BY <1>0, <1>2, <2>1, <3>1, <3>3, TxnMove
    <2>3. CASE pc[p] = "commit"
      <3>1. pc' = [pc EXCEPT ![p] = "orphanCommit"]
        BY <1>0, <1>13, <2>1, <2>3 DEF Cancel, TypeOK
      <3> QED BY <1>0, <2>1, <2>3, <3>1, TxnKeep DEF TypeOK
    <2> QED BY <2>2, <2>3
  <1>14. ASSUME \/ MaintBegin \/ MaintCommit \/ MaintFails
                \/ \E D \in SUBSET stored : MaintDelete(D)
         PROVE  TxnInv'
    <2>1. pc' = pc /\ up' = up /\ up
      BY <1>14 DEF MaintBegin, MaintCommit, MaintFails, MaintDelete, coVars
    <2>2. CASE MaintBegin
      BY <1>2, <2>1, <2>2 DEF MaintBegin, TxnInv
    <2>3. CASE MaintCommit
      BY <1>2, <2>1, <2>3 DEF MaintCommit, TxnInv
    <2>4. CASE MaintFails
      BY <1>2, <2>1, <2>4 DEF MaintFails, TxnInv
    <2>5. CASE \E D \in SUBSET stored : MaintDelete(D)
      BY <1>2, <2>1, <2>5 DEF MaintDelete, TxnInv
    <2> QED BY <1>14, <2>2, <2>3, <2>4, <2>5
  <1>15. ASSUME (\E s \in Subs : Subscribe(s) \/ Unsubscribe(s)) \/ UNCHANGED vars
         PROVE  TxnInv'
    <2>1. UNCHANGED <<pc, dbVars>>
      BY <1>15 DEF Subscribe, Unsubscribe, coVars, vars, dbVars
    <2> QED BY <2>1, <1>0, TxnKeep
  <1>16. ASSUME Close \/ Crash
         PROVE  TxnInv'
    BY <1>2, <1>16 DEF Close, Crash, TxnInv
  <1> QED
    BY <1>3, <1>4, <1>5, <1>6, <1>7, <1>8, <1>9, <1>10, <1>11, <1>12,
       <1>13, <1>14, <1>15, <1>16
       DEF Next, PublisherStep, TaskStep, Quiet, Tasks

-----------------------------------------------------------------------------
(* What is recorded is what is handed out *)

\* Past its write a task holds recorded events only, whoever else wrote, failed
\* or was cancelled meanwhile; the fan-out hands out nothing else.
RecInv ==
    /\ \A p \in Publishers :
          pc[p] \in {"inserted", "flush", "begin", "commit", "written"} /\ ev[p] # None
             => ev[p] \in Recorded
    /\ \A t \in Tasks : pc[t] = "written" => Elems(batch[t]) \subseteq Recorded
    /\ \A t \in Tasks : pc[t] \in {"commit", "orphanCommit"} /\ up
             => Elems(batch[t]) \subseteq stored
    /\ fanned \subseteq Recorded
    /\ \A s \in Subs : Seen(s) \subseteq fanned

DurInv == TypeInv /\ EvInv /\ LockOwned /\ TxnInv /\ RecInv

\* The log never shrinks.
LEMMA RecordedGrows ==
    ASSUME TypeInv, TxnInv, [Next]_vars
    PROVE  Recorded \subseteq Recorded'
  <1>1. ASSUME UNCHANGED <<durable, gone, risk>>
        PROVE  Recorded \subseteq Recorded'
    BY <1>1 DEF Recorded
  <1>2. ASSUME NEW p \in Publishers, Insert(p)
        PROVE  Recorded \subseteq Recorded'
    BY <1>2 DEF Insert, Recorded
  <1>3. ASSUME NEW t \in Tasks, CommitWrite(t)
        PROVE  Recorded \subseteq Recorded'
    BY <1>3 DEF CommitWrite, TxnInv, Recorded, histVars
  <1>4. ASSUME MaintCommit
        PROVE  Recorded \subseteq Recorded'
    BY <1>4 DEF MaintCommit, Recorded
  <1> QED
    BY <1>1, <1>2, <1>3, <1>4
       DEF Next, PublisherStep, TaskStep, Publish, PublishMany, AppendChunk,
           StartInsert, StartBulk, InsertFails, AfterInsert, Cancel, TimerFires,
           TakeBatch, NothingToFlush, BeginWrite, WriteFails, AfterWrite,
           MaintBegin, MaintFails, MaintDelete, Subscribe, Unsubscribe, Close,
           Crash, Quiet, vars, dbVars, histVars

\* The subscribers' part of RecInv after a fan-out of recorded events.
LEMMA FanOutRec ==
    ASSUME SubType, RecInv, NEW q \in Seq(Events), FanOut(q),
           Elems(q) \subseteq Recorded, UNCHANGED <<durable, gone, risk>>
    PROVE  /\ fanned' \subseteq Recorded'
           /\ \A s \in Subs : Seen(s)' \subseteq fanned'
  <1>1. Recorded' = Recorded
    BY DEF Recorded
  <1>2. fanned' = fanned \cup Elems(q)
    BY DEF FanOut
  <1>3. ASSUME NEW s \in Subs PROVE Seen(s)' \subseteq fanned'
    <2>1. inbox'[s] = IF s \in active THEN inbox[s] \o q ELSE inbox[s]
      BY DEF FanOut
    <2>2. Elems(inbox[s] \o q) = Elems(inbox[s]) \cup Elems(q)
      BY ElemsConcat DEF SubType
    <2>3. Seen(s)' = Elems(inbox'[s])
      BY DEF Seen, Elems
    <2> QED BY <1>2, <2>1, <2>2, <2>3 DEF RecInv, Seen
  <1> QED BY <1>1, <1>2, <1>3 DEF RecInv

\* Steps that hand nothing out: RecInv survives if no task comes to hold more
\* than it did, and what it says of a written batch is kept.
LEMMA RecStable ==
    ASSUME TypeInv, RecInv, Recorded \subseteq Recorded',
           UNCHANGED <<inbox, fanned>>,
           \A p \in Publishers : ev'[p] \in {ev[p], None},
           \A p \in Publishers :
              pc'[p] \in {"inserted", "flush", "begin", "commit", "written"} =>
                 \/ pc[p] \in {"inserted", "flush", "begin", "commit", "written"}
                 \/ ev'[p] = None
                 \/ ev'[p] \in Recorded',
           \A t \in Tasks : pc'[t] = "written" =>
                 Elems(batch'[t]) \subseteq Recorded',
           \A t \in Tasks : pc'[t] \in {"commit", "orphanCommit"} /\ up' =>
                 Elems(batch'[t]) \subseteq stored'
    PROVE  RecInv'
  <1>1. \A s \in Subs : Seen(s)' = Seen(s)
    BY DEF Seen, Elems
  <1> QED BY <1>1 DEF RecInv

\* The fan-out steps: what they hand out is recorded.
LEMMA RecContinue ==
    ASSUME TypeInv, RecInv, NEW t \in Tasks, NEW rest \in SUBSET Kinds,
           NEW q \in Seq(Events), Continue(t, rest, q), Elems(q) \subseteq Recorded,
           pc[t] \in {"inserted", "flush", "written"},
           UNCHANGED <<dbVars, gone, risk>>
    PROVE  RecInv'
  <1>0. CoType /\ SubType
    BY DEF TypeInv, TypeOK, CoType, SubType
  <1>1. Recorded' = Recorded /\ UNCHANGED <<durable, gone, risk, up, stored>>
    BY DEF Recorded, dbVars
  <1>2. /\ fanned' \subseteq Recorded'
        /\ \A s \in Subs : Seen(s)' \subseteq fanned'
    <2>1. CASE FanOut(q)
      BY <1>0, <1>1, <2>1, FanOutRec
    <2>2. CASE /\ t \in Publishers /\ ev[t] # None
               /\ FanOut(Append(q, ev[t]))
      <3>1. ev[t] \in Events /\ ev[t] \in Recorded
        BY <1>0, <2>2 DEF CoType, RecInv
      <3>2. /\ Append(q, ev[t]) \in Seq(Events)
            /\ Elems(Append(q, ev[t])) \subseteq Recorded
        BY <3>1, ElemsAppend
      <3> QED BY <1>0, <1>1, <2>2, <3>2, FanOutRec
    <2> QED BY <2>1, <2>2 DEF Continue
  <1>3. CASE Finish(t)
    <2>1. /\ \A p \in Publishers : pc'[p] # "idle" => pc'[p] = pc[p] /\ ev'[p] = ev[p]
          /\ \A u \in Tasks : pc'[u] # "idle" => pc'[u] = pc[u] /\ batch'[u] = batch[u]
      BY <1>0, <1>3 DEF Finish, CoType, Tasks
    <2> QED BY <1>1, <1>2, <2>1 DEF RecInv
  <1>4. CASE /\ t \in Publishers /\ pc' = [pc EXCEPT ![t] = "flush"]
             /\ batch' = [batch EXCEPT ![t] = <<>>]
             /\ UNCHANGED ev
    <2>1. /\ \A p \in Publishers : p # t => pc'[p] = pc[p]
          /\ \A u \in Tasks : u # t => pc'[u] = pc[u] /\ batch'[u] = batch[u]
          /\ pc'[t] = "flush" /\ ev' = ev
      BY <1>0, <1>4 DEF CoType, Tasks
    <2> QED BY <1>1, <1>2, <2>1 DEF RecInv
  <1> QED BY <1>3, <1>4, ContinueCases

\* Every step keeps RecInv: what is fanned out was recorded before.
LEMMA RecStep == DurInv /\ [Next]_vars => RecInv'
  <1> SUFFICES ASSUME DurInv, [Next]_vars PROVE RecInv'
    OBVIOUS
  <1>0. /\ TypeInv /\ TypeOK /\ PcData /\ EvInv /\ LockOwned /\ TxnInv /\ RecInv
        /\ CoType /\ Recorded \subseteq Recorded'
    BY RecordedGrows DEF DurInv, TypeInv, TypeOK, CoType
  <1>1. \A p \in Publishers : p \in Tasks
    BY DEF Tasks
  <1>2. None \notin Tasks /\ Maint \notin Tasks /\ Maint # None
    BY ConstantsAssumption
  <1>3. ASSUME NEW p \in Publishers,
               \/ \E e \in Events : Publish(p, e)
               \/ \E q \in BulkLists : PublishMany(p, q)
        PROVE  RecInv'
    <2>1. \E x \in Waiting \ {"flush"} : pc' = [pc EXCEPT ![p] = x]
      BY <1>3 DEF Publish, PublishMany, Waiting
    <2>2. /\ UNCHANGED <<up, stored, inbox, fanned>>
          /\ \A r \in Publishers : r # p => ev'[r] = ev[r]
          /\ \A t \in Tasks : t # p => batch'[t] = batch[t]
      BY <1>0, <1>3 DEF Publish, PublishMany, dbVars, subVars, CoType
    <2>3. /\ \A t \in Tasks : t # p => pc'[t] = pc[t]
          /\ pc'[p] \in Waiting \ {"flush"}
      BY <1>0, <1>1, <2>1 DEF CoType
    <2>4. \A s \in Subs : Seen(s)' = Seen(s)
      BY <2>2 DEF Seen, Elems
    <2> QED BY <1>0, <1>1, <2>2, <2>3, <2>4 DEF RecInv, Waiting
  <1>4. ASSUME NEW p \in Publishers, AppendChunk(p)
        PROVE  RecInv'
    <2>1. /\ ev[p] \in Tasks /\ ev[p] # p /\ p \in Tasks /\ ev[p] \notin Publishers
          /\ pc[ev[p]] = "idle" /\ pc[p] = "chunk"
      BY <1>0, <1>1, <1>4, ConstantsAssumption
         DEF AppendChunk, PcData, EvInv, Tasks, Chunks
    <2>2. \E x \in {"idle", "asleep"} :
             pc' = [pc EXCEPT ![p] = "idle", ![ev[p]] = x]
      BY <1>0, <1>4, <2>1 DEF AppendChunk, CoType
    <2>3. /\ UNCHANGED <<up, stored, inbox, fanned, batch>>
          /\ ev' = [ev EXCEPT ![p] = None]
      BY <1>4 DEF AppendChunk, dbVars, subVars
    <2>4. /\ \A t \in Tasks : pc'[t] \in {pc[t], "idle", "asleep"}
          /\ \A r \in Publishers : ev'[r] \in {ev[r], None}
      BY <1>0, <2>1, <2>2, <2>3 DEF CoType
    <2> QED BY <1>0, <1>1, <2>3, <2>4, RecStable DEF RecInv
  <1>5. ASSUME NEW p \in Publishers, StartInsert(p) \/ StartBulk(p)
        PROVE  RecInv'
    <2>1. /\ \/ pc' = [pc EXCEPT ![p] = "insert"]
             \/ pc' = [pc EXCEPT ![p] = "begin"] /\ ev[p] = None
          /\ UNCHANGED <<up, stored, inbox, fanned, batch, ev>>
      BY <1>0, <1>5 DEF StartInsert, StartBulk, EvInv, dbVars, subVars
    <2>2. \A t \in Tasks : pc'[t] = pc[t] \/ (t = p /\ pc'[t] \in {"insert", "begin"})
      BY <1>0, <1>1, <2>1 DEF CoType
    <2>3. pc'[p] = "begin" => ev'[p] = None
      BY <1>0, <1>1, <2>1 DEF CoType
    <2> QED BY <1>0, <1>1, <2>1, <2>2, <2>3, RecStable DEF RecInv
  <1>6. ASSUME NEW p \in Publishers, Insert(p)
        PROVE  RecInv'
    <2>1. /\ stored \subseteq stored' /\ up' = up /\ UNCHANGED <<inbox, fanned>>
          /\ ev[p] \in Recorded'
      BY <1>6 DEF Insert, Recorded, subVars
    <2>2. CASE pc' = [pc EXCEPT ![p] = "inserted"] /\ UNCHANGED <<ev, batch>>
      <3>1. \A t \in Tasks : t # p => pc'[t] = pc[t]
        BY <1>0, <2>2 DEF CoType
      <3>2. pc'[p] = "inserted"
        BY <1>0, <1>1, <2>2 DEF CoType
      <3> QED BY <1>0, <1>1, <2>1, <2>2, <3>1, <3>2, RecStable DEF RecInv
    <2>3. CASE Finish(p)
      <3>1. /\ \A t \in Tasks : pc'[t] # "idle" => pc'[t] = pc[t] /\ batch'[t] = batch[t]
            /\ \A r \in Publishers : ev'[r] \in {ev[r], None}
        BY <1>0, <1>1, <2>3 DEF Finish, CoType
      <3> QED BY <1>0, <1>1, <2>1, <3>1, RecStable DEF RecInv
    <2> QED BY <1>6, <2>2, <2>3 DEF Insert
  <1>7. ASSUME NEW p \in Publishers, InsertFails(p)
        PROVE  RecInv'
    <2>1. UNCHANGED <<up, stored, inbox, fanned>> /\ Finish(p)
      BY <1>7 DEF InsertFails, dbVars, subVars
    <2>2. /\ \A t \in Tasks : pc'[t] # "idle" => pc'[t] = pc[t] /\ batch'[t] = batch[t]
          /\ \A r \in Publishers : ev'[r] \in {ev[r], None}
      BY <1>0, <1>1, <2>1 DEF Finish, CoType
    <2> QED BY <1>0, <1>1, <2>1, <2>2, RecStable DEF RecInv
  <1>8. ASSUME NEW p \in Publishers, AfterInsert(p)
        PROVE  RecInv'
    <2>1. <<>> \in Seq(Events) /\ Elems(<<>>) \subseteq Recorded /\ pending \in SUBSET Kinds
      BY <1>0, ElemsEmpty DEF TypeOK
    <2> QED BY <1>0, <1>1, <1>8, <2>1, RecContinue DEF AfterInsert, histVars
  <1>9. ASSUME NEW t \in Tasks, TimerFires(t) \/ TakeBatch(t)
        PROVE  RecInv'
    <2>1. /\ UNCHANGED <<up, stored, inbox, fanned, ev>>
          /\ \A u \in Tasks : u # t => pc'[u] = pc[u] /\ batch'[u] = batch[u]
      BY <1>0, <1>9 DEF TimerFires, TakeBatch, dbVars, subVars, CoType
    <2>2. \/ pc'[t] = "flush" /\ t \notin Publishers
          \/ pc'[t] = "begin" /\ pc[t] = "flush"
      BY <1>0, <1>9, ConstantsAssumption DEF TimerFires, TakeBatch, CoType, Chunks
    <2> QED BY <1>0, <1>1, <2>1, <2>2, RecStable DEF RecInv
  <1>10. ASSUME NEW t \in Tasks, NothingToFlush(t) \/ AfterWrite(t)
         PROVE  RecInv'
    <2> DEFINE rest == IF t \in Publishers THEN todo[t] ELSE {}
    <2>1. rest \in SUBSET Kinds /\ <<>> \in Seq(Events) /\ Elems(<<>>) \subseteq Recorded
      BY <1>0, ElemsEmpty DEF TypeOK
    <2>2. batch[t] \in Seq(Events)
      BY <1>0 DEF TypeOK
    <2>3. UNCHANGED <<dbVars, gone, risk>>
      BY <1>10 DEF NothingToFlush, AfterWrite, histVars
    <2>4. CASE NothingToFlush(t)
      <3>1. Continue(t, rest, <<>>) /\ pc[t] = "flush"
        BY <2>4 DEF NothingToFlush
      <3> HIDE DEF rest
      <3> QED BY <1>0, <2>1, <2>3, <3>1, RecContinue
    <2>5. CASE AfterWrite(t)
      <3>1. Continue(t, rest, batch[t]) /\ pc[t] = "written"
        BY <2>5 DEF AfterWrite
      <3>2. Elems(batch[t]) \subseteq Recorded
        BY <1>0, <3>1 DEF RecInv
      <3> HIDE DEF rest
      <3> QED BY <1>0, <2>1, <2>2, <2>3, <3>1, <3>2, RecContinue
    <2> QED BY <1>10, <2>4, <2>5
  <1>11. ASSUME NEW t \in Tasks, BeginWrite(t)
         PROVE  RecInv'
    <2>1. /\ UNCHANGED <<up, inbox, fanned, ev, batch>>
          /\ stored' = stored \cup Elems(batch[t])
          /\ \A u \in Tasks : u # t => pc'[u] = pc[u]
          /\ \/ pc[t] = "begin" /\ pc'[t] = "commit"
             \/ pc[t] = "orphanBegin" /\ pc'[t] = "orphanCommit"
      BY <1>0, <1>11 DEF BeginWrite, subVars, CoType
    <2> QED BY <1>0, <1>1, <2>1, RecStable DEF RecInv
  <1>12. ASSUME NEW t \in Tasks, CommitWrite(t)
         PROVE  RecInv'
    <2>1. /\ UNCHANGED <<up, stored, inbox, fanned>> /\ durable' = stored /\ up
          /\ Elems(batch[t]) \subseteq Recorded'
      BY <1>0, <1>12 DEF CommitWrite, subVars, RecInv, Recorded
    <2>2. CASE /\ pc[t] = "commit" /\ pc' = [pc EXCEPT ![t] = "written"]
               /\ UNCHANGED <<ev, batch>>
      <3>1. \A u \in Tasks : u # t => pc'[u] = pc[u]
        BY <1>0, <2>2 DEF CoType
      <3>2. \A u \in Tasks : pc'[u] = "written" => Elems(batch'[u]) \subseteq Recorded'
        BY <1>0, <2>1, <2>2, <3>1 DEF RecInv
      <3> QED BY <1>0, <1>1, <2>1, <2>2, <3>1, <3>2, RecStable DEF RecInv
    <2>3. CASE Finish(t)
      <3>1. /\ \A u \in Tasks : pc'[u] # "idle" => pc'[u] = pc[u] /\ batch'[u] = batch[u]
            /\ \A r \in Publishers : ev'[r] \in {ev[r], None}
        BY <1>0, <1>1, <2>3 DEF Finish, CoType
      <3> QED BY <1>0, <1>1, <2>1, <3>1, RecStable DEF RecInv
    <2> QED BY <1>12, <2>2, <2>3 DEF CommitWrite
  <1>13. ASSUME NEW t \in Tasks, WriteFails(t)
         PROVE  RecInv'
    <2>1. /\ UNCHANGED <<up, inbox, fanned>> /\ Finish(t)
          /\ \/ stored' = stored
             \/ pc[t] \in {"commit", "orphanCommit"} /\ up
      BY <1>13 DEF WriteFails, subVars
    <2>2. /\ \A u \in Tasks : pc'[u] # "idle" =>
                u # t /\ pc'[u] = pc[u] /\ batch'[u] = batch[u]
          /\ \A r \in Publishers : ev'[r] \in {ev[r], None}
      BY <1>0, <1>1, <2>1 DEF Finish, CoType
    <2>3. \A u \in Tasks : pc'[u] \in {"commit", "orphanCommit"} /\ up' =>
             Elems(batch'[u]) \subseteq stored'
      <3>1. CASE stored' = stored
        BY <1>0, <2>1, <2>2, <3>1 DEF RecInv
      <3>2. CASE pc[t] \in {"commit", "orphanCommit"} /\ up
        BY <1>0, <2>1, <2>2, <3>2 DEF TxnInv
      <3> QED BY <2>1, <3>1, <3>2
    <2> QED BY <1>0, <1>1, <2>1, <2>2, <2>3, RecStable DEF RecInv
  <1>14. ASSUME NEW p \in Publishers, Cancel(p)
         PROVE  RecInv'
    <2>1. UNCHANGED <<up, stored, inbox, fanned>> /\ p \in Tasks
      BY <1>1, <1>14 DEF Cancel, dbVars, subVars
    <2>2. CASE Finish(p)
      <3>1. /\ \A t \in Tasks : pc'[t] # "idle" => pc'[t] = pc[t] /\ batch'[t] = batch[t]
            /\ \A r \in Publishers : ev'[r] \in {ev[r], None}
        BY <1>0, <1>1, <2>2 DEF Finish, CoType
      <3> QED BY <1>0, <1>1, <2>1, <3>1, RecStable DEF RecInv
    <2>3. CASE /\ pc[p] \in {"insert", "begin", "commit"}
               /\ pc' = [pc EXCEPT ![p] = CASE @ = "insert" -> "orphanInsert"
                                            [] @ = "begin"  -> "orphanBegin"
                                            [] @ = "commit" -> "orphanCommit"]
               /\ UNCHANGED <<ev, batch>>
      <3>1. /\ \A t \in Tasks : t # p => pc'[t] = pc[t]
            /\ pc'[p] \in Orphan /\ (pc'[p] = "orphanCommit" => pc[p] = "commit")
        BY <1>0, <2>1, <2>3 DEF CoType, Orphan
      <3> QED BY <1>0, <1>1, <2>1, <2>3, <3>1, RecStable DEF RecInv, Orphan
    <2> QED BY <1>14, <2>2, <2>3 DEF Cancel
  <1>15. ASSUME \/ MaintBegin \/ MaintCommit \/ MaintFails
                \/ \E D \in SUBSET stored : MaintDelete(D)
         PROVE  RecInv'
    <2>1. UNCHANGED <<pc, ev, batch, up, inbox, fanned>>
      BY <1>15 DEF MaintBegin, MaintCommit, MaintFails, MaintDelete, coVars, subVars
    <2>2. stored' = stored \/ \A t \in Tasks : pc[t] \in {"commit", "orphanCommit"} => ~up
      BY <1>0, <1>2, <1>15
         DEF MaintBegin, MaintCommit, MaintFails, MaintDelete, TxnInv
    <2> QED BY <1>0, <1>1, <2>1, <2>2, RecStable DEF RecInv
  <1>16. ASSUME (\E s \in Subs : Subscribe(s) \/ Unsubscribe(s)) \/ UNCHANGED vars
         PROVE  RecInv'
    <2>1. UNCHANGED <<pc, ev, batch, up, stored, inbox, fanned>>
      BY <1>16 DEF Subscribe, Unsubscribe, coVars, dbVars, vars
    <2> QED BY <1>0, <1>1, <2>1, RecStable DEF RecInv
  <1>17. ASSUME Close
         PROVE  RecInv'
    <2>1. /\ UNCHANGED <<ev, inbox, fanned>> /\ ~up'
          /\ \A t \in Tasks : pc'[t] # "idle" => pc'[t] = pc[t] /\ batch'[t] = batch[t]
      BY <1>0, <1>17 DEF Close, subVars
    <2> QED BY <1>0, <1>1, <2>1, RecStable DEF RecInv
  <1>18. ASSUME Crash
         PROVE  RecInv'
    <2>1. /\ UNCHANGED <<inbox, fanned>> /\ \A t \in Tasks : pc'[t] = "idle"
          /\ \A p \in Publishers : ev'[p] = None
      BY <1>18 DEF Crash
    <2> QED BY <1>0, <1>1, <2>1, RecStable DEF RecInv
  <1> QED
    BY <1>3, <1>4, <1>5, <1>6, <1>7, <1>8, <1>9, <1>10, <1>11, <1>12,
       <1>13, <1>14, <1>15, <1>16, <1>17, <1>18
       DEF Next, PublisherStep, TaskStep, Quiet, Tasks

-----------------------------------------------------------------------------
\* Initially nobody holds anything.
LEMMA DurInit == Init => DurInv
  <1> SUFFICES ASSUME Init PROVE DurInv
    OBVIOUS
  <1>1. TypeInv
    BY TypeInit
  <1>2. EvInv /\ LockOwned
    BY ConstantsAssumption DEF Init, EvInv, LockOwned, Holding, Tasks
  <1>3. TxnInv
    BY ConstantsAssumption DEF Init, TxnInv
  <1>4. \A s \in Subs : Seen(s) = {}
    BY ElemsEmpty DEF Init, Seen
  <1>5. RecInv
    BY <1>4 DEF Init, RecInv, Tasks
  <1> QED BY <1>1, <1>2, <1>3, <1>5 DEF DurInv

\* The conjuncts together are inductive.
LEMMA DurStep == DurInv /\ [Next]_vars => DurInv'
  BY TypeStep, EvStep, LockStep, TxnStep, RecStep DEF DurInv

\* The invariant the other theorems use.
THEOREM Durability == Spec => []DurInv
  BY DurInit, DurStep, PTL DEF Spec

\* Whatever publishers, timers, maintenance, cancellation, close and crashes do,
\* an event a handler was given is recorded: committed, or deleted by a
\* committed maintenance, or inserted inside a foreign transaction.
THEOREM SeenDurable == Spec => []SeenIsDurable
  <1>1. DurInv => SeenIsDurable
    BY DEF DurInv, RecInv, SeenIsDurable, Recorded
  <1> QED BY <1>1, Durability, PTL

\* The write lock is held by the one coroutine that is writing under it, and by
\* nobody else, cancelled writers included.
THEOREM LockDiscipline == Spec => []LockOwned
  <1>1. DurInv => LockOwned
    BY DEF DurInv
  <1> QED BY <1>1, Durability, PTL
=============================================================================
