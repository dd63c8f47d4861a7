---------------------------- MODULE EventBusOrder ----------------------------
(***************************************************************************)
(* What one publisher sends through publish reaches every handler in the   *)
(* order it was sent, for all constants: of two events on their way, the   *)
(* later said is nowhere ahead of the earlier.  The invariant of the whole *)
(* bus, and the theorems that rest on it, close the module.                *)
(***************************************************************************)
EXTENDS EventBusOnce

-----------------------------------------------------------------------------
(* What each publisher said, and in which order *)

\* An event is said once, and the one in a publisher's hand is its last.
SaidInv ==
    /\ \A p \in Publishers : Distinct(said[p])
    /\ \A p, q \in Publishers : p # q => Elems(said[p]) \cap Elems(said[q]) = {}
    /\ \A p \in Publishers : ev[p] # None =>
          said[p] # <<>> /\ ev[p] = said[p][Len(said[p])]

\* Only publish and publish_many say anything, and nobody else takes an event.
LEMMA SaidElse ==
    ASSUME TypeInv, [Next]_vars,
           ~\E p \in Publishers : \/ \E e \in Events : Publish(p, e)
                                  \/ \E q \in BulkLists : PublishMany(p, q)
    PROVE  said' = said /\ \A p \in Publishers : ev'[p] \in {ev[p], None}
  <1>0. ev \in [Publishers -> Events \cup {None}]
    BY DEF TypeInv, TypeOK
  <1>1. ASSUME NEW t \in Tasks, Finish(t) \/ UNCHANGED ev
        PROVE  \A p \in Publishers : ev'[p] \in {ev[p], None}
    BY <1>0, <1>1 DEF Finish
  <1>2. ASSUME NEW t \in Tasks,
               \/ AfterInsert(t) \/ NothingToFlush(t) \/ AfterWrite(t)
               \/ t \in Publishers /\ (\/ StartInsert(t) \/ StartBulk(t) \/ Insert(t)
                                       \/ InsertFails(t) \/ Cancel(t))
               \/ TimerFires(t) \/ TakeBatch(t) \/ BeginWrite(t) \/ CommitWrite(t)
               \/ WriteFails(t)
        PROVE  said' = said /\ \A p \in Publishers : ev'[p] \in {ev[p], None}
    <2>1. said' = said
      BY <1>2 DEF AfterInsert, NothingToFlush, AfterWrite, StartInsert, StartBulk,
                  Insert, InsertFails, Cancel, TimerFires, TakeBatch, BeginWrite,
                  CommitWrite, WriteFails, histVars
    <2>2. Finish(t) \/ UNCHANGED ev
      <3>1. CASE AfterInsert(t) \/ NothingToFlush(t) \/ AfterWrite(t)
        BY <3>1, ContinueCases DEF AfterInsert, NothingToFlush, AfterWrite
      <3> QED BY <1>2, <3>1 DEF StartInsert, StartBulk, Insert, InsertFails, Cancel,
                  TimerFires, TakeBatch, BeginWrite, CommitWrite, WriteFails
    <2> QED BY <1>1, <2>1, <2>2
  <1>3. ASSUME \/ \E p \in Publishers : AppendChunk(p)
               \/ MaintBegin \/ MaintCommit \/ MaintFails
               \/ \E D \in SUBSET stored : MaintDelete(D)
               \/ \E s \in Subs : Subscribe(s) \/ Unsubscribe(s)
               \/ UNCHANGED vars \/ Close \/ Crash
        PROVE  said' = said /\ \A p \in Publishers : ev'[p] \in {ev[p], None}
    BY <1>0, <1>3 DEF AppendChunk, MaintBegin, MaintCommit, MaintFails, MaintDelete,
       Subscribe, Unsubscribe, Close, Crash, coVars, histVars, vars
  <1>4. \A p \in Publishers : p \in Tasks
    BY DEF Tasks
  <1> QED BY <1>2, <1>3, <1>4 DEF Next, PublisherStep, TaskStep, Quiet

\* Every step keeps SaidInv: an event is published at most once.
LEMMA SaidStep == TypeInv /\ EvInv /\ SaidInv /\ [Next]_vars => SaidInv'
  <1> SUFFICES ASSUME TypeInv, EvInv, SaidInv, [Next]_vars PROVE SaidInv'
    OBVIOUS
  <1>0. /\ said \in [Publishers -> Seq(Events)] /\ TypeOK
        /\ \A p \in Publishers : Elems(said[p]) \subseteq Published
    BY DEF TypeInv, TypeOK, Published
  <1>1. ASSUME NEW p \in Publishers, NEW q \in Seq(Events), Distinct(q),
               Elems(q) \cap Published = {}, said' = [said EXCEPT ![p] = @ \o q],
               \A r \in Publishers : r # p => ev'[r] = ev[r],
               ev'[p] # None =>
                  said'[p] # <<>> /\ ev'[p] = said'[p][Len(said'[p])]
        PROVE  SaidInv'
    <2>1. /\ Distinct(said[p] \o q)
          /\ Elems(said[p] \o q) = Elems(said[p]) \cup Elems(q)
      BY <1>0, <1>1, DistinctConcat, ElemsConcat DEF SaidInv
    <2>2. \A r \in Publishers : said'[r] = IF r = p THEN said[p] \o q ELSE said[r]
      BY <1>0, <1>1
    <2>3. \A r \in Publishers : /\ Elems(said'[r]) = Elems(said[r])'
                                /\ Distinct(said'[r]) = Distinct(said[r])'
      BY DEF Elems, Distinct
    <2>4. \A r \in Publishers : Distinct(said'[r])
      BY <2>1, <2>2 DEF SaidInv
    <2>5. \A r, s \in Publishers : r # s => Elems(said'[r]) \cap Elems(said'[s]) = {}
      BY <1>0, <1>1, <2>1, <2>2 DEF SaidInv
    <2>6. \A r \in Publishers : ev'[r] # None =>
             said'[r] # <<>> /\ ev'[r] = said'[r][Len(said'[r])]
      BY <1>1, <2>2 DEF SaidInv
    <2> QED BY <2>3, <2>4, <2>5, <2>6 DEF SaidInv
  <1>2. ASSUME NEW p \in Publishers, NEW e \in Events, Publish(p, e)
        PROVE  SaidInv'
    <2>1. /\ Append(said[p], e) = said[p] \o <<e>>
          /\ Append(said[p], e) # <<>>
          /\ Append(said[p], e)[Len(Append(said[p], e))] = e
      BY <1>0, AppendIsConcat, AppendProperties
    <2>2. <<e>> \in Seq(Events) /\ Distinct(<<e>>) /\ Elems(<<e>>) = {e}
      BY DEF Distinct, Elems
    <2>3. /\ said' = [said EXCEPT ![p] = @ \o <<e>>] /\ e \notin Published
          /\ said'[p] = Append(said[p], e) /\ ev'[p] = e
          /\ \A r \in Publishers : r # p => ev'[r] = ev[r]
      BY <1>0, <1>2, <2>1 DEF Publish, TypeOK
    <2> QED BY <1>1, <2>1, <2>2, <2>3
  <1>3. ASSUME NEW p \in Publishers, NEW q \in BulkLists, PublishMany(p, q)
        PROVE  SaidInv'
    <2>1. q \in Seq(Events) /\ Distinct(q) /\ Elems(q) \cap Published = {}
      BY DEF BulkLists, Distinct, Elems
    <2>2. said' = [said EXCEPT ![p] = @ \o q] /\ ev' = ev /\ ev[p] = None
      BY <1>3 DEF PublishMany, EvInv
    <2> QED BY <1>1, <2>1, <2>2
  <1>4. CASE ~\E p \in Publishers : \/ \E e \in Events : Publish(p, e)
                                    \/ \E q \in BulkLists : PublishMany(p, q)
    <2>1. said' = said /\ \A p \in Publishers : ev'[p] \in {ev[p], None}
      BY <1>4, SaidElse
    <2>2. \A p \in Publishers : /\ Elems(said[p])' = Elems(said[p])
                                /\ Distinct(said[p])' = Distinct(said[p])
      BY <2>1 DEF Elems, Distinct
    <2> QED BY <2>1, <2>2 DEF SaidInv
  <1> QED BY <1>2, <1>3, <1>4

-----------------------------------------------------------------------------
(* The pipeline keeps the order *)

\* The pairs of ordered events, the first said before the second.
Earlier == {x \in Events \X Events :
               /\ Ordered(x[1], x[2])
               /\ \E p \in Publishers : Before(said[p], x[1], x[2])}

\* A sequence that turns no pair of R round.
InOrder(q, R) == \A i, j \in DOMAIN q : i < j => <<q[j], q[i]>> \notin R

\* The events of the task that is writing under the lock.
Writing == UNION {Elems(batch[t]) : t \in {u \in Tasks : pc[u] \in Holding}}

\* Fanned out comes before being written comes before being buffered, and each
\* of them is in order inside; a publisher that has not fanned out its own event
\* still has to drain whatever it said before.
OrderInv ==
    /\ \A s \in Subs : InOrder(inbox[s], Earlier)
    /\ \A t \in Tasks : InOrder(batch[t], Earlier)
    /\ \A k \in Kinds : InOrder(buffer[k], Earlier)
    /\ \A a \in fanned, b \in Writing \cup Buffered : <<b, a>> \notin Earlier
    /\ \A a \in Writing, b \in Buffered : <<b, a>> \notin Earlier
    /\ \A p \in Publishers, b \in Writing \cup Buffered :
          <<b, ev[p]>> \in Earlier =>
             /\ pc[p] = "flush" => KindOf[b] \in todo[p] \cup {kind[p]}
             /\ pc[p] \in {"begin", "commit", "written"} =>
                   KindOf[b] \in todo[p] \/ b \in Elems(batch[p])

\* The empty sequence is in any order.
LEMMA InOrderEmpty == \A R : InOrder(<<>>, R)
  BY DEF InOrder

\* A smaller relation is kept by more sequences.
LEMMA InOrderSmaller ==
    ASSUME NEW R, NEW T, NEW q,
           \A i, j \in DOMAIN q : <<q[j], q[i]>> \in T => <<q[j], q[i]>> \in R,
           InOrder(q, R)
    PROVE  InOrder(q, T)
  BY DEF InOrder

\* Two sequences in order, and nothing of the second before one of the first.
LEMMA InOrderConcat ==
    ASSUME NEW S, NEW q \in Seq(S), NEW r \in Seq(S), NEW R, InOrder(q, R), InOrder(r, R),
           \A a \in Elems(q), b \in Elems(r) : <<b, a>> \notin R
    PROVE  InOrder(q \o r, R)
  <1>1. /\ q \o r \in Seq(S)
        /\ Len(q \o r) = Len(q) + Len(r)
        /\ \A i \in 1 .. Len(q) + Len(r) :
              (q \o r)[i] = IF i <= Len(q) THEN q[i] ELSE r[i - Len(q)]
    BY ConcatProperties
  <1>2. SUFFICES ASSUME NEW i \in 1 .. Len(q) + Len(r), NEW j \in 1 .. Len(q) + Len(r), i < j
                 PROVE  <<(q \o r)[j], (q \o r)[i]>> \notin R
    BY <1>1 DEF InOrder
  <1>3. CASE j <= Len(q)
    <2>1. /\ (q \o r)[i] = q[i] /\ i \in DOMAIN q
          /\ (q \o r)[j] = q[j] /\ j \in DOMAIN q
      BY <1>1, <1>2, <1>3
    <2> QED BY <1>2, <2>1 DEF InOrder
  <1>4. CASE i <= Len(q) /\ ~(j <= Len(q))
    <2>1. /\ (q \o r)[i] = q[i] /\ i \in DOMAIN q
          /\ (q \o r)[j] = r[j - Len(q)] /\ j - Len(q) \in DOMAIN r
      BY <1>1, <1>4
    <2> QED BY <2>1 DEF Elems
  <1>5. CASE ~(i <= Len(q))
    <2>1. /\ i - Len(q) \in DOMAIN r /\ j - Len(q) \in DOMAIN r
          /\ i - Len(q) < j - Len(q)
          /\ (q \o r)[i] = r[i - Len(q)] /\ (q \o r)[j] = r[j - Len(q)]
      BY <1>1, <1>2, <1>5
    <2> QED BY <2>1 DEF InOrder
  <1> QED BY <1>3, <1>4, <1>5

\* Appending an event that nothing before it may follow.
LEMMA InOrderAppend ==
    ASSUME NEW S, NEW q \in Seq(S), NEW e \in S, NEW R, InOrder(q, R),
           \A a \in Elems(q) : <<e, a>> \notin R
    PROVE  InOrder(Append(q, e), R)
  <1>1. /\ Append(q, e) = q \o <<e>> /\ <<e>> \in Seq(S)
        /\ InOrder(<<e>>, R) /\ Elems(<<e>>) = {e}
    BY AppendIsConcat DEF InOrder, Elems
  <1> QED BY <1>1, InOrderConcat

\* Who said nothing new ordered nothing new.
LEMMA EarlierSame ==
    ASSUME said' = said
    PROVE  Earlier' = Earlier
  BY DEF Earlier, Before

\* publish orders its event after others, never before one.
LEMMA EarlierAdds ==
    ASSUME TypeOK, NEW p \in Publishers, NEW e \in Events,
           said' = [said EXCEPT ![p] = Append(@, e)]
    PROVE  \A a, b : <<a, b>> \in Earlier' => <<a, b>> \in Earlier \/ b = e
  <1>1. /\ said[p] \in Seq(Events) /\ Len(said[p]) \in Nat
        /\ Append(said[p], e) \in Seq(Events)
        /\ Len(Append(said[p], e)) = Len(said[p]) + 1
        /\ \A i \in 1 .. Len(said[p]) : Append(said[p], e)[i] = said[p][i]
        /\ Append(said[p], e)[Len(said[p]) + 1] = e
    BY AppendProperties DEF TypeOK
  <1>2. SUFFICES ASSUME NEW a, NEW b, <<a, b>> \in Earlier', b # e
                 PROVE  <<a, b>> \in Earlier
    OBVIOUS
  <1>3. a \in Events /\ b \in Events /\ Ordered(a, b)
    BY <1>2 DEF Earlier
  <1>4. PICK r \in Publishers : Before(said'[r], a, b)
    BY <1>2 DEF Earlier, Before
  <1>5. CASE r = p
    <2>1. said'[p] = Append(said[p], e)
      BY DEF TypeOK
    <2>2. Before(Append(said[p], e), a, b)
      BY <1>4, <1>5, <2>1
    <2>3. PICK i \in 1 .. Len(said[p]) + 1, j \in 1 .. Len(said[p]) + 1 :
             i < j /\ Append(said[p], e)[i] = a /\ Append(said[p], e)[j] = b
      BY <1>1, <2>2 DEF Before
    <2>4. j # Len(said[p]) + 1
      BY <1>1, <1>2, <2>3
    <2>5. /\ i \in 1 .. Len(said[p]) /\ j \in 1 .. Len(said[p])
          /\ said[p][i] = a /\ said[p][j] = b
      BY <1>1, <2>3, <2>4
    <2>6. Before(said[p], a, b)
      BY <1>1, <2>3, <2>5 DEF Before
    <2> QED BY <1>3, <2>6 DEF Earlier
  <1>6. CASE r # p
    <2>1. said'[r] = said[r]
      BY <1>6 DEF TypeOK
    <2> QED BY <1>3, <1>4, <2>1 DEF Earlier
  <1> QED BY <1>5, <1>6

\* publish_many has no order.
LEMMA EarlierBulk ==
    ASSUME TypeOK, NEW p \in Publishers, NEW q \in Seq(Events),
           \A e \in Elems(q) : KindOf[e] = Bulk, said' = [said EXCEPT ![p] = @ \o q]
    PROVE  \A a, b : <<a, b>> \in Earlier' => <<a, b>> \in Earlier
  <1>1. /\ said[p] \in Seq(Events) /\ Len(said[p]) \in Nat /\ Len(q) \in Nat
        /\ said[p] \o q \in Seq(Events)
        /\ Len(said[p] \o q) = Len(said[p]) + Len(q)
        /\ \A i \in 1 .. Len(said[p]) + Len(q) :
              (said[p] \o q)[i] = IF i <= Len(said[p]) THEN said[p][i] ELSE q[i - Len(said[p])]
    BY ConcatProperties DEF TypeOK
  <1>2. SUFFICES ASSUME NEW a, NEW b, <<a, b>> \in Earlier'
                 PROVE  <<a, b>> \in Earlier
    OBVIOUS
  <1>3. /\ a \in Events /\ b \in Events /\ Ordered(a, b)
        /\ KindOf[a] # Bulk /\ KindOf[b] # Bulk
    BY <1>2 DEF Earlier, Ordered
  <1>4. PICK r \in Publishers : Before(said'[r], a, b)
    BY <1>2 DEF Earlier, Before
  <1>5. CASE r = p
    <2>1. said'[p] = said[p] \o q
      BY DEF TypeOK
    <2>2. Before(said[p] \o q, a, b)
      BY <1>4, <1>5, <2>1
    <2>3. PICK i \in 1 .. Len(said[p]) + Len(q), j \in 1 .. Len(said[p]) + Len(q) :
             i < j /\ (said[p] \o q)[i] = a /\ (said[p] \o q)[j] = b
      BY <1>1, <2>2 DEF Before
    <2>4. ASSUME ~(j <= Len(said[p]))
          PROVE  FALSE
      <3>1. j - Len(said[p]) \in DOMAIN q /\ b = q[j - Len(said[p])]
        BY <1>1, <2>3, <2>4
      <3> QED BY <1>3, <3>1 DEF Elems
    <2>5. /\ i \in 1 .. Len(said[p]) /\ j \in 1 .. Len(said[p])
          /\ said[p][i] = a /\ said[p][j] = b
      BY <1>1, <2>3, <2>4
    <2>6. Before(said[p], a, b)
      BY <1>1, <2>3, <2>5 DEF Before
    <2> QED BY <1>3, <2>6 DEF Earlier
  <1>6. CASE r # p
    <2>1. said'[r] = said[r]
      BY <1>6 DEF TypeOK
    <2> QED BY <1>3, <1>4, <2>1 DEF Earlier
  <1> QED BY <1>5, <1>6

\* The event in a publisher's hand is the last it said.
LEMMA LastNotEarlier ==
    ASSUME TypeOK, SaidInv, NEW p \in Publishers, ev[p] # None, NEW b
    PROVE  <<ev[p], b>> \notin Earlier
  <1>1. SUFFICES ASSUME NEW r \in Publishers, Before(said[r], ev[p], b)
                 PROVE  FALSE
    BY DEF Earlier
  <1>2. /\ said[p] \in Seq(Events) /\ said[p] # <<>>
        /\ ev[p] = said[p][Len(said[p])] /\ Len(said[p]) \in DOMAIN said[p]
    BY EmptySeq DEF SaidInv, TypeOK
  <1>3. PICK i, j \in DOMAIN said[r] : i < j /\ said[r][i] = ev[p]
    BY <1>1 DEF Before
  <1>4. r = p
    BY <1>2, <1>3 DEF SaidInv, Elems
  <1>5. i = Len(said[p])
    BY <1>2, <1>3, <1>4 DEF SaidInv, Distinct
  <1> QED BY <1>2, <1>3, <1>4, <1>5

\* Chunks of different kinds have separate timers and are not ordered.
LEMMA KindsApart ==
    ASSUME NEW a, NEW b, KindOf[a] \in Kinds, KindOf[b] \in Kinds, KindOf[a] # KindOf[b]
    PROVE  <<a, b>> \notin Earlier
  BY ConstantsAssumption DEF Earlier, Ordered

\* Imported events are not ordered at all.
LEMMA BulkApart ==
    ASSUME NEW a, NEW b, KindOf[a] = Bulk \/ KindOf[b] = Bulk
    PROVE  <<a, b>> \notin Earlier
  BY DEF Earlier, Ordered

\* Nothing is ordered before no event.
LEMMA NoneApart == \A b : <<b, None>> \notin Earlier
  BY ConstantsAssumption DEF Earlier

\* Steps that hand nothing out, put nothing in the buffer or in a batch, and
\* leave a draining publisher what it has to drain.
LEMMA OrderStable ==
    ASSUME CarryInv, OrderInv, UNCHANGED <<said, inbox, fanned>>,
           \A k \in Kinds : buffer'[k] \in {buffer[k], <<>>},
           \A t \in Tasks :
              \/ batch'[t] = <<>>
              \/ /\ batch'[t] = batch[t]
                 /\ pc'[t] \in Holding => pc[t] \in Holding \cup {"low", "bulk"},
           \A p \in Publishers :
              \/ ev'[p] = None
              \/ /\ ev'[p] = ev[p]
                 /\ pc'[p] = "flush" =>
                       pc[p] = "flush" /\ todo'[p] = todo[p] /\ kind'[p] = kind[p]
                 /\ pc'[p] \in {"begin", "commit", "written"} =>
                       /\ pc[p] \in {"begin", "commit", "written"}
                       /\ todo'[p] = todo[p] /\ batch'[p] = batch[p]
    PROVE  OrderInv'
  <1>1. Earlier' = Earlier
    BY EarlierSame
  <1>2. /\ \A s \in Subs : InOrder(inbox[s], Earlier)' = InOrder(inbox[s], Earlier)
        /\ \A t \in Tasks : /\ InOrder(batch[t], Earlier)' = InOrder(batch'[t], Earlier)
                            /\ Elems(batch[t])' = Elems(batch'[t])
        /\ \A k \in Kinds : /\ InOrder(buffer[k], Earlier)' = InOrder(buffer'[k], Earlier)
                            /\ Elems(buffer[k])' = Elems(buffer'[k])
    BY <1>1 DEF InOrder, Elems
  <1>3. /\ \A t \in Tasks : /\ InOrder(batch'[t], Earlier)
                            /\ Elems(batch'[t]) \subseteq Elems(batch[t])
        /\ \A k \in Kinds : /\ InOrder(buffer'[k], Earlier)
                            /\ Elems(buffer'[k]) \subseteq Elems(buffer[k])
    BY InOrderEmpty, ElemsEmpty DEF OrderInv
  <1>4. Buffered' \subseteq Buffered
    BY <1>2, <1>3 DEF Buffered
  <1>5. ASSUME NEW e \in Writing'
        PROVE  e \in Writing \/ KindOf[e] = Bulk
    <2>1. PICK t \in Tasks : pc'[t] \in Holding /\ e \in Elems(batch'[t])
      BY <1>2, <1>5 DEF Writing
    <2>2. batch'[t] = batch[t] /\ pc[t] \in Holding \cup {"low", "bulk"}
      BY <2>1, ElemsEmpty
    <2>3. pc[t] # "low"
      BY <2>1, <2>2, ElemsEmpty DEF CarryInv, HasBatch
    <2>4. CASE pc[t] \in Holding
      BY <2>1, <2>2, <2>4 DEF Writing
    <2>5. CASE pc[t] = "bulk"
      BY <2>1, <2>2, <2>5 DEF CarryInv
    <2> QED BY <2>2, <2>3, <2>4, <2>5
  <1>6. \A a \in fanned, b \in Writing' \cup Buffered' : <<b, a>> \notin Earlier
    BY <1>4, <1>5, BulkApart DEF OrderInv
  <1>7. \A a \in Writing', b \in Buffered' : <<b, a>> \notin Earlier
    BY <1>4, <1>5, BulkApart DEF OrderInv
  <1>8. ASSUME NEW p \in Publishers, NEW b \in Writing' \cup Buffered',
               <<b, ev'[p]>> \in Earlier
        PROVE  /\ pc'[p] = "flush" => KindOf[b] \in todo'[p] \cup {kind'[p]}
               /\ pc'[p] \in {"begin", "commit", "written"} =>
                     KindOf[b] \in todo'[p] \/ b \in Elems(batch'[p])
    <2>1. b \in Writing \cup Buffered
      BY <1>4, <1>5, <1>8, BulkApart
    <2>2. ev'[p] # None
      BY <1>8, NoneApart
    <2> QED BY <1>8, <2>1, <2>2 DEF OrderInv
  <1>9. \A p \in Publishers : p \in Tasks
    BY DEF Tasks
  <1>10. /\ \A s \in Subs : InOrder(inbox[s], Earlier)'
         /\ \A t \in Tasks : InOrder(batch[t], Earlier)'
         /\ \A k \in Kinds : InOrder(buffer[k], Earlier)'
    BY <1>2, <1>3 DEF OrderInv
  <1> QED BY <1>1, <1>2, <1>6, <1>7, <1>8, <1>9, <1>10 DEF OrderInv

\* A task that ends is one of them,
LEMMA OrderEnd ==
    ASSUME TypeOK, CarryInv, OrderInv, UNCHANGED <<said, inbox, fanned, buffer>>,
           NEW t \in Tasks, Finish(t)
    PROVE  OrderInv'
  <1>1. /\ \A u \in Tasks : u # t => pc'[u] = pc[u] /\ batch'[u] = batch[u]
        /\ batch'[t] = <<>>
        /\ \A p \in Publishers : p # t => /\ ev'[p] = ev[p] /\ todo'[p] = todo[p]
                                          /\ kind'[p] = kind[p]
        /\ t \in Publishers => ev'[t] = None
    BY DEF TypeOK, Finish
  <1>2. \A p \in Publishers : p \in Tasks
    BY DEF Tasks
  <1>3. \A u \in Tasks :
           \/ batch'[u] = <<>>
           \/ /\ batch'[u] = batch[u]
              /\ pc'[u] \in Holding => pc[u] \in Holding \cup {"low", "bulk"}
    BY <1>1
  <1>4. \A p \in Publishers :
           \/ ev'[p] = None
           \/ /\ ev'[p] = ev[p] /\ pc'[p] = pc[p] /\ batch'[p] = batch[p]
              /\ todo'[p] = todo[p] /\ kind'[p] = kind[p]
    BY <1>1, <1>2
  <1> QED BY <1>3, <1>4, OrderStable

\* and so is a task that moves on with what it has.
LEMMA OrderMove ==
    ASSUME TypeOK, CarryInv, OrderInv, UNCHANGED <<said, inbox, fanned, buffer>>,
           UNCHANGED <<ev, todo, kind, batch>>, NEW t \in Tasks, NEW x,
           pc' = [pc EXCEPT ![t] = x],
           x \in Holding => pc[t] \in Holding \cup {"low", "bulk"},
           t \in Publishers => x # "flush",
           x \in {"begin", "commit", "written"} =>
              \/ pc[t] \in {"begin", "commit", "written"}
              \/ t \in Publishers /\ ev[t] = None
    PROVE  OrderInv'
  <1>1. \A u \in Tasks : pc'[u] = IF u = t THEN x ELSE pc[u]
    BY DEF TypeOK
  <1>2. \A p \in Publishers : p \in Tasks
    BY DEF Tasks
  <1> QED BY <1>1, <1>2, OrderStable

\* While nobody holds the lock nobody writes.
LEMMA NoWriting ==
    ASSUME LockOwned, lock = None
    PROVE  Writing = {}
  BY ConstantsAssumption DEF LockOwned, Writing

\* publish: the new event comes after all others, and is nowhere yet.
LEMMA OrderPublish ==
    ASSUME OnceInv, OrderInv, NEW p \in Publishers, NEW e \in Events, Publish(p, e)
    PROVE  OrderInv'
  <1>0. /\ TypeOK /\ CoType /\ EvInv /\ PlaceInv /\ e \notin Published
        /\ \A s \in Subs : Elems(inbox[s]) \subseteq fanned
        /\ \A q \in Publishers : q \in Tasks
    BY DEF OnceInv, DurInv, TypeInv, TypeOK, CoType, RecInv, Seen, Publish, Tasks
  <1>1. \A a, b : <<a, b>> \in Earlier' => <<a, b>> \in Earlier \/ b = e
    BY <1>0, EarlierAdds DEF Publish
  <1>2. /\ UNCHANGED <<inbox, batch, buffer, fanned, todo, kind>>
        /\ \A t \in Tasks : t # p => pc'[t] = pc[t]
        /\ \A r \in Publishers : r # p => ev'[r] = ev[r]
        /\ pc'[p] \in {"chunk", "low"} /\ pc[p] = "idle"
    BY <1>0 DEF Publish, memVars, subVars, CoType
  <1>3. /\ Writing' = Writing /\ Buffered' = Buffered
        /\ \A t \in Tasks : Elems(batch[t])' = Elems(batch[t])
    <2>1. \A t \in Tasks : pc'[t] \in Holding <=> pc[t] \in Holding
      BY <1>2 DEF Holding
    <2> QED BY <1>2, <2>1 DEF Writing, Buffered, Elems
  <1>4. /\ \A s \in Subs : InOrder(inbox[s], Earlier)' = InOrder(inbox[s], Earlier')
        /\ \A t \in Tasks : InOrder(batch[t], Earlier)' = InOrder(batch[t], Earlier')
        /\ \A k \in Kinds : InOrder(buffer[k], Earlier)' = InOrder(buffer[k], Earlier')
    BY <1>2 DEF InOrder
  <1>5. ASSUME NEW q, Elems(q) \subseteq Published, InOrder(q, Earlier)
        PROVE  InOrder(q, Earlier')
    <2>1. \A i \in DOMAIN q : q[i] # e
      BY <1>0, <1>5 DEF Elems
    <2> QED BY <1>1, <1>5, <2>1, InOrderSmaller
  <1>6. /\ fanned \subseteq Published
        /\ \A s \in Subs : Elems(inbox[s]) \subseteq Published
        /\ \A t \in Tasks : Elems(batch[t]) \subseteq Published
        /\ \A k \in Kinds : Elems(buffer[k]) \subseteq Published
        /\ Writing \subseteq Published
    BY <1>0 DEF PlaceInv, Writing
  <1>7. /\ \A s \in Subs : InOrder(inbox[s], Earlier)'
        /\ \A t \in Tasks : InOrder(batch[t], Earlier)'
        /\ \A k \in Kinds : InOrder(buffer[k], Earlier)'
    BY <1>4, <1>5, <1>6 DEF OrderInv
  <1>8. /\ \A a \in fanned, b \in Writing \cup Buffered : <<b, a>> \notin Earlier'
        /\ \A a \in Writing, b \in Buffered : <<b, a>> \notin Earlier'
    BY <1>0, <1>1, <1>6 DEF OrderInv
  <1>9. ASSUME NEW r \in Publishers, r # p, NEW b, <<b, ev[r]>> \in Earlier'
        PROVE  <<b, ev[r]>> \in Earlier
    <2>1. ev[r] # e
      BY <1>0, ConstantsAssumption DEF EvInv
    <2> QED BY <1>1, <1>9, <2>1
  <1>10. \A r \in Publishers, b \in Writing \cup Buffered :
          <<b, ev'[r]>> \in Earlier' =>
             /\ pc'[r] = "flush" => KindOf[b] \in todo[r] \cup {kind[r]}
             /\ pc'[r] \in {"begin", "commit", "written"} =>
                   KindOf[b] \in todo[r] \/ b \in Elems(batch[r])
    BY <1>0, <1>2, <1>9 DEF OrderInv
  <1> QED BY <1>0, <1>2, <1>3, <1>7, <1>8, <1>10 DEF OrderInv

\* publish_many: no order among imported events.
LEMMA OrderPublishMany ==
    ASSUME OnceInv, OrderInv, NEW p \in Publishers, NEW q \in BulkLists, PublishMany(p, q)
    PROVE  OrderInv'
  <1>0. /\ TypeOK /\ CoType /\ EvInv /\ q \in Seq(Events)
        /\ \A r \in Publishers : r \in Tasks
        /\ \A e \in Elems(q) : KindOf[e] = Bulk
    <2>1. q \in Seq(Events)
      BY DEF BulkLists
    <2>2. \A e \in Elems(q) : KindOf[e] = Bulk
      BY DEF BulkLists, Elems
    <2> QED BY <2>1, <2>2 DEF OnceInv, DurInv, TypeInv, TypeOK, CoType, Tasks
  <1>1. \A a, b : <<a, b>> \in Earlier' => <<a, b>> \in Earlier
    BY <1>0, EarlierBulk DEF PublishMany
  <1>2. /\ UNCHANGED <<ev, inbox, buffer, fanned, todo, kind>>
        /\ \A t \in Tasks : t # p => pc'[t] = pc[t] /\ batch'[t] = batch[t]
        /\ pc'[p] = "bulk" /\ pc[p] = "idle" /\ batch'[p] = q /\ ev[p] = None
    BY <1>0 DEF PublishMany, memVars, subVars, CoType, EvInv
  <1>3. Writing' = Writing /\ Buffered' = Buffered
    <2>1. /\ p \in Tasks
          /\ \A t \in Tasks : (pc'[t] \in Holding <=> pc[t] \in Holding)
          /\ \A t \in Tasks : pc[t] \in Holding => batch'[t] = batch[t]
      BY <1>0, <1>2 DEF Holding
    <2>2. \A e : e \in Writing' <=> e \in Writing
      BY <2>1 DEF Writing, Elems
    <2>3. Buffered' = Buffered
      BY <1>2 DEF Buffered, Elems
    <2> QED BY <2>2, <2>3
  <1>4. /\ \A s \in Subs : InOrder(inbox[s], Earlier)' = InOrder(inbox[s], Earlier')
        /\ \A t \in Tasks : /\ InOrder(batch[t], Earlier)' = InOrder(batch'[t], Earlier')
                            /\ Elems(batch[t])' = Elems(batch'[t])
        /\ \A k \in Kinds : InOrder(buffer[k], Earlier)' = InOrder(buffer[k], Earlier')
    BY <1>2 DEF InOrder, Elems
  <1>5. \A r : InOrder(r, Earlier) => InOrder(r, Earlier')
    BY <1>1 DEF InOrder
  <1>6. InOrder(q, Earlier')
    <2>1. \A i, j \in DOMAIN q : <<q[j], q[i]>> \notin Earlier
      BY <1>0, BulkApart DEF Elems
    <2> QED BY <1>1, <2>1 DEF InOrder
  <1>7. /\ \A s \in Subs : InOrder(inbox[s], Earlier)'
        /\ \A t \in Tasks : InOrder(batch[t], Earlier)'
        /\ \A k \in Kinds : InOrder(buffer[k], Earlier)'
    BY <1>2, <1>4, <1>5, <1>6 DEF OrderInv
  <1>8. ASSUME NEW r \in Publishers, NEW b \in Writing \cup Buffered, <<b, ev[r]>> \in Earlier'
        PROVE  /\ pc'[r] = "flush" => KindOf[b] \in todo[r] \cup {kind[r]}
               /\ pc'[r] \in {"begin", "commit", "written"} =>
                     KindOf[b] \in todo[r] \/ b \in Elems(batch'[r])
    BY <1>0, <1>1, <1>2, <1>8 DEF OrderInv
  <1>9. /\ \A a \in fanned, b \in Writing \cup Buffered : <<b, a>> \notin Earlier'
        /\ \A a \in Writing, b \in Buffered : <<b, a>> \notin Earlier'
    BY <1>1 DEF OrderInv
  <1> QED BY <1>0, <1>2, <1>3, <1>4, <1>7, <1>8, <1>9 DEF OrderInv

\* The handover of a chunk: it is the last its publisher said, so it may join
\* the buffer behind anything.
LEMMA OrderAppendChunk ==
    ASSUME OnceInv, SaidInv, OrderInv, NEW p \in Publishers, AppendChunk(p)
    PROVE  OrderInv'
  <1> DEFINE e == ev[p]
             k == KindOf[e]
  <1>0. /\ TypeOK /\ CoType /\ PcData /\ EvInv
        /\ \A r \in Publishers : r \in Tasks /\ r \notin Chunks
    BY ConstantsAssumption DEF OnceInv, DurInv, TypeInv, TypeOK, CoType, Tasks, Chunks
  <1>1. /\ e \in Chunks /\ k \in Kinds /\ e \in Events /\ e # None /\ e \in Tasks
        /\ pc[p] = "chunk" /\ pc[e] = "idle"
    BY <1>0, ConstantsAssumption DEF AppendChunk, PcData, EvInv, Chunks, Tasks
  <1>2. /\ UNCHANGED <<said, inbox, fanned, batch, todo, kind>>
        /\ \A l \in Kinds : buffer'[l] = IF l = k THEN Append(buffer[k], e) ELSE buffer[l]
        /\ \A r \in Publishers : ev'[r] = IF r = p THEN None ELSE ev[r]
        /\ \A t \in Tasks : \/ pc'[t] = pc[t]
                            \/ t \in {p, e} /\ pc'[t] \in {"idle", "asleep"}
    BY <1>0, <1>1 DEF AppendChunk, histVars, subVars, CoType, TypeOK
  <1>3. \A b : <<e, b>> \notin Earlier
    BY <1>0, <1>1, LastNotEarlier
  <1> HIDE DEF e, k
  <1>4. Elems(Append(buffer[k], e)) = Elems(buffer[k]) \cup {e}
    BY <1>0, <1>1, ElemsAppend DEF TypeOK
  <1>5. Earlier' = Earlier
    BY <1>2, EarlierSame
  <1>6. /\ \A s \in Subs : InOrder(inbox[s], Earlier)' = InOrder(inbox[s], Earlier)
        /\ \A t \in Tasks : InOrder(batch[t], Earlier)' = InOrder(batch[t], Earlier)
        /\ \A l \in Kinds : /\ InOrder(buffer[l], Earlier)' = InOrder(buffer'[l], Earlier)
                            /\ Elems(buffer[l])' = Elems(buffer'[l])
    BY <1>2, <1>5 DEF InOrder, Elems
  <1>7. InOrder(Append(buffer[k], e), Earlier)
    BY <1>0, <1>1, <1>3, InOrderAppend DEF TypeOK, OrderInv
  <1>8. Buffered' \subseteq Buffered \cup {e}
    <2>1. \A l \in Kinds : Elems(buffer'[l]) \subseteq Elems(buffer[l]) \cup {e}
      BY <1>2, <1>4
    <2> QED BY <1>6, <2>1 DEF Buffered
  <1>9. Writing' = Writing
    <2>1. \A t \in Tasks : pc'[t] \in Holding <=> pc[t] \in Holding
      BY <1>1, <1>2 DEF Holding
    <2> QED BY <1>2, <2>1 DEF Writing, Elems
  <1>10. /\ \A a \in fanned, b \in Writing \cup Buffered' : <<b, a>> \notin Earlier
         /\ \A a \in Writing, b \in Buffered' : <<b, a>> \notin Earlier
    BY <1>3, <1>8 DEF OrderInv
  <1>11. ASSUME NEW r \in Publishers, NEW b \in Writing \cup Buffered', <<b, ev'[r]>> \in Earlier
         PROVE  /\ pc'[r] = "flush" => KindOf[b] \in todo[r] \cup {kind[r]}
                /\ pc'[r] \in {"begin", "commit", "written"} =>
                      KindOf[b] \in todo[r] \/ b \in Elems(batch[r])
    <2>1. r # p /\ b # e
      BY <1>2, <1>3, <1>11, NoneApart
    <2>2. b \in Writing \cup Buffered /\ ev'[r] = ev[r]
      BY <1>2, <1>8, <1>11, <2>1
    <2>3. pc'[r] \notin {"idle", "asleep"} => pc'[r] = pc[r]
      BY <1>0, <1>2
    <2> QED BY <1>11, <2>2, <2>3 DEF OrderInv
  <1>12. /\ \A s \in Subs : InOrder(inbox[s], Earlier)'
         /\ \A t \in Tasks : InOrder(batch[t], Earlier)'
         /\ \A l \in Kinds : InOrder(buffer[l], Earlier)'
    BY <1>2, <1>6, <1>7 DEF OrderInv
  <1>13. \A r \in Publishers : Elems(batch[r])' = Elems(batch[r])
    BY <1>2 DEF Elems
  <1> QED BY <1>2, <1>5, <1>9, <1>10, <1>11, <1>12, <1>13 DEF OrderInv

\* The flush takes a kind out of the buffer: with the lock free nothing else is
\* being written, and chunks of other kinds are not ordered with it.
LEMMA OrderTakeBatch ==
    ASSUME OnceInv, OrderInv, NEW t \in Tasks, TakeBatch(t)
    PROVE  OrderInv'
  <1> DEFINE k == FlushKind(t)
  <1>0. /\ TypeOK /\ CoType /\ PcData /\ LockOwned /\ PlaceInv
        /\ \A r \in Publishers : r \in Tasks /\ r \notin Chunks
    BY ConstantsAssumption DEF OnceInv, DurInv, TypeInv, TypeOK, CoType, Tasks, Chunks
  <1>1. /\ k \in Kinds /\ pc[t] = "flush" /\ lock = None /\ Writing = {}
        /\ t \in Publishers => kind[t] = k
    BY <1>0, FlushKindType, NoWriting DEF TakeBatch, FlushKind
  <1>2. /\ UNCHANGED <<said, inbox, fanned, ev, todo, kind>>
        /\ \A u \in Tasks : /\ batch'[u] = IF u = t THEN buffer[k] ELSE batch[u]
                            /\ pc'[u] = IF u = t THEN "begin" ELSE pc[u]
        /\ \A l \in Kinds : buffer'[l] = IF l = k THEN <<>> ELSE buffer[l]
    BY <1>0 DEF TakeBatch, histVars, subVars, CoType, TypeOK
  <1>3. Earlier' = Earlier
    BY <1>2, EarlierSame
  <1> HIDE DEF k
  <1>4. /\ \A s \in Subs : InOrder(inbox[s], Earlier)' = InOrder(inbox[s], Earlier)
        /\ \A u \in Tasks : /\ InOrder(batch[u], Earlier)' = InOrder(batch'[u], Earlier)
                            /\ Elems(batch[u])' = Elems(batch'[u])
        /\ \A l \in Kinds : /\ InOrder(buffer[l], Earlier)' = InOrder(buffer'[l], Earlier)
                            /\ Elems(buffer[l])' = Elems(buffer'[l])
    BY <1>2, <1>3 DEF InOrder, Elems
  <1>5. Writing' = Elems(buffer[k])
    <2>1. \A u \in Tasks : pc'[u] \in Holding <=> u = t
      BY <1>0, <1>1, <1>2, ConstantsAssumption DEF LockOwned, Holding
    <2>2. \A e : e \in Writing' <=> \E u \in Tasks : pc'[u] \in Holding /\ e \in Elems(batch'[u])
      BY <1>4 DEF Writing
    <2> QED BY <1>2, <2>1, <2>2
  <1>6. \A e \in Buffered' : e \in Buffered /\ KindOf[e] \in Kinds \ {k}
    <2>1. ASSUME NEW e \in Buffered'
          PROVE  e \in Buffered /\ KindOf[e] \in Kinds \ {k}
      <3>1. PICK l \in Kinds : e \in Elems(buffer'[l])
        BY <1>4, <2>1 DEF Buffered
      <3>2. l # k /\ e \in Elems(buffer[l])
        BY <1>2, <3>1, ElemsEmpty
      <3> QED BY <1>0, <3>2 DEF PlaceInv, Buffered
    <2> QED BY <2>1
  <1>7. \A e \in Elems(buffer[k]) : e \in Buffered /\ KindOf[e] = k
    BY <1>0, <1>1 DEF PlaceInv, Buffered
  <1>8. \A a \in fanned, b \in Writing' \cup Buffered' : <<b, a>> \notin Earlier
    BY <1>5, <1>6, <1>7 DEF OrderInv
  <1>9. \A a \in Writing', b \in Buffered' : <<b, a>> \notin Earlier
    BY <1>1, <1>5, <1>6, <1>7, KindsApart
  <1>10. ASSUME NEW p \in Publishers, NEW b \in Writing' \cup Buffered', <<b, ev[p]>> \in Earlier
         PROVE  /\ pc'[p] = "flush" => KindOf[b] \in todo[p] \cup {kind[p]}
                /\ pc'[p] \in {"begin", "commit", "written"} =>
                      KindOf[b] \in todo[p] \/ b \in Elems(batch'[p])
    <2>1. b \in Buffered /\ (KindOf[b] # k \/ b \in Elems(buffer[k]))
      BY <1>5, <1>6, <1>7, <1>10
    <2>2. CASE p = t
      <3>1. KindOf[b] \in todo[p] \cup {k}
        BY <1>1, <1>10, <2>1, <2>2 DEF OrderInv
      <3> QED BY <1>0, <1>2, <2>1, <2>2, <3>1
    <2>3. CASE p # t
      <3>1. pc[p] \notin Holding /\ pc'[p] = pc[p]
        BY <1>0, <1>1, <1>2, <2>3, ConstantsAssumption DEF LockOwned
      <3> QED BY <1>10, <2>1, <3>1 DEF OrderInv, Holding
    <2> QED BY <2>2, <2>3
  <1>11. /\ \A s \in Subs : InOrder(inbox[s], Earlier)'
         /\ \A u \in Tasks : InOrder(batch[u], Earlier)'
         /\ \A l \in Kinds : InOrder(buffer[l], Earlier)'
    BY <1>1, <1>2, <1>4, InOrderEmpty DEF OrderInv
  <1>12. \A p \in Publishers : Elems(batch[p])' = Elems(batch'[p])
    BY <1>0, <1>4
  <1> QED BY <1>2, <1>3, <1>8, <1>9, <1>10, <1>11, <1>12 DEF OrderInv

\* What Continue hands out, and where it leaves the coroutine.
LEMMA ContinueForms ==
    ASSUME NEW t \in Tasks, NEW rest, NEW q, Continue(t, rest, q)
    PROVE  \/ FanOut(q) /\ Finish(t)
           \/ /\ t \in Publishers /\ ev[t] # None /\ rest = {}
              /\ FanOut(Append(q, ev[t])) /\ Finish(t)
           \/ /\ FanOut(q)
              /\ pc' = [pc EXCEPT ![t] = "flush"] /\ ev' = ev
              /\ batch' = [batch EXCEPT ![t] = <<>>]
              /\ \E k \in rest : /\ kind' = [kind EXCEPT ![t] = k]
                                 /\ todo' = [todo EXCEPT ![t] = rest \ {k}]
  BY DEF Continue

\* The fan-out after a flush or an insert: the batch comes before whatever is
\* still buffered, and the publisher's own event only when nothing that was said
\* before it is left there.
LEMMA OrderFan ==
    ASSUME OnceInv, SaidInv, OrderInv, NEW t \in Tasks, NEW rest,
           NEW q \in {<<>>, batch[t]}, Continue(t, rest, q), UNCHANGED <<said, buffer>>,
           \A u \in Tasks : u # t => pc[u] \notin Holding,
           q # <<>> => pc[t] \in Holding,
           \A b \in Buffered : t \in Publishers /\ <<b, ev[t]>> \in Earlier => KindOf[b] \in rest
    PROVE  OrderInv'
  <1>0. /\ TypeOK /\ CoType
        /\ \A s \in Subs : inbox[s] \in Seq(Events) /\ Elems(inbox[s]) \subseteq fanned
        /\ \A r \in Publishers : r \in Tasks
        /\ batch[t] \in Seq(Events) /\ <<>> \in Seq(Events)
    BY DEF OnceInv, DurInv, TypeInv, TypeOK, CoType, RecInv, Seen, Tasks
  <1>1. Earlier' = Earlier
    BY EarlierSame
  <1>2. /\ q \in Seq(Events) /\ InOrder(q, Earlier)
        /\ \A a \in Elems(q) : a \in Writing
    <2>1. CASE q = <<>>
      BY <1>0, <2>1, InOrderEmpty, ElemsEmpty
    <2>2. CASE q # <<>>
      BY <1>0, <2>2 DEF OrderInv, Writing
    <2> QED BY <2>1, <2>2
  <1>3. ASSUME NEW d \in Seq(Events), FanOut(d), InOrder(d, Earlier),
               \A x \in Elems(d), a \in fanned : <<x, a>> \notin Earlier,
               \A x \in Elems(d), b \in Buffered : <<b, x>> \notin Earlier
        PROVE  /\ \A s \in Subs : InOrder(inbox[s], Earlier)'
               /\ \A a \in fanned', b \in Buffered : <<b, a>> \notin Earlier
    <2>1. /\ fanned' = fanned \cup Elems(d)
          /\ \A s \in Subs : inbox'[s] \in {inbox[s], inbox[s] \o d}
      BY <1>3 DEF FanOut
    <2>2. \A s \in Subs : InOrder(inbox[s] \o d, Earlier)
      BY <1>0, <1>3, InOrderConcat DEF OrderInv
    <2>3. \A s \in Subs : InOrder(inbox'[s], Earlier)
      BY <2>1, <2>2 DEF OrderInv
    <2>4. \A s \in Subs : InOrder(inbox[s], Earlier)' = InOrder(inbox'[s], Earlier)
      BY <1>1 DEF InOrder
    <2> QED BY <1>3, <2>1, <2>3, <2>4 DEF OrderInv
  <1>4. ASSUME FanOut(q)
        PROVE  /\ \A s \in Subs : InOrder(inbox[s], Earlier)'
               /\ \A a \in fanned', b \in Buffered : <<b, a>> \notin Earlier
    BY <1>2, <1>3, <1>4 DEF OrderInv
  <1>5. ASSUME t \in Publishers, ev[t] # None, rest = {}, FanOut(Append(q, ev[t]))
        PROVE  /\ \A s \in Subs : InOrder(inbox[s], Earlier)'
               /\ \A a \in fanned', b \in Buffered : <<b, a>> \notin Earlier
    <2>1. ev[t] \in Events
      BY <1>0, <1>5 DEF TypeOK
    <2>2. /\ Append(q, ev[t]) \in Seq(Events)
          /\ Elems(Append(q, ev[t])) = Elems(q) \cup {ev[t]}
      BY <1>2, <2>1, ElemsAppend
    <2>3. \A b : <<ev[t], b>> \notin Earlier
      BY <1>0, <1>5, LastNotEarlier
    <2>4. \A b \in Buffered : <<b, ev[t]>> \notin Earlier
      BY <1>5
    <2>5. InOrder(Append(q, ev[t]), Earlier)
      BY <1>2, <2>1, <2>3, InOrderAppend
    <2> QED BY <1>2, <1>3, <1>5, <2>2, <2>3, <2>4, <2>5 DEF OrderInv
  <1>6. /\ \A s \in Subs : InOrder(inbox[s], Earlier)'
        /\ \A a \in fanned', b \in Buffered : <<b, a>> \notin Earlier
    BY <1>4, <1>5, ContinueForms
  <1>7. /\ pc'[t] \in {"idle", "flush"} /\ batch'[t] = <<>>
        /\ \A u \in Tasks : u # t => pc'[u] = pc[u] /\ batch'[u] = batch[u]
        /\ \A p \in Publishers : p # t => /\ ev'[p] = ev[p] /\ todo'[p] = todo[p]
                                          /\ kind'[p] = kind[p]
    <2>1. CASE Finish(t)
      BY <1>0, <2>1 DEF Finish, CoType
    <2>2. CASE /\ pc' = [pc EXCEPT ![t] = "flush"] /\ ev' = ev
               /\ batch' = [batch EXCEPT ![t] = <<>>]
               /\ \E k \in rest : /\ kind' = [kind EXCEPT ![t] = k]
                                  /\ todo' = [todo EXCEPT ![t] = rest \ {k}]
      BY <1>0, <2>2 DEF CoType
    <2> QED BY <2>1, <2>2, ContinueForms
  <1>8. Writing' = {}
    <2>1. \A u \in Tasks : pc'[u] \notin Holding
      BY <1>7 DEF Holding
    <2> QED BY <2>1 DEF Writing
  <1>9. Buffered' = Buffered
    BY DEF Buffered, Elems
  <1>10. /\ \A u \in Tasks : InOrder(batch[u], Earlier)'
         /\ \A k \in Kinds : InOrder(buffer[k], Earlier)'
    <2>1. /\ \A u \in Tasks : InOrder(batch[u], Earlier)' = InOrder(batch'[u], Earlier)
          /\ \A k \in Kinds : InOrder(buffer[k], Earlier)' = InOrder(buffer[k], Earlier)
      BY <1>1 DEF InOrder
    <2>2. \A u \in Tasks : batch'[u] \in {batch[u], <<>>}
      BY <1>7
    <2> QED BY <2>1, <2>2, InOrderEmpty DEF OrderInv
  <1>11. ASSUME NEW p \in Publishers, NEW b \in Buffered, <<b, ev'[p]>> \in Earlier
         PROVE  /\ pc'[p] = "flush" => KindOf[b] \in todo'[p] \cup {kind'[p]}
                /\ pc'[p] \in {"begin", "commit", "written"} =>
                      KindOf[b] \in todo'[p] \/ b \in Elems(batch'[p])
    <2>1. CASE p # t
      <3>1. pc'[p] = pc[p] /\ pc[p] \notin Holding
        BY <1>0, <1>7, <2>1
      <3> QED BY <1>7, <1>11, <2>1, <3>1 DEF OrderInv, Holding
    <2>2. CASE p = t /\ Finish(t)
      <3>1. pc'[p] = "idle"
        BY <1>0, <2>2 DEF Finish, CoType
      <3> QED BY <3>1
    <2>3. CASE p = t /\ pc' = [pc EXCEPT ![t] = "flush"] /\ ev' = ev
               /\ \E k \in rest : /\ kind' = [kind EXCEPT ![t] = k]
                                  /\ todo' = [todo EXCEPT ![t] = rest \ {k}]
      <3>1. KindOf[b] \in rest
        BY <1>11, <2>3
      <3>2. todo'[p] \cup {kind'[p]} = rest /\ pc'[p] = "flush"
        BY <1>0, <2>3 DEF CoType
      <3> QED BY <3>1, <3>2
    <2> QED BY <2>1, <2>2, <2>3, ContinueForms
  <1>12. \A p \in Publishers : Elems(batch[p])' = Elems(batch'[p])
    BY DEF Elems
  <1> QED BY <1>1, <1>6, <1>8, <1>9, <1>10, <1>11, <1>12 DEF OrderInv

\* Every step keeps OrderInv.
LEMMA OrderStep ==
    /\ OnceInv /\ TimerInv /\ CarryInv /\ SaidInv /\ OrderInv /\ [Next]_vars => OrderInv'
  <1> SUFFICES ASSUME OnceInv, TimerInv, CarryInv, SaidInv, OrderInv, [Next]_vars
               PROVE  OrderInv'
    OBVIOUS
  <1>0. /\ DurInv /\ TypeInv /\ TypeOK /\ CoType /\ PcData /\ EvInv /\ LockOwned /\ PlaceInv
        /\ \A p \in Publishers : p \in Tasks /\ p \notin Chunks
    BY ConstantsAssumption DEF OnceInv, DurInv, TypeInv, TypeOK, CoType, Tasks, Chunks
  <1>1. ASSUME NEW p \in Publishers, AfterInsert(p)
        PROVE  OrderInv'
    <2>1. /\ Continue(p, pending, <<>>) /\ UNCHANGED <<said, buffer>>
          /\ pc[p] \in Holding
      BY <1>1 DEF AfterInsert, histVars, Holding
    <2>2. \A u \in Tasks : u # p => pc[u] \notin Holding
      BY <1>0, <2>1 DEF LockOwned
    <2>3. \A b \in Buffered : KindOf[b] \in pending
      <3>1. ASSUME NEW b \in Buffered
            PROVE  KindOf[b] \in pending
        <4>1. PICK k \in Kinds : b \in Elems(buffer[k])
          BY <3>1 DEF Buffered
        <4> QED BY <1>0, <4>1, ElemsEmpty DEF PlaceInv, TimerInv
      <3> QED BY <3>1
    <2> QED BY <1>0, <2>1, <2>2, <2>3, OrderFan
  <1>2. ASSUME NEW t \in Tasks, NothingToFlush(t)
        PROVE  OrderInv'
    <2> DEFINE rest == IF t \in Publishers THEN todo[t] ELSE {}
    <2>1. /\ Continue(t, rest, <<>>) /\ UNCHANGED <<said, buffer>>
          /\ pc[t] = "flush" /\ lock = None /\ buffer[FlushKind(t)] = <<>>
          /\ t \in Publishers => FlushKind(t) = kind[t]
      BY <1>0, <1>2 DEF NothingToFlush, histVars, FlushKind
    <2>2. \A u \in Tasks : pc[u] \notin Holding
      BY <1>0, <2>1, ConstantsAssumption DEF LockOwned
    <2>3. ASSUME NEW b \in Buffered, t \in Publishers, <<b, ev[t]>> \in Earlier
          PROVE  KindOf[b] \in rest
      <3>1. KindOf[b] \in todo[t] \cup {kind[t]}
        BY <2>1, <2>3 DEF OrderInv
      <3>2. PICK k \in Kinds : b \in Elems(buffer[k])
        BY <2>3 DEF Buffered
      <3>3. KindOf[b] = k /\ k # kind[t]
        BY <1>0, <2>1, <2>3, <3>2, ElemsEmpty DEF PlaceInv
      <3> QED BY <2>3, <3>1, <3>3
    <2> HIDE DEF rest
    <2> QED BY <2>1, <2>2, <2>3, OrderFan
  <1>3. ASSUME NEW t \in Tasks, AfterWrite(t)
        PROVE  OrderInv'
    <2> DEFINE rest == IF t \in Publishers THEN todo[t] ELSE {}
    <2>1. /\ Continue(t, rest, batch[t]) /\ UNCHANGED <<said, buffer>>
          /\ pc[t] = "written" /\ pc[t] \in Holding
      BY <1>3 DEF AfterWrite, histVars, Holding
    <2>2. \A u \in Tasks : u # t => pc[u] \notin Holding
      BY <1>0, <2>1 DEF LockOwned
    <2>3. ASSUME NEW b \in Buffered, t \in Publishers, <<b, ev[t]>> \in Earlier
          PROVE  KindOf[b] \in rest
      <3>1. KindOf[b] \in todo[t] \/ b \in Elems(batch[t])
        BY <2>1, <2>3 DEF OrderInv
      <3>2. b \notin Elems(batch[t])
        BY <1>0, <2>3 DEF Buffered, PlaceInv
      <3> QED BY <2>3, <3>1, <3>2
    <2> HIDE DEF rest
    <2> QED BY <2>1, <2>2, <2>3, OrderFan
  <1>4. ASSUME NEW t \in Tasks,
               \/ t \in Publishers /\ Insert(t) /\ pc[t] = "orphanInsert"
               \/ InsertFails(t)
               \/ CommitWrite(t) /\ pc[t] = "orphanCommit"
               \/ WriteFails(t)
               \/ t \in Publishers /\ Cancel(t) /\ Finish(t)
        PROVE  OrderInv'
    <2>1. Finish(t) /\ UNCHANGED <<said, inbox, fanned, buffer>>
      BY <1>4 DEF Insert, InsertFails, CommitWrite, WriteFails, Cancel, memVars,
                  subVars, histVars
    <2> QED BY <1>0, <2>1, OrderEnd
  <1>5. ASSUME NEW t \in Tasks,
               \/ t \in Publishers /\ (StartInsert(t) \/ StartBulk(t))
               \/ t \in Publishers /\ Insert(t) /\ pc[t] = "insert"
               \/ TimerFires(t) \/ BeginWrite(t)
               \/ CommitWrite(t) /\ pc[t] = "commit"
               \/ t \in Publishers /\ Cancel(t) /\ ~Finish(t)
        PROVE  OrderInv'
    <2>1. UNCHANGED <<said, inbox, fanned, buffer>> /\ UNCHANGED <<ev, todo, kind, batch>>
      BY <1>5 DEF StartInsert, StartBulk, Insert, TimerFires, BeginWrite, CommitWrite,
                  Cancel, memVars, subVars, histVars
    <2>2. \E x : /\ pc' = [pc EXCEPT ![t] = x]
                 /\ x \in Holding => pc[t] \in Holding \cup {"low", "bulk"}
                 /\ t \in Publishers => x # "flush"
                 /\ x \in {"begin", "commit", "written"} =>
                       \/ pc[t] \in {"begin", "commit", "written"}
                       \/ t \in Publishers /\ ev[t] = None
      <3>1. CASE t \in Publishers /\ (StartInsert(t) \/ StartBulk(t))
        BY <1>0, <3>1 DEF StartInsert, StartBulk, EvInv, Holding
      <3>2. CASE \/ t \in Publishers /\ Insert(t) /\ pc[t] = "insert"
                 \/ TimerFires(t)
                 \/ CommitWrite(t) /\ pc[t] = "commit"
        BY <1>0, <3>2 DEF Insert, TimerFires, CommitWrite, Holding
      <3>3. CASE BeginWrite(t)
        <4>1. \/ pc[t] = "begin" /\ pc' = [pc EXCEPT ![t] = "commit"]
              \/ pc[t] = "orphanBegin" /\ pc' = [pc EXCEPT ![t] = "orphanCommit"]
          BY <1>0, <3>3 DEF BeginWrite, TypeOK
        <4> QED BY <4>1 DEF Holding
      <3>4. CASE t \in Publishers /\ Cancel(t) /\ ~Finish(t)
        <4>1. \E x : pc' = [pc EXCEPT ![t] = x] /\ x \in Orphan
          BY <1>0, <3>4 DEF Cancel, Orphan, TypeOK
        <4> QED BY <4>1 DEF Orphan, Holding
      <3> QED BY <1>5, <3>1, <3>2, <3>3, <3>4
    <2> QED BY <1>0, <2>1, <2>2, OrderMove
  <1>6. ASSUME \/ MaintBegin \/ MaintCommit \/ MaintFails
               \/ \E D \in SUBSET stored : MaintDelete(D)
               \/ \E s \in Subs : Subscribe(s) \/ Unsubscribe(s)
               \/ UNCHANGED vars
        PROVE  OrderInv'
    <2>1. UNCHANGED <<said, inbox, fanned, buffer, ev, todo, kind, batch, pc>>
      BY <1>6 DEF MaintBegin, MaintCommit, MaintFails, MaintDelete, Subscribe,
                  Unsubscribe, coVars, memVars, subVars, histVars, vars
    <2> QED BY <2>1, OrderStable
  <1>7. ASSUME Close \/ Crash
        PROVE  OrderInv'
    <2>1. /\ UNCHANGED <<said, inbox, fanned>>
          /\ \A k \in Kinds : buffer'[k] \in {buffer[k], <<>>}
          /\ \A t \in Tasks : \/ batch'[t] = <<>>
                              \/ /\ batch'[t] = batch[t]
                                 /\ pc'[t] = pc[t]
          /\ \A p \in Publishers : \/ ev'[p] = None
                                   \/ /\ ev'[p] = ev[p] /\ pc'[p] = pc[p]
                                      /\ todo'[p] = todo[p] /\ kind'[p] = kind[p]
                                      /\ batch'[p] = batch[p]
      BY <1>0, <1>7 DEF Close, Crash, subVars
    <2> QED BY <2>1, OrderStable
  <1> QED
    BY <1>0, <1>1, <1>2, <1>3, <1>4, <1>5, <1>6, <1>7, OrderPublish, OrderPublishMany,
       OrderAppendChunk, OrderTakeBatch
       DEF Next, PublisherStep, TaskStep, Quiet, Insert, CommitWrite

-----------------------------------------------------------------------------
(* The theorems *)

\* The inductive invariant of the bus, all parts together.
BusInv ==
    /\ OnceInv
    /\ CauseInv /\ TimerInv /\ CarryInv /\ StoreInv /\ AccountInv
    /\ SaidInv /\ OrderInv

\* It holds before anything is published.
LEMMA BusInit == Init => BusInv
  <1> SUFFICES ASSUME Init PROVE BusInv
    OBVIOUS
  <1>1. /\ \A t \in Tasks : pc[t] = "idle" /\ batch[t] = <<>>
        /\ \A p \in Publishers : ev[p] = None /\ said[p] = <<>>
        /\ \A k \in Kinds : buffer[k] = <<>>
        /\ \A s \in Subs : inbox[s] = <<>>
        /\ \A f \in Faults : used[f] = 0
        /\ \A p \in Publishers : p \in Tasks
        /\ stored = {} /\ durable = {} /\ fanned = {} /\ risk = {} /\ lost = {}
        /\ pending = {} /\ maint = "idle" /\ up
    BY DEF Init, Tasks
  <1>2. Published = {} /\ Writing = {} /\ Buffered = {}
    BY <1>1, ElemsEmpty DEF Published, Writing, Buffered
  <1>3. CauseInv /\ TimerInv /\ CarryInv
    BY <1>1, ElemsEmpty DEF CauseInv, RiskHasCause, TimerInv, CarryInv, Orphan, HasLow
  <1>4. StoreInv /\ AccountInv
    BY <1>1, <1>2, ElemsEmpty DEF StoreInv, AccountInv
  <1>5. SaidInv
    BY <1>1, ElemsEmpty, DistinctEmpty DEF SaidInv
  <1>6. OrderInv
    BY <1>1, <1>2, InOrderEmpty DEF OrderInv
  <1> QED BY <1>3, <1>4, <1>5, <1>6, OnceInit DEF BusInv

\* Every step of the bus keeps it.
LEMMA BusStep == BusInv /\ [Next]_vars => BusInv'
  <1> SUFFICES ASSUME BusInv, [Next]_vars PROVE BusInv'
    OBVIOUS
  <1>1. /\ OnceInv /\ DurInv /\ PlaceInv /\ TypeInv /\ EvInv
        /\ CauseInv /\ TimerInv /\ CarryInv /\ StoreInv /\ AccountInv
        /\ SaidInv /\ OrderInv
    BY DEF BusInv, OnceInv, DurInv
  <1>2. OnceInv'
    BY <1>1, DurStep, PlaceStep, OnceStep DEF OnceInv
  <1>3. CauseInv' /\ TimerInv' /\ CarryInv'
    BY <1>1, CauseStep, TimerStep, CarryStep
  <1>4. StoreInv' /\ AccountInv'
    BY <1>1, StoreStep, AccountStep
  <1>5. SaidInv' /\ OrderInv'
    BY <1>1, SaidStep, OrderStep
  <1> QED BY <1>2, <1>3, <1>4, <1>5 DEF BusInv

\* For all constants the invariant holds in every state of the bus.
THEOREM BusCorrect == Spec => []BusInv
  BY BusInit, BusStep, PTL DEF Spec

\* Without maintenance and without a cancelled writer no event is ever inserted
\* in a foreign transaction: the writers of the bus exclude each other.
THEOREM NoRiskUncaused == Spec => []RiskHasCause
  <1>1. BusInv => RiskHasCause
    BY DEF BusInv, CauseInv
  <1> QED BY <1>1, BusCorrect, PTL

\* A chunk that stays in the buffer always has a live timer of its kind, until
\* close: no interleaving of publishes and flushes leaves it stranded.
THEOREM NeverStranded == Spec => []BufferedIsScheduled
  <1>1. BusInv => BufferedIsScheduled
    BY DEF BusInv, TimerInv, BufferedIsScheduled
  <1> QED BY <1>1, BusCorrect, PTL

\* A buffered chunk is nowhere else, neither in a batch nor already written or
\* fanned out, and no two tasks are flushing the same one.
THEOREM HeldInOnePlace == Spec => []OnePlace
  <1>1. BusInv => OnePlace
    <2> SUFFICES ASSUME BusInv PROVE OnePlace
      OBVIOUS
    <2>1. PlaceInv /\ StoreInv
      BY DEF BusInv, OnceInv
    <2>2. ASSUME NEW e \in Buffered
          PROVE  e \notin InBatch \cup InHand \cup stored \cup fanned
      <3>1. PICK k \in Kinds : e \in Elems(buffer[k])
        BY <2>2 DEF Buffered
      <3>2. e \notin InBatch /\ e \notin fanned
        BY <2>1, <3>1 DEF PlaceInv, InBatch
      <3>3. e \notin InHand
        BY <2>1, <3>1 DEF PlaceInv, InHand
      <3>4. e \notin stored
        BY <2>1, <3>1 DEF StoreInv
      <3> QED BY <3>2, <3>3, <3>4
    <2>3. \A t, u \in Tasks : t # u => Elems(batch[t]) \cap Elems(batch[u]) = {}
      BY <2>1 DEF PlaceInv
    <2> QED BY <2>2, <2>3 DEF OnePlace
  <1> QED BY <1>1, BusCorrect, PTL

\* No chunk disappears: it is on its way, stored, deleted by a maintenance that
\* committed, or lost to a fault that happened.
THEOREM NothingVanishes == Spec => []ChunkAccounted
  <1>1. BusInv => ChunkAccounted
    BY DEF BusInv, AccountInv, CauseInv, Settled, ChunkAccounted
  <1> QED BY <1>1, BusCorrect, PTL

\* What one publisher sent through publish reaches every handler in the order it
\* was sent, whichever task, timer or other publisher flushed it.
THEOREM SentOrder == Spec => []PublisherOrder
  <1>1. BusInv => PublisherOrder
    <2> SUFFICES ASSUME BusInv, NEW p \in Publishers, NEW s \in Subs,
                        NEW i \in DOMAIN inbox[s], NEW j \in DOMAIN inbox[s],
                        i < j, Ordered(inbox[s][i], inbox[s][j]),
                        inbox[s][i] \in Elems(said[p]), inbox[s][j] \in Elems(said[p])
                 PROVE  Before(said[p], inbox[s][i], inbox[s][j])
      BY DEF PublisherOrder
    <2> DEFINE a == inbox[s][i]
               b == inbox[s][j]
    <2>1. /\ inbox[s] \in Seq(Events) /\ said[p] \in Seq(Events)
          /\ InOrder(inbox[s], Earlier) /\ HandledOnce
      BY DEF BusInv, OnceInv, DurInv, TypeInv, TypeOK, OrderInv
    <2>2. a \in Events /\ b \in Events /\ a # b
      BY <2>1 DEF HandledOnce
    <2>3. <<b, a>> \notin Earlier
      BY <2>1 DEF InOrder
    <2>4. Ordered(b, a)
      BY DEF Ordered
    <2> HIDE DEF a, b
    <2>5. ~Before(said[p], b, a)
      BY <2>2, <2>3, <2>4 DEF Earlier
    <2>6. PICK m, n \in DOMAIN said[p] : said[p][m] = a /\ said[p][n] = b
      BY DEF Elems, a, b
    <2>7. ~(n < m)
      BY <2>5, <2>6 DEF Before
    <2>8. m < n
      BY <2>1, <2>2, <2>6, <2>7
    <2>9. Before(said[p], a, b)
      BY <2>6, <2>8 DEF Before
    <2> QED BY <2>9 DEF a, b
  <1> QED BY <1>1, BusCorrect, PTL
=============================================================================
