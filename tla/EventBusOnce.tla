---------------------------- MODULE EventBusOnce ----------------------------
(***************************************************************************)
(* Where an event is, for all constants: an event is in one place at a     *)
(* time, carried by a publisher, in the buffer, in one batch, or fanned    *)
(* out.  So no handler is given an event twice, and EventBus implements    *)
(* EventLog.  A buffered chunk has a timer, and a chunk is accounted for   *)
(* until it is stored or a fault that did happen takes it.                 *)
(***************************************************************************)
EXTENDS EventBusProofs

Distinct(q) == \A i, j \in DOMAIN q : q[i] = q[j] => i = j

PlaceInv ==
    /\ \A t \in Tasks : Distinct(batch[t]) /\ Elems(batch[t]) \subseteq Published
    /\ \A k \in Kinds : Distinct(buffer[k]) /\ Elems(buffer[k]) \subseteq Published
    /\ \A k \in Kinds : \A e \in Elems(buffer[k]) : KindOf[e] = k
    /\ fanned \subseteq Published
    /\ \A t, u \in Tasks : t # u => Elems(batch[t]) \cap Elems(batch[u]) = {}
    /\ \A t \in Tasks, k \in Kinds : Elems(batch[t]) \cap Elems(buffer[k]) = {}
    /\ \A t \in Tasks : Elems(batch[t]) \cap fanned = {}
    /\ \A k \in Kinds : Elems(buffer[k]) \cap fanned = {}
    /\ \A p \in Publishers, t \in Tasks : ev[p] \notin Elems(batch[t])
    /\ \A p \in Publishers, k \in Kinds : ev[p] \notin Elems(buffer[k])
    /\ \A p \in Publishers : ev[p] \notin fanned

OnceInv == DurInv /\ PlaceInv /\ HandledOnce

-----------------------------------------------------------------------------
(* Lemmas about sequences without repetition *)

\* The empty sequence repeats nothing.
LEMMA DistinctEmpty == Distinct(<<>>)
  BY DEF Distinct

\* Joining sequences without common elements repeats none.
LEMMA DistinctConcat ==
    ASSUME NEW S, NEW q \in Seq(S), NEW r \in Seq(S), Distinct(q), Distinct(r),
           Elems(q) \cap Elems(r) = {}
    PROVE  Distinct(q \o r)
  <1>1. /\ q \o r \in Seq(S)
        /\ Len(q \o r) = Len(q) + Len(r)
        /\ \A i \in 1 .. Len(q) + Len(r) :
              (q \o r)[i] = IF i <= Len(q) THEN q[i] ELSE r[i - Len(q)]
    BY ConcatProperties
  <1>2. SUFFICES ASSUME NEW i \in 1 .. Len(q) + Len(r), NEW j \in 1 .. Len(q) + Len(r),
                        (q \o r)[i] = (q \o r)[j]
                 PROVE  i = j
    BY <1>1 DEF Distinct
  <1>3. \A m \in 1 .. Len(q), n \in 1 .. Len(r) : q[m] # r[n]
    BY DEF Elems
  <1>4. CASE i <= Len(q) /\ j <= Len(q)
    BY <1>1, <1>2, <1>4 DEF Distinct
  <1>5. CASE i <= Len(q) /\ ~(j <= Len(q))
    BY <1>1, <1>2, <1>3, <1>5
  <1>6. CASE ~(i <= Len(q)) /\ j <= Len(q)
    BY <1>1, <1>2, <1>3, <1>6
  <1>7. CASE ~(i <= Len(q)) /\ ~(j <= Len(q))
    <2>1. /\ i - Len(q) \in DOMAIN r /\ j - Len(q) \in DOMAIN r
          /\ r[i - Len(q)] = r[j - Len(q)]
      BY <1>1, <1>2, <1>7
    <2> QED BY <2>1 DEF Distinct
  <1> QED BY <1>4, <1>5, <1>6, <1>7

\* So does appending a new element.
LEMMA DistinctAppend ==
    ASSUME NEW S, NEW q \in Seq(S), NEW e \in S, Distinct(q), e \notin Elems(q)
    PROVE  Distinct(Append(q, e))
  <1>1. /\ Len(Append(q, e)) = Len(q) + 1
        /\ Append(q, e) \in Seq(S)
        /\ \A i \in 1 .. Len(q) : Append(q, e)[i] = q[i]
        /\ Append(q, e)[Len(q) + 1] = e
    BY AppendProperties
  <1>2. \A i \in 1 .. Len(q) : q[i] # e
    BY DEF Elems
  <1> QED BY <1>1, <1>2 DEF Distinct

\* What a concatenation added is its second half.
LEMMA SuffixOfConcat ==
    ASSUME NEW S, NEW q \in Seq(S), NEW r \in Seq(S)
    PROVE  SubSeq(q \o r, Len(q) + 1, Len(q \o r)) = r
  <1> DEFINE z == SubSeq(q \o r, Len(q) + 1, Len(q \o r))
  <1>1. /\ q \o r \in Seq(S)
        /\ Len(q \o r) = Len(q) + Len(r)
        /\ \A i \in 1 .. Len(q) + Len(r) :
              (q \o r)[i] = IF i <= Len(q) THEN q[i] ELSE r[i - Len(q)]
        /\ Len(q) \in Nat /\ Len(r) \in Nat
    BY ConcatProperties
  <1>2. \A i \in Len(q) + 1 .. Len(q) + Len(r) : (q \o r)[i] \in S
    BY <1>1
  <1>3. /\ z \in Seq(S)
        /\ Len(z) = Len(r)
        /\ \A i \in 1 .. Len(r) : z[i] = (q \o r)[Len(q) + 1 + i - 1]
    BY <1>1, <1>2, SubSeqProperties
  <1>4. \A i \in 1 .. Len(r) : z[i] = r[i]
    BY <1>1, <1>3
  <1> HIDE DEF z
  <1>5. z = r
    BY <1>1, <1>3, <1>4, SeqEqual
  <1> QED BY <1>5 DEF z

\* Nothing follows the last element.
LEMMA SuffixOfSame ==
    ASSUME NEW S, NEW q \in Seq(S)
    PROVE  SubSeq(q, Len(q) + 1, Len(q)) = <<>>
  BY SubSeqEmpty

-----------------------------------------------------------------------------
(* One place at a time *)

\* Steps that move no event: they may drop what a task or the buffer holds.
LEMMA PlaceStable ==
    ASSUME TypeInv, PlaceInv, Published \subseteq Published', fanned' = fanned,
           \A p \in Publishers : ev'[p] \in {ev[p], None},
           \A t \in Tasks : batch'[t] \in {batch[t], <<>>},
           \A k \in Kinds : buffer'[k] \in {buffer[k], <<>>}
    PROVE  PlaceInv'
  <1>1. /\ \A t \in Tasks : Elems(batch[t]) \subseteq Events
        /\ \A k \in Kinds : Elems(buffer[k]) \subseteq Events
        /\ fanned \subseteq Events
    BY ElemsType DEF TypeInv, TypeOK
  <1>2. None \notin Events
    BY ConstantsAssumption
  <1>3. /\ \A t \in Tasks : /\ Elems(batch'[t]) \subseteq Elems(batch[t])
                            /\ Distinct(batch[t]) => Distinct(batch'[t])
        /\ \A k \in Kinds : /\ Elems(buffer'[k]) \subseteq Elems(buffer[k])
                            /\ Distinct(buffer[k]) => Distinct(buffer'[k])
    BY ElemsEmpty, DistinctEmpty
  <1>4. /\ \A p \in Publishers, t \in Tasks : ev'[p] \notin Elems(batch'[t])
        /\ \A p \in Publishers, k \in Kinds : ev'[p] \notin Elems(buffer'[k])
        /\ \A p \in Publishers : ev'[p] \notin fanned
    <2>1. ASSUME NEW p \in Publishers, ev'[p] = ev[p]
          PROVE  /\ \A t \in Tasks : ev'[p] \notin Elems(batch'[t])
                 /\ \A k \in Kinds : ev'[p] \notin Elems(buffer'[k])
                 /\ ev'[p] \notin fanned
      BY <1>3, <2>1 DEF PlaceInv
    <2>2. ASSUME NEW p \in Publishers, ev'[p] = None
          PROVE  /\ \A t \in Tasks : ev'[p] \notin Elems(batch'[t])
                 /\ \A k \in Kinds : ev'[p] \notin Elems(buffer'[k])
                 /\ ev'[p] \notin fanned
      BY <1>1, <1>2, <1>3, <2>2
    <2> QED BY <2>1, <2>2
  <1>5. /\ \A t \in Tasks : Elems(batch'[t]) = Elems(batch[t])'
        /\ \A k \in Kinds : Elems(buffer'[k]) = Elems(buffer[k])'
        /\ \A t \in Tasks : Distinct(batch'[t]) = Distinct(batch[t])'
        /\ \A k \in Kinds : Distinct(buffer'[k]) = Distinct(buffer[k])'
    BY DEF Elems, Distinct
  <1> QED BY <1>3, <1>4, <1>5 DEF PlaceInv

\* A fan-out moves events from their place to fanned.
LEMMA PlaceFan ==
    ASSUME TypeInv, PlaceInv, Published' = Published, buffer' = buffer,
           NEW d \in Seq(Events), fanned' = fanned \cup Elems(d),
           Elems(d) \subseteq Published,
           \A p \in Publishers : ev'[p] \in {ev[p], None} /\ ev'[p] \notin Elems(d),
           \A t \in Tasks : /\ batch'[t] \in {batch[t], <<>>}
                            /\ Elems(batch'[t]) \cap Elems(d) = {},
           \A k \in Kinds : Elems(buffer[k]) \cap Elems(d) = {}
    PROVE  PlaceInv'
  <1>1. /\ \A t \in Tasks : Elems(batch[t]) \subseteq Events
        /\ \A k \in Kinds : Elems(buffer[k]) \subseteq Events
        /\ fanned \subseteq Events /\ None \notin Events
    BY ElemsType, ConstantsAssumption DEF TypeInv, TypeOK
  <1>2. \A t \in Tasks : /\ Elems(batch'[t]) \subseteq Elems(batch[t])
                         /\ Distinct(batch[t]) => Distinct(batch'[t])
    BY ElemsEmpty, DistinctEmpty
  <1>3. ASSUME NEW p \in Publishers
        PROVE  /\ \A t \in Tasks : ev'[p] \notin Elems(batch'[t])
               /\ \A k \in Kinds : ev'[p] \notin Elems(buffer[k])
               /\ ev'[p] \notin fanned'
    <2>1. CASE ev'[p] = ev[p]
      BY <1>2, <2>1 DEF PlaceInv
    <2>2. CASE ev'[p] = None
      BY <1>1, <1>2, <2>2
    <2> QED BY <2>1, <2>2
  <1>4. /\ \A t \in Tasks : Elems(batch'[t]) = Elems(batch[t])'
        /\ \A k \in Kinds : Elems(buffer'[k]) = Elems(buffer[k])'
        /\ \A t \in Tasks : Distinct(batch'[t]) = Distinct(batch[t])'
        /\ \A k \in Kinds : Distinct(buffer'[k]) = Distinct(buffer[k])'
    BY DEF Elems, Distinct
  <1> QED BY <1>2, <1>3, <1>4 DEF PlaceInv

\* What a fan-out step hands to every active subscription: recorded events,
\* each once, none of them handed out before.
Deals(d) ==
    /\ d \in Seq(Events) /\ Distinct(d) /\ FanOut(d)
    /\ Elems(d) \cap fanned = {} /\ Elems(d) \subseteq Recorded
    /\ Recorded' = Recorded

\* The code after a flush deals the batch, the publisher's own event, or both,
\* and no longer holds what it dealt.
LEMMA ContinueDeals ==
    ASSUME DurInv, PlaceInv, NEW t \in Tasks, NEW rest, NEW q \in {<<>>, batch[t]},
           Continue(t, rest, q), Elems(q) \subseteq Recorded,
           pc[t] \in {"inserted", "flush", "written"}, UNCHANGED <<said, buffer>>,
           UNCHANGED <<dbVars, gone, risk>>
    PROVE  PlaceInv' /\ \E d \in Seq(Events) : Deals(d)
  <1>0. /\ TypeInv /\ EvInv /\ RecInv /\ Recorded' = Recorded
        /\ Published' = Published
        /\ t \in Publishers => ev[t] \in Events \cup {None}
        /\ \A p \in Publishers : ev[p] # None => ev[p] \in Published
        /\ ev \in [Publishers -> Events \cup {None}]
        /\ batch \in [Tasks -> Seq(Events)] /\ inbox \in [Subs -> Seq(Events)]
    BY PublishedUnchanged DEF DurInv, TypeInv, TypeOK, EvInv, Recorded, dbVars
  <1>1. /\ q \in Seq(Events) /\ Distinct(q)
        /\ Elems(q) \subseteq Published /\ Elems(q) \cap fanned = {}
        /\ Elems(q) \subseteq Elems(batch[t])
    <2>1. CASE q = <<>>
      BY <2>1, ElemsEmpty, DistinctEmpty
    <2>2. CASE q = batch[t]
      BY <1>0, <2>2 DEF PlaceInv
    <2> QED BY <2>1, <2>2
  <1>2. /\ \A p \in Publishers : ev[p] \notin Elems(q)
        /\ \A u \in Tasks : u # t => Elems(batch[u]) \cap Elems(q) = {}
        /\ \A k \in Kinds : Elems(buffer[k]) \cap Elems(q) = {}
        /\ None \notin Elems(q)
    <2>1. None \notin Elems(q)
      BY <1>1, ElemsType, ConstantsAssumption
    <2>2. \A p \in Publishers : ev[p] \notin Elems(q)
      BY <1>1 DEF PlaceInv
    <2>3. /\ \A u \in Tasks : u # t => Elems(batch[u]) \cap Elems(q) = {}
          /\ \A k \in Kinds : Elems(buffer[k]) \cap Elems(q) = {}
      BY <1>1 DEF PlaceInv
    <2> QED BY <2>1, <2>2, <2>3
  <1>3. CASE /\ FanOut(q) /\ batch'[t] = <<>>
             /\ \A u \in Tasks : u # t => batch'[u] = batch[u]
             /\ \A p \in Publishers : ev'[p] \in {ev[p], None}
    <2>1. fanned' = fanned \cup Elems(q)
      BY <1>3 DEF FanOut
    <2>2. /\ \A p \in Publishers : ev'[p] \in {ev[p], None} /\ ev'[p] \notin Elems(q)
          /\ \A u \in Tasks : /\ batch'[u] \in {batch[u], <<>>}
                              /\ Elems(batch'[u]) \cap Elems(q) = {}
      BY <1>2, <1>3, ElemsEmpty
    <2>3. PlaceInv'
      BY <1>0, <1>1, <1>2, <2>1, <2>2, PlaceFan
    <2>4. Deals(q)
      BY <1>0, <1>1, <1>3 DEF Deals
    <2> QED BY <1>1, <2>3, <2>4
  <1>4. CASE /\ t \in Publishers /\ ev[t] # None
             /\ FanOut(Append(q, ev[t])) /\ Finish(t)
    <2> DEFINE d == Append(q, ev[t])
    <2>1. /\ ev[t] \in Events /\ ev[t] \in Published /\ ev[t] \in Recorded
          /\ ev[t] \notin fanned
      BY <1>0, <1>4 DEF RecInv, PlaceInv
    <2>2. /\ d \in Seq(Events) /\ Elems(d) = Elems(q) \cup {ev[t]} /\ Distinct(d)
      BY <1>1, <1>2, <2>1, <1>4, ElemsAppend, DistinctAppend
    <2>3. fanned' = fanned \cup Elems(d)
      BY <1>4 DEF FanOut
    <2>4. /\ ev'[t] = None /\ batch'[t] = <<>>
          /\ \A p \in Publishers : p # t => ev'[p] = ev[p]
          /\ \A u \in Tasks : u # t => batch'[u] = batch[u]
      BY <1>0, <1>4 DEF Finish
    <2>5. /\ \A p \in Publishers : p # t => ev[p] # ev[t]
          /\ \A u \in Tasks : ev[t] \notin Elems(batch[u])
          /\ \A k \in Kinds : ev[t] \notin Elems(buffer[k])
      BY <1>0, <1>4 DEF EvInv, PlaceInv
    <2> HIDE DEF d
    <2>6. /\ \A p \in Publishers : ev'[p] \in {ev[p], None} /\ ev'[p] \notin Elems(d)
          /\ \A u \in Tasks : /\ batch'[u] \in {batch[u], <<>>}
                              /\ Elems(batch'[u]) \cap Elems(d) = {}
          /\ \A k \in Kinds : Elems(buffer[k]) \cap Elems(d) = {}
          /\ Elems(d) \subseteq Published
      BY <1>1, <1>2, <1>4, <2>1, <2>2, <2>4, <2>5, ElemsEmpty
    <2>7. PlaceInv'
      BY <1>0, <2>2, <2>3, <2>6, PlaceFan
    <2>8. Deals(d)
      BY <1>0, <1>1, <1>4, <2>1, <2>2 DEF Deals, d
    <2> QED BY <2>2, <2>7, <2>8
  <1>5. CASE FanOut(q) /\ Finish(t)
    BY <1>0, <1>3, <1>5 DEF Finish
  <1>6. CASE FanOut(q) /\ batch' = [batch EXCEPT ![t] = <<>>] /\ UNCHANGED ev
    BY <1>0, <1>3, <1>6
  <1> QED BY <1>4, <1>5, <1>6 DEF Continue

\* The three steps that fan out.
FanSteps == \/ \E p \in Publishers : AfterInsert(p)
            \/ \E t \in Tasks : NothingToFlush(t) \/ AfterWrite(t)

\* Each step that fans out deals a sequence of recorded events that were not
\* fanned out before.
LEMMA FanStepDeals ==
    ASSUME DurInv, PlaceInv, FanSteps
    PROVE  PlaceInv' /\ \E d \in Seq(Events) : Deals(d)
  <1>1. ASSUME NEW p \in Publishers, AfterInsert(p)
        PROVE  PlaceInv' /\ \E d \in Seq(Events) : Deals(d)
    <2>1. /\ p \in Tasks /\ Continue(p, pending, <<>>) /\ pc[p] = "inserted"
          /\ UNCHANGED <<said, buffer>> /\ UNCHANGED <<dbVars, gone, risk>>
      BY <1>1 DEF AfterInsert, Tasks, histVars
    <2> QED BY <2>1, ContinueDeals, ElemsEmpty
  <1>2. ASSUME NEW t \in Tasks, NothingToFlush(t)
        PROVE  PlaceInv' /\ \E d \in Seq(Events) : Deals(d)
    <2>1. \E rest : Continue(t, rest, <<>>)
      BY <1>2 DEF NothingToFlush
    <2>2. /\ pc[t] = "flush"
          /\ UNCHANGED <<said, buffer>> /\ UNCHANGED <<dbVars, gone, risk>>
      BY <1>2 DEF NothingToFlush, histVars
    <2> QED BY <2>1, <2>2, ContinueDeals, ElemsEmpty
  <1>3. ASSUME NEW t \in Tasks, AfterWrite(t)
        PROVE  PlaceInv' /\ \E d \in Seq(Events) : Deals(d)
    <2>1. \E rest : Continue(t, rest, batch[t])
      BY <1>3 DEF AfterWrite
    <2>2. /\ pc[t] = "written"
          /\ UNCHANGED <<said, buffer>> /\ UNCHANGED <<dbVars, gone, risk>>
      BY <1>3 DEF AfterWrite, histVars
    <2>3. Elems(batch[t]) \subseteq Recorded
      BY <2>2 DEF DurInv, RecInv
    <2> QED BY <2>1, <2>2, <2>3, ContinueDeals
  <1> QED BY <1>1, <1>2, <1>3 DEF FanSteps

\* Every step keeps an event in one place.
LEMMA PlaceStep == OnceInv /\ [Next]_vars => PlaceInv'
  <1> SUFFICES ASSUME OnceInv, [Next]_vars PROVE PlaceInv'
    OBVIOUS
  <1>0. /\ DurInv /\ TypeInv /\ TypeOK /\ PcData /\ EvInv /\ PlaceInv
        /\ \A t \in Tasks : batch[t] \in Seq(Events)
        /\ \A k \in Kinds : buffer[k] \in Seq(Events)
        /\ \A p \in Publishers : p \in Tasks
    BY DEF OnceInv, DurInv, TypeInv, TypeOK, Tasks
  <1>1. ASSUME NEW p \in Publishers, NEW e \in Events, Publish(p, e)
        PROVE  PlaceInv'
    <2>1. Published' = Published \cup {e} /\ e \notin Published
      BY <1>0, <1>1, PublishedAdds DEF Publish
    <2>2. /\ UNCHANGED <<batch, buffer, fanned>>
          /\ ev' = [ev EXCEPT ![p] = e]
      BY <1>1 DEF Publish, memVars, subVars
    <2>3. \A r \in Publishers : ev'[r] = IF r = p THEN e ELSE ev[r]
      BY <1>0, <2>2 DEF TypeOK
    <2>4. /\ \A r \in Publishers, t \in Tasks : ev'[r] \notin Elems(batch[t])
          /\ \A r \in Publishers, k \in Kinds : ev'[r] \notin Elems(buffer[k])
          /\ \A r \in Publishers : ev'[r] \notin fanned
      BY <1>0, <2>1, <2>3 DEF PlaceInv
    <2>5. Published \subseteq Published'
      BY <2>1
    <2> QED BY <1>0, <2>2, <2>4, <2>5 DEF PlaceInv
  <1>2. ASSUME NEW p \in Publishers, NEW q \in BulkLists, PublishMany(p, q)
        PROVE  PlaceInv'
    <2>1. /\ q \in Seq(Events) /\ Distinct(q)
          /\ Elems(q) \cap Published = {}
      <3>1. \A n \in 1 .. 2 : [1 .. n -> Events] \subseteq Seq(Events)
        OBVIOUS
      <3>2. q \in Seq(Events)
        BY <3>1 DEF BulkLists
      <3> QED BY <3>2 DEF BulkLists, Distinct, Elems
    <2>2. Published' = Published \cup Elems(q)
      BY <1>0, <1>2, <2>1, PublishedGrows DEF PublishMany
    <2>3. UNCHANGED <<buffer, fanned, ev>> /\ batch' = [batch EXCEPT ![p] = q]
      BY <1>2 DEF PublishMany, memVars, subVars
    <2>4. \A t \in Tasks : batch'[t] = IF t = p THEN q ELSE batch[t]
      BY <1>0, <2>3 DEF TypeOK
    <2>5. \A r \in Publishers : ev[r] \notin Elems(q)
      BY <1>0, <2>1, ElemsType, ConstantsAssumption DEF EvInv
    <2>6. /\ \A t \in Tasks : Elems(batch'[t]) = Elems(batch[t])'
          /\ \A t \in Tasks : Distinct(batch'[t]) = Distinct(batch[t])'
      BY DEF Elems, Distinct
    <2>7. \A t \in Tasks : Distinct(batch'[t]) /\ Elems(batch'[t]) \subseteq Published'
      BY <1>0, <2>1, <2>2, <2>4 DEF PlaceInv
    <2>8. /\ \A k \in Kinds : Distinct(buffer[k]) /\ Elems(buffer[k]) \subseteq Published'
          /\ fanned \subseteq Published'
      BY <1>0, <2>2 DEF PlaceInv
    <2>9. /\ \A t, u \in Tasks : t # u => Elems(batch'[t]) \cap Elems(batch'[u]) = {}
          /\ \A t \in Tasks, k \in Kinds : Elems(batch'[t]) \cap Elems(buffer[k]) = {}
          /\ \A t \in Tasks : Elems(batch'[t]) \cap fanned = {}
          /\ \A r \in Publishers, t \in Tasks : ev[r] \notin Elems(batch'[t])
      <3>1. /\ \A t \in Tasks : Elems(batch[t]) \cap Elems(q) = {}
            /\ \A k \in Kinds : Elems(buffer[k]) \cap Elems(q) = {}
            /\ fanned \cap Elems(q) = {}
        BY <1>0, <2>1 DEF PlaceInv
      <3> QED BY <1>0, <2>4, <2>5, <3>1 DEF PlaceInv
    <2> QED BY <1>0, <2>3, <2>6, <2>7, <2>8, <2>9 DEF PlaceInv
  <1>3. ASSUME NEW p \in Publishers, AppendChunk(p)
        PROVE  PlaceInv'
    <2> DEFINE e == ev[p]
               k == KindOf[e]
    <2>1. /\ e \in Events /\ k \in Kinds /\ e # None /\ e \in Published
      BY <1>0, <1>3, ConstantsAssumption DEF AppendChunk, PcData, Chunks, EvInv
    <2>2. /\ Published' = Published /\ UNCHANGED <<batch, fanned>>
          /\ ev' = [ev EXCEPT ![p] = None]
          /\ buffer' = [buffer EXCEPT ![k] = Append(@, e)]
      BY <1>3, PublishedUnchanged DEF AppendChunk, subVars, histVars
    <2>3. /\ Elems(Append(buffer[k], e)) = Elems(buffer[k]) \cup {e}
          /\ Distinct(Append(buffer[k], e))
      BY <1>0, <2>1, ElemsAppend, DistinctAppend DEF PlaceInv
    <2>4. /\ \A r \in Publishers : ev'[r] = IF r = p THEN None ELSE ev[r]
          /\ \A l \in Kinds : buffer'[l] = IF l = k THEN Append(buffer[l], e) ELSE buffer[l]
      BY <1>0, <2>2 DEF TypeOK
    <2>5. \A l \in Kinds : /\ Elems(buffer'[l]) = Elems(buffer[l])'
                           /\ Distinct(buffer'[l]) = Distinct(buffer[l])'
      BY DEF Elems, Distinct
    <2>6. /\ \A r \in Publishers : r # p => ev[r] # e
          /\ \A t \in Tasks : e \notin Elems(batch[t])
          /\ e \notin fanned
      BY <1>0, <2>1 DEF EvInv, PlaceInv
    <2>7. KindOf[e] = k
      OBVIOUS
    <2> HIDE DEF e, k
    <2>8. \A l \in Kinds : Elems(buffer'[l]) =
             IF l = k THEN Elems(buffer[l]) \cup {e} ELSE Elems(buffer[l])
      BY <2>3, <2>4
    <2>9. /\ \A l \in Kinds : Distinct(buffer'[l]) /\ Elems(buffer'[l]) \subseteq Published
          /\ \A l \in Kinds : \A f \in Elems(buffer'[l]) : KindOf[f] = l
      <3>1. ASSUME NEW l \in Kinds
            PROVE  /\ Distinct(buffer'[l]) /\ Elems(buffer'[l]) \subseteq Published
                   /\ \A f \in Elems(buffer'[l]) : KindOf[f] = l
        <4>1. CASE l = k
          BY <1>0, <2>1, <2>3, <2>4, <2>7, <2>8, <4>1 DEF PlaceInv
        <4>2. CASE l # k
          BY <1>0, <2>4, <4>2 DEF PlaceInv
        <4> QED BY <4>1, <4>2
      <3> QED BY <3>1
    <2>10. /\ \A t \in Tasks, l \in Kinds : Elems(batch[t]) \cap Elems(buffer'[l]) = {}
           /\ \A l \in Kinds : Elems(buffer'[l]) \cap fanned = {}
      <3>1. /\ \A t \in Tasks, l \in Kinds : Elems(batch[t]) \cap Elems(buffer[l]) = {}
            /\ \A l \in Kinds : Elems(buffer[l]) \cap fanned = {}
        BY <1>0 DEF PlaceInv
      <3> QED BY <2>6, <2>8, <3>1
    <2>11. None \notin Events /\ fanned \subseteq Events
           /\ (\A t \in Tasks : Elems(batch[t]) \subseteq Events)
           /\ (\A l \in Kinds : Elems(buffer[l]) \subseteq Events)
      BY <1>0, ElemsType, ConstantsAssumption DEF TypeOK
    <2>12. /\ \A r \in Publishers, t \in Tasks : ev'[r] \notin Elems(batch[t])
           /\ \A r \in Publishers, l \in Kinds : ev'[r] \notin Elems(buffer'[l])
           /\ \A r \in Publishers : ev'[r] \notin fanned
      <3>1. ASSUME NEW r \in Publishers, r # p
            PROVE  /\ \A t \in Tasks : ev[r] \notin Elems(batch[t])
                   /\ \A l \in Kinds : ev[r] \notin Elems(buffer'[l])
                   /\ ev[r] \notin fanned
        <4>1. /\ \A t \in Tasks : ev[r] \notin Elems(batch[t])
              /\ \A l \in Kinds : ev[r] \notin Elems(buffer[l])
              /\ ev[r] \notin fanned /\ ev[r] # e
          BY <1>0, <2>6, <3>1 DEF PlaceInv
        <4> QED BY <2>8, <4>1
      <3>2. /\ \A t \in Tasks : None \notin Elems(batch[t])
            /\ \A l \in Kinds : None \notin Elems(buffer'[l])
            /\ None \notin fanned
        BY <2>1, <2>8, <2>11
      <3> QED BY <2>4, <3>1, <3>2
    <2> QED BY <1>0, <2>2, <2>5, <2>9, <2>10, <2>12 DEF PlaceInv
  <1>4. ASSUME NEW t \in Tasks, TakeBatch(t)
        PROVE  PlaceInv'
    <2> DEFINE k == FlushKind(t)
    <2>1. k \in Kinds
      BY <1>0, <1>4, FlushKindType DEF TakeBatch
    <2>2. /\ Published' = Published /\ UNCHANGED <<ev, fanned>>
          /\ batch' = [batch EXCEPT ![t] = buffer[k]]
          /\ buffer' = [buffer EXCEPT ![k] = <<>>]
      BY <1>4, PublishedUnchanged DEF TakeBatch, subVars, histVars
    <2>3. /\ \A u \in Tasks : batch'[u] = IF u = t THEN buffer[k] ELSE batch[u]
          /\ \A l \in Kinds : buffer'[l] = IF l = k THEN <<>> ELSE buffer[l]
      BY <1>0, <2>2 DEF TypeOK
    <2> HIDE DEF k
    <2>4. /\ \A u \in Tasks : Elems(batch'[u]) = Elems(batch[u])'
          /\ \A l \in Kinds : Elems(buffer'[l]) = Elems(buffer[l])'
          /\ \A u \in Tasks : Distinct(batch'[u]) = Distinct(batch[u])'
          /\ \A l \in Kinds : Distinct(buffer'[l]) = Distinct(buffer[l])'
      BY DEF Elems, Distinct
    <2>5. \A l \in Kinds : l # k => Elems(buffer[l]) \cap Elems(buffer[k]) = {}
      <3>1. ASSUME NEW l \in Kinds, NEW e \in Elems(buffer[l]), e \in Elems(buffer[k])
            PROVE  l = k
        <4>1. KindOf[e] = l
          BY <1>0 DEF PlaceInv
        <4>2. KindOf[e] = k
          BY <1>0, <2>1, <3>1 DEF PlaceInv
        <4> QED BY <4>1, <4>2
      <3> QED BY <3>1
    <2>6. /\ \A u \in Tasks : Distinct(batch'[u]) /\ Elems(batch'[u]) \subseteq Published
          /\ \A l \in Kinds : Distinct(buffer'[l]) /\ Elems(buffer'[l]) \subseteq Published
          /\ \A l \in Kinds : \A e \in Elems(buffer'[l]) : KindOf[e] = l
      BY <1>0, <2>1, <2>3, ElemsEmpty, DistinctEmpty DEF PlaceInv
    <2>7. \A l \in Kinds : Elems(buffer'[l]) =
             IF l = k THEN {} ELSE Elems(buffer[l])
      BY <2>3, ElemsEmpty
    <2>8. \A u \in Tasks : Elems(batch'[u]) =
             IF u = t THEN Elems(buffer[k]) ELSE Elems(batch[u])
      BY <2>3
    <2>9. /\ \A u, v \in Tasks : u # v => Elems(batch'[u]) \cap Elems(batch'[v]) = {}
          /\ \A u \in Tasks, l \in Kinds : Elems(batch'[u]) \cap Elems(buffer'[l]) = {}
          /\ \A u \in Tasks : Elems(batch'[u]) \cap fanned = {}
          /\ \A l \in Kinds : Elems(buffer'[l]) \cap fanned = {}
      BY <1>0, <2>1, <2>5, <2>7, <2>8 DEF PlaceInv
    <2>10. /\ \A p \in Publishers, u \in Tasks : ev[p] \notin Elems(batch'[u])
           /\ \A p \in Publishers, l \in Kinds : ev[p] \notin Elems(buffer'[l])
      BY <1>0, <2>1, <2>7, <2>8 DEF PlaceInv
    <2> QED BY <1>0, <2>2, <2>4, <2>6, <2>9, <2>10 DEF PlaceInv
  <1>5. ASSUME FanSteps
        PROVE  PlaceInv'
    BY <1>0, <1>5, FanStepDeals
  <1>6. ASSUME NEW t \in Tasks,
               \/ Insert(t) /\ t \in Publishers
               \/ InsertFails(t) \/ CommitWrite(t) \/ WriteFails(t)
               \/ Cancel(t) /\ t \in Publishers
        PROVE  PlaceInv'
    <2>1. /\ Finish(t) \/ UNCHANGED <<ev, batch>>
          /\ UNCHANGED <<said, fanned, buffer>>
      BY <1>6 DEF Insert, InsertFails, CommitWrite, WriteFails, Cancel, memVars,
                  subVars, histVars
    <2>2. /\ \A p \in Publishers : ev'[p] \in {ev[p], None}
          /\ \A u \in Tasks : batch'[u] \in {batch[u], <<>>}
      BY <1>0, <2>1 DEF Finish, TypeOK
    <2> QED BY <1>0, <2>1, <2>2, PublishedUnchanged, PlaceStable
  <1>7. ASSUME \/ \E p \in Publishers : StartInsert(p) \/ StartBulk(p)
               \/ \E t \in Tasks : TimerFires(t) \/ BeginWrite(t)
               \/ MaintBegin \/ MaintCommit \/ MaintFails
               \/ \E D \in SUBSET stored : MaintDelete(D)
               \/ \E s \in Subs : Subscribe(s) \/ Unsubscribe(s)
               \/ UNCHANGED vars
        PROVE  PlaceInv'
    <2>1. UNCHANGED <<said, fanned, buffer, ev, batch>>
      BY <1>7 DEF StartInsert, StartBulk, TimerFires, BeginWrite, MaintBegin,
                  MaintCommit, MaintFails, MaintDelete, Subscribe, Unsubscribe,
                  coVars, memVars, subVars, histVars, vars
    <2> QED BY <1>0, <2>1, PublishedUnchanged, PlaceStable
  <1>8. ASSUME Close
        PROVE  PlaceInv'
    <2>1. /\ UNCHANGED <<said, fanned, buffer, ev>>
          /\ \A t \in Tasks : batch'[t] \in {batch[t], <<>>}
      BY <1>8 DEF Close, subVars
    <2> QED BY <1>0, <2>1, PublishedUnchanged, PlaceStable
  <1>9. ASSUME Crash
        PROVE  PlaceInv'
    <2>1. /\ UNCHANGED <<said, fanned>>
          /\ \A p \in Publishers : ev'[p] = None
          /\ \A t \in Tasks : batch'[t] = <<>>
          /\ \A k \in Kinds : buffer'[k] = <<>>
      BY <1>9 DEF Crash
    <2> QED BY <1>0, <2>1, PublishedUnchanged, PlaceStable
  <1>10. \A p \in Publishers : p \in Tasks
    BY DEF Tasks
  <1> QED
    BY <1>1, <1>2, <1>3, <1>4, <1>5, <1>6, <1>7, <1>8, <1>9, <1>10
       DEF Next, PublisherStep, TaskStep, Quiet, FanSteps

-----------------------------------------------------------------------------
(* Each once *)

\* Only the three fan-out steps touch an inbox or fanned.
LEMMA NoFan ==
    ASSUME [Next]_vars, ~FanSteps
    PROVE  UNCHANGED <<inbox, fanned>>
  BY DEF Next, PublisherStep, TaskStep, FanSteps, Publish, PublishMany,
         AppendChunk, StartInsert, StartBulk, Insert, InsertFails, Cancel,
         TimerFires, TakeBatch, BeginWrite, CommitWrite, WriteFails, MaintBegin,
         MaintDelete, MaintCommit, MaintFails, Subscribe, Unsubscribe, Close,
         Crash, Quiet, vars, subVars

\* What was dealt before is in fanned, so a deal repeats nothing.
LEMMA OnceStep == OnceInv /\ [Next]_vars => HandledOnce'
  <1> SUFFICES ASSUME OnceInv, [Next]_vars PROVE HandledOnce'
    OBVIOUS
  <1>0. /\ \A s \in Subs : Distinct(inbox[s]) /\ Elems(inbox[s]) \subseteq fanned
        /\ inbox \in [Subs -> Seq(Events)]
    BY DEF OnceInv, HandledOnce, Distinct, DurInv, RecInv, Seen, TypeInv, TypeOK
  <1>1. SUFFICES ASSUME NEW s \in Subs PROVE Distinct(inbox'[s])
    BY DEF HandledOnce, Distinct
  <1>2. CASE UNCHANGED <<inbox, fanned>>
    BY <1>0, <1>2
  <1>3. CASE FanSteps
    <2>1. PICK d \in Seq(Events) : Deals(d)
      BY <1>3, FanStepDeals DEF OnceInv
    <2>2. inbox'[s] = IF s \in active THEN inbox[s] \o d ELSE inbox[s]
      BY <2>1 DEF Deals, FanOut
    <2>3. /\ Distinct(d) /\ Elems(inbox[s]) \cap Elems(d) = {}
          /\ inbox[s] \in Seq(Events) /\ Distinct(inbox[s])
      BY <1>0, <2>1 DEF Deals
    <2>4. Distinct(inbox[s] \o d)
      BY <2>1, <2>3, DistinctConcat
    <2> QED BY <2>2, <2>3, <2>4
  <1> QED BY <1>2, <1>3, NoFan

\* The invariant holds at the start: there are no events anywhere.
LEMMA OnceInit == Init => OnceInv
  <1> SUFFICES ASSUME Init PROVE OnceInv
    OBVIOUS
  <1>1. DurInv
    BY DurInit
  <1>2. /\ \A t \in Tasks : batch[t] = <<>>
        /\ \A k \in Kinds : buffer[k] = <<>>
        /\ \A s \in Subs : inbox[s] = <<>>
        /\ fanned = {}
    BY DEF Init
  <1>3. PlaceInv
    BY <1>2, ElemsEmpty, DistinctEmpty DEF PlaceInv
  <1>4. HandledOnce
    BY <1>2 DEF HandledOnce
  <1> QED BY <1>1, <1>3, <1>4 DEF OnceInv

\* For all constants an event is in one place at a time (carried, buffered, in
\* one batch, or fanned out), however publishes, timers and faults interleave.
THEOREM OncePlaced == Spec => []OnceInv
  <1>1. OnceInv /\ [Next]_vars => OnceInv'
    BY DurStep, PlaceStep, OnceStep DEF OnceInv
  <1> QED BY OnceInit, <1>1, PTL DEF Spec

\* Two flushes of one kind, a retried or cancelled flush, or a draining publisher
\* racing the timer never hand the same event to a handler twice.
THEOREM NeverTwice == Spec => []HandledOnce
  <1>1. OnceInv => HandledOnce
    BY DEF OnceInv
  <1> QED BY <1>1, OncePlaced, PTL

-----------------------------------------------------------------------------
(* EventBus implements EventLog *)

\* A deal is the abstract Announce.
LEMMA DealAnnounces ==
    ASSUME OnceInv, NEW d \in Seq(Events), Deals(d)
    PROVE  Log!Announce
  <1>0. inbox \in [Subs -> Seq(Events)] /\ active \subseteq Subs /\ fanned \subseteq Recorded
    BY DEF OnceInv, DurInv, TypeInv, TypeOK, RecInv
  <1>1. /\ fanned' = fanned \cup Elems(d)
        /\ Elems(d) \cap fanned = {} /\ Elems(d) \subseteq Recorded
        /\ Recorded' = Recorded /\ active' = active
        /\ \A s \in Subs : inbox'[s] = IF s \in active THEN inbox[s] \o d ELSE inbox[s]
    BY DEF Deals, FanOut
  <1>2. Log!Injective(d) /\ Log!Injective(<<>>)
    BY DEF Deals, Distinct, Log!Injective
  <1>3. Log!Elems(d) = Elems(d) /\ Log!Elems(<<>>) = {}
    BY DEF Elems, Log!Elems
  <1>4. \A s \in Subs : Log!New(s) = IF s \in active THEN d ELSE <<>>
    <2>1. ASSUME NEW s \in Subs, s \in active
          PROVE  Log!New(s) = d
      <3>1. inbox'[s] = inbox[s] \o d /\ inbox[s] \in Seq(Events)
        BY <1>0, <1>1, <2>1
      <3>2. SubSeq(inbox[s] \o d, Len(inbox[s]) + 1, Len(inbox[s] \o d)) = d
        BY <3>1, SuffixOfConcat
      <3> QED BY <3>1, <3>2 DEF Log!New
    <2>2. ASSUME NEW s \in Subs, s \notin active
          PROVE  Log!New(s) = <<>>
      BY <1>0, <1>1, <2>2, SuffixOfSame DEF Log!New
    <2> QED BY <2>1, <2>2
  <1>5. \A s \in Subs : inbox'[s] = inbox[s] \o Log!New(s)
    BY <1>0, <1>1, <1>4, ConcatEmptySeq
  <1>6. fanned' \ fanned = Elems(d)
    BY <1>1
  <1>7. /\ \A s \in Subs : Log!Injective(Log!New(s))
        /\ \A s \in Subs : Log!Elems(Log!New(s)) = IF s \in active THEN fanned' \ fanned ELSE {}
        /\ \A r, s \in active : Log!New(r) = Log!New(s)
    BY <1>0, <1>2, <1>3, <1>4, <1>6
  <1>8. fanned \subseteq fanned' /\ fanned' \subseteq Recorded
    BY <1>0, <1>1
  <1> QED BY <1>1, <1>5, <1>7, <1>8 DEF Log!Announce

\* Every step of the bus is a step of the log, or none.
LEMMA LogStep == OnceInv /\ TypeInv' /\ [Next]_vars => [Log!Next]_(Log!logVars)
  <1> SUFFICES ASSUME OnceInv, TypeInv', [Next]_vars
               PROVE  Log!Next \/ UNCHANGED Log!logVars
    OBVIOUS
  <1>0. TypeInv /\ TxnInv /\ DurInv /\ PlaceInv
    BY DEF OnceInv, DurInv
  <1>1. CASE FanSteps
    <2>1. PICK d \in Seq(Events) : Deals(d)
      BY <1>0, <1>1, FanStepDeals
    <2>2. Log!Announce
      BY <2>1, DealAnnounces
    <2> QED BY <2>2 DEF Log!Next
  <1>2. CASE ~FanSteps /\ active' = active
    <2>1. UNCHANGED <<inbox, fanned>>
      BY <1>2, NoFan
    <2>2. Recorded \subseteq Recorded'
      BY <1>0, RecordedGrows
    <2>3. Recorded' \subseteq Events
      BY DEF TypeInv, TypeOK, Recorded
    <2>4. Log!Record
      BY <1>2, <2>1, <2>2, <2>3 DEF Log!Record
    <2> QED BY <2>4 DEF Log!Next
  <1>3. CASE ~FanSteps /\ active' # active
    <2>1. UNCHANGED <<inbox, fanned>>
      BY <1>3, NoFan
    <2>2. UNCHANGED <<durable, gone, risk>>
      BY <1>3 DEF Next, PublisherStep, TaskStep, FanSteps, Publish, PublishMany,
         AppendChunk, StartInsert, StartBulk, Insert, InsertFails, Cancel,
         TimerFires, TakeBatch, BeginWrite, CommitWrite, WriteFails, MaintBegin,
         MaintDelete, MaintCommit, MaintFails, Subscribe, Unsubscribe, Close,
         Crash, Quiet, vars, subVars, dbVars, histVars
    <2>3. active' \in SUBSET Subs
      BY DEF TypeInv, TypeOK
    <2>4. Log!Subscriptions
      BY <2>1, <2>2, <2>3 DEF Log!Subscriptions, Recorded
    <2> QED BY <2>4 DEF Log!Next
  <1> QED BY <1>1, <1>2, <1>3

\* SqliteEventBus, with its write-behind buffer, its lock and its transactions,
\* behaves like a log that only grows and subscribers that follow it.
THEOREM Refinement == Spec => LogSpec
  <1>1. Init => Log!Init
    BY DEF Init, Log!Init, Recorded
  <1>2. OnceInv => TypeInv
    BY DEF OnceInv, DurInv
  <1> QED BY <1>1, <1>2, LogStep, OncePlaced, PTL DEF Spec, LogSpec, Log!Spec

-----------------------------------------------------------------------------
(* Nothing goes wrong unless a fault happened *)

\* Threads without a coroutine come from cancellation, a transaction outside
\* the lock from maintenance, a closed connection from close, and a lost chunk
\* from one of the faults.
CauseInv ==
    /\ used["cancel"] = 0 => \A t \in Tasks : pc[t] \notin Orphan
    /\ used["maint"] = 0 => maint = "idle"
    /\ used["close"] = 0 => up
    /\ RiskHasCause
    /\ (\A f \in Faults : used[f] = 0) => lost = {}

\* A fault that happened is counted, and no counter goes back to zero.
LEMMA SpendCounts ==
    ASSUME TypeOK, NEW f \in Faults, Spend(f)
    PROVE  /\ used'[f] # 0
           /\ \A g \in Faults : used'[g] = 0 => used[g] = 0
  BY DEF TypeOK, Spend

\* Steps that put no event at risk and lose none without a fault.
LEMMA CauseStable ==
    ASSUME CauseInv, risk' = risk,
           \A g \in Faults : used'[g] = 0 => used[g] = 0,
           used'["cancel"] = 0 =>
              \A t \in Tasks : pc'[t] \in Orphan => pc[t] \in Orphan,
           maint' \in {maint, "idle"} \/ used'["maint"] # 0,
           up' \in {up, TRUE} \/ used'["close"] # 0,
           lost' = lost \/ \E g \in Faults : used'[g] # 0
    PROVE  CauseInv'
  BY DEF CauseInv, RiskHasCause, Faults

\* Without maintenance and cancellation the writer that holds the lock finds
\* no transaction open.
LEMMA NoForeignTxn ==
    ASSUME DurInv, CauseInv, used["cancel"] = 0, used["maint"] = 0,
           NEW t \in Tasks, pc[t] \in {"insert", "orphanInsert", "begin", "orphanBegin"}
    PROVE  txn = None
  <1>0. /\ TypeOK /\ LockOwned /\ TxnInv /\ pc[t] \notin Orphan /\ maint = "idle"
        /\ Maint \notin Tasks \cup {None}
    BY ConstantsAssumption DEF DurInv, TypeInv, CauseInv
  <1>1. lock = t
    BY <1>0 DEF LockOwned, Holding, Orphan
  <1>2. txn \in Tasks => pc[txn] = "commit" /\ lock = txn
    BY <1>0 DEF TxnInv, LockOwned, Holding, CauseInv, Orphan
  <1> QED BY <1>0, <1>1, <1>2 DEF TypeOK, TxnInv

\* Every step keeps CauseInv: no event joins a foreign transaction, and no chunk
\* is lost, unless a fault happened before.
LEMMA CauseStep == DurInv /\ CauseInv /\ [Next]_vars => CauseInv'
  <1> SUFFICES ASSUME DurInv, CauseInv, [Next]_vars PROVE CauseInv'
    OBVIOUS
  <1>0. /\ TypeInv /\ TypeOK /\ PcData /\ EvInv /\ LockOwned /\ TxnInv
        /\ CoType
        /\ \A p \in Publishers : p \in Tasks
    BY DEF DurInv, TypeInv, TypeOK, CoType, Tasks
  <1>1. {"crash", "fail", "cancel", "maint", "close"} = Faults
    BY DEF Faults
  <1>2. ASSUME NEW p \in Publishers,
               \/ \E e \in Events : Publish(p, e)
               \/ \E q \in BulkLists : PublishMany(p, q)
               \/ StartInsert(p) \/ StartBulk(p)
        PROVE  CauseInv'
    <2>1. UNCHANGED <<used, risk, lost, up, maint>>
      BY <1>2 DEF Publish, PublishMany, StartInsert, StartBulk, dbVars, histVars
    <2>2. \E x \in Waiting \cup Holding : pc' = [pc EXCEPT ![p] = x]
      BY <1>2 DEF Publish, PublishMany, StartInsert, StartBulk, Waiting, Holding
    <2>3. \A t \in Tasks : pc'[t] \in Orphan => pc[t] \in Orphan
      BY <1>0, <2>2 DEF CoType, Waiting, Holding, Orphan
    <2> QED BY <2>1, <2>3, CauseStable
  <1>3. ASSUME NEW p \in Publishers, AppendChunk(p)
        PROVE  CauseInv'
    <2>1. UNCHANGED <<used, risk, lost, up, maint>>
      BY <1>3 DEF AppendChunk, dbVars, histVars
    <2>2. ev[p] \in Tasks
      BY <1>0, <1>3 DEF AppendChunk, PcData, Tasks
    <2>3. \A t \in Tasks : pc'[t] \in {pc[t], "idle", "asleep"}
      BY <1>0, <1>3, <2>2 DEF AppendChunk, CoType
    <2> QED BY <2>1, <2>3, CauseStable DEF Orphan
  <1>4. ASSUME NEW p \in Publishers, Insert(p)
        PROVE  CauseInv'
    <2>1. UNCHANGED <<used, lost, up, maint>>
      BY <1>4 DEF Insert
    <2>2. \A t \in Tasks : pc'[t] \in {pc[t], "inserted", "idle"}
      BY <1>0, <1>4 DEF Insert, Finish, CoType
    <2>3. used["maint"] = 0 /\ used["cancel"] = 0 => risk' = risk
      BY <1>0, <1>4, NoForeignTxn DEF Insert
    <2> QED BY <2>1, <2>2, <2>3 DEF CauseInv, RiskHasCause, Orphan
  <1>5. ASSUME NEW p \in Publishers, InsertFails(p)
        PROVE  CauseInv'
    <2>1. UNCHANGED <<risk, lost, up, maint>>
      BY <1>5 DEF InsertFails, dbVars
    <2>2. \A t \in Tasks : pc'[t] \in {pc[t], "idle"}
      BY <1>0, <1>5 DEF InsertFails, Finish, CoType
    <2>3. \A g \in Faults : used'[g] = 0 => used[g] = 0
      BY <1>0, <1>1, <1>5, SpendCounts DEF InsertFails
    <2> QED BY <2>1, <2>2, <2>3, CauseStable DEF Orphan
  <1>6. ASSUME NEW t \in Tasks,
               \/ AfterInsert(t) \/ NothingToFlush(t) \/ AfterWrite(t)
        PROVE  CauseInv'
    <2>1. UNCHANGED <<used, risk, lost, up, maint>>
      BY <1>6 DEF AfterInsert, NothingToFlush, AfterWrite, dbVars, histVars
    <2>2. \E x \in {"idle", "flush"} : pc' = [pc EXCEPT ![t] = x]
      BY <1>6, ContinueCases DEF AfterInsert, NothingToFlush, AfterWrite, Finish
    <2>3. \A u \in Tasks : pc'[u] \in {pc[u], "idle", "flush"}
      BY <1>0, <2>2 DEF CoType
    <2> QED BY <2>1, <2>3, CauseStable DEF Orphan
  <1>7. ASSUME NEW t \in Tasks,
               TimerFires(t) \/ TakeBatch(t) \/ BeginWrite(t) \/ CommitWrite(t)
        PROVE  CauseInv'
    <2>1. UNCHANGED <<used, risk, lost, up, maint>>
      BY <1>7 DEF TimerFires, TakeBatch, BeginWrite, CommitWrite, dbVars, histVars
    <2>2. \E x \in {"flush", "begin", "commit", "orphanCommit", "written", "idle"} :
             /\ pc' = [pc EXCEPT ![t] = x]
             /\ x = "orphanCommit" => pc[t] = "orphanBegin"
      BY <1>0, <1>7 DEF TimerFires, TakeBatch, BeginWrite, CommitWrite, Finish
    <2>3. \A u \in Tasks : pc'[u] \in Orphan => pc[u] \in Orphan
      BY <1>0, <2>2 DEF CoType, Orphan
    <2> QED BY <2>1, <2>3, CauseStable
  <1>8. ASSUME NEW t \in Tasks, WriteFails(t)
        PROVE  CauseInv'
    <2>1. UNCHANGED <<risk, up, maint>>
      BY <1>8 DEF WriteFails
    <2>2. \A u \in Tasks : pc'[u] \in {pc[u], "idle"}
      BY <1>0, <1>8 DEF WriteFails, Finish, CoType
    <2>3. \A g \in Faults : used'[g] = 0 => used[g] = 0
      BY <1>0, <1>1, <1>8, SpendCounts DEF WriteFails
    <2>4. \E g \in Faults : used'[g] # 0
      <3>1. CASE Spend("fail")
        BY <1>0, <1>1, <3>1, SpendCounts
      <3>2. CASE ~up /\ UNCHANGED used
        BY <1>1, <3>2 DEF CauseInv
      <3>3. CASE pc[t] \in {"begin", "orphanBegin"} /\ txn # None /\ UNCHANGED used
        BY <1>1, <3>3, NoForeignTxn
      <3> QED BY <1>8, <3>1, <3>2, <3>3 DEF WriteFails
    <2> QED BY <2>1, <2>2, <2>3, <2>4, CauseStable DEF Orphan
  <1>9. ASSUME NEW p \in Publishers, Cancel(p)
        PROVE  CauseInv'
    <2>1. UNCHANGED <<risk, up, maint>> /\ Spend("cancel")
      BY <1>9 DEF Cancel, dbVars
    <2>2. /\ \A g \in Faults : used'[g] = 0 => used[g] = 0
          /\ used'["cancel"] # 0
      BY <1>0, <1>1, <2>1, SpendCounts
    <2> QED BY <1>1, <2>1, <2>2, CauseStable
  <1>10. ASSUME \/ MaintBegin \/ MaintCommit \/ MaintFails
                \/ \E D \in SUBSET stored : MaintDelete(D)
         PROVE  CauseInv'
    <2>1. /\ UNCHANGED <<risk, lost, pc, up>>
          /\ \/ maint' = "idle" \/ Spend("maint")
             \/ maint' = "deleted" /\ maint = "begun"
          /\ UNCHANGED used \/ Spend("maint") \/ Spend("fail")
      BY <1>10 DEF MaintBegin, MaintCommit, MaintFails, MaintDelete, coVars, histVars
    <2>2. \A g \in Faults : used'[g] = 0 => used[g] = 0
      BY <1>0, <1>1, <2>1, SpendCounts
    <2>3. maint' \in {maint, "idle"} \/ used'["maint"] # 0
      BY <1>0, <1>1, <2>1, <2>2, SpendCounts DEF CauseInv
    <2> QED BY <2>1, <2>2, <2>3, CauseStable
  <1>11. ASSUME (\E s \in Subs : Subscribe(s) \/ Unsubscribe(s)) \/ UNCHANGED vars
         PROVE  CauseInv'
    <2>1. UNCHANGED <<pc, used, risk, lost, up, maint>>
      BY <1>11 DEF Subscribe, Unsubscribe, coVars, dbVars, histVars, vars
    <2> QED BY <2>1, CauseStable
  <1>12. ASSUME Close \/ Crash
         PROVE  CauseInv'
    <2>1. \/ Spend("close")
          \/ Spend("crash") /\ up' = TRUE
      BY <1>12 DEF Close, Crash
    <2>2. /\ \A g \in Faults : used'[g] = 0 => used[g] = 0
          /\ \E g \in Faults : used'[g] # 0
          /\ up' \in {up, TRUE} \/ used'["close"] # 0
      BY <1>0, <1>1, <2>1, SpendCounts
    <2>3. /\ \A t \in Tasks : pc'[t] \in {pc[t], "idle"}
          /\ risk' = risk /\ maint' = "idle"
      BY <1>12 DEF Close, Crash
    <2> QED BY <2>2, <2>3, CauseStable DEF Orphan
  <1> QED
    BY <1>2, <1>3, <1>4, <1>5, <1>6, <1>7, <1>8, <1>9, <1>10, <1>11, <1>12
       DEF Next, PublisherStep, TaskStep, Quiet, Tasks

-----------------------------------------------------------------------------
(* A buffered chunk has a timer *)

\* A kind is marked pending exactly while its buffer holds a chunk, and until
\* close a timer of that kind is alive meanwhile.
TimerInv ==
    /\ \A k \in Kinds : k \in pending <=> buffer[k] # <<>>
    /\ used["close"] = 0 => \A k \in Kinds : buffer[k] # <<>> =>
          \E t \in Chunks : KindOf[t] = k /\ pc[t] \in {"asleep", "flush"}

\* Steps that leave the buffers alone and end no waiting timer.
LEMMA TimerStable ==
    ASSUME TypeOK, TimerInv, UNCHANGED <<buffer, pending>>,
           used'["close"] = 0 => used["close"] = 0,
           \A t \in Chunks : pc[t] \in {"asleep", "flush"} => pc'[t] \in {"asleep", "flush"}
    PROVE  TimerInv'
  BY DEF TimerInv

\* A step of a publisher outside the handover of a chunk, or of a task that is
\* not about to flush, is of that sort.
LEMMA TimerMove ==
    ASSUME TypeOK, TimerInv, UNCHANGED <<buffer, pending>>,
           used'["close"] = 0 => used["close"] = 0,
           NEW t \in Tasks, t \in Publishers \/ pc[t] \notin {"asleep", "flush"},
           NEW x, pc' = [pc EXCEPT ![t] = x]
    PROVE  TimerInv'
  <1>1. \A u \in Chunks : u \in Tasks /\ u \notin Publishers
    BY ConstantsAssumption DEF Tasks, Chunks
  <1>2. \A u \in Chunks : pc[u] \in {"asleep", "flush"} => pc'[u] = pc[u]
    BY <1>1 DEF TypeOK
  <1> QED BY <1>2, TimerStable

\* Emptying the buffer of a kind and its mark together.
LEMMA TimerTake ==
    ASSUME TypeOK, TimerInv, NEW k \in Kinds, NEW t \in Tasks, NEW x,
           pc[t] = "flush", FlushKind(t) = k, pc' = [pc EXCEPT ![t] = x],
           pending' = pending \ {k}, buffer' = [buffer EXCEPT ![k] = <<>>],
           UNCHANGED used
    PROVE  TimerInv'
  <1>1. \A l \in Kinds : buffer'[l] = IF l = k THEN <<>> ELSE buffer[l]
    BY DEF TypeOK
  <1>2. \A u \in Chunks : KindOf[u] # k => u # t
    BY DEF FlushKind
  <1>3. \A u \in Chunks : u # t => pc'[u] = pc[u]
    BY DEF TypeOK, Tasks
  <1> QED BY <1>1, <1>2, <1>3 DEF TimerInv

\* Every step keeps TimerInv: the flush empties the buffer in the step that
\* ends the timer's wait, so the next chunk of the kind arms a new one.
LEMMA TimerStep == TypeInv /\ EvInv /\ TimerInv /\ [Next]_vars => TimerInv'
  <1> SUFFICES ASSUME TypeInv, EvInv, TimerInv, [Next]_vars PROVE TimerInv'
    OBVIOUS
  <1>0. /\ TypeOK /\ PcData /\ CoType /\ "close" \in Faults /\ "fail" \in Faults
        /\ "cancel" \in Faults /\ "maint" \in Faults
        /\ \A p \in Publishers : p \in Tasks
    BY DEF TypeInv, TypeOK, CoType, Tasks, Faults
  <1>1. ASSUME NEW p \in Publishers,
               \/ \E e \in Events : Publish(p, e)
               \/ \E q \in BulkLists : PublishMany(p, q)
               \/ StartInsert(p) \/ StartBulk(p)
        PROVE  TimerInv'
    <2>1. /\ UNCHANGED <<used, buffer, pending>>
          /\ \E x : pc' = [pc EXCEPT ![p] = x]
      BY <1>1 DEF Publish, PublishMany, StartInsert, StartBulk, memVars, histVars
    <2> QED BY <1>0, <2>1, TimerMove
  <1>2. ASSUME NEW p \in Publishers, AppendChunk(p)
        PROVE  TimerInv'
    <2> DEFINE e == ev[p]
               k == KindOf[e]
    <2>1. /\ e \in Chunks /\ k \in Kinds /\ pc[e] = "idle" /\ e # p /\ e \in Tasks
          /\ p \notin Chunks /\ p \in Tasks
      BY <1>0, <1>2, ConstantsAssumption DEF AppendChunk, PcData, EvInv, Chunks, Tasks
    <2>2. /\ buffer' = [buffer EXCEPT ![k] = Append(@, e)]
          /\ pending' = pending \cup {k}
          /\ pc' = [pc EXCEPT ![p] = "idle",
                              ![e] = IF k \in pending THEN @ ELSE "asleep"]
          /\ used' = used
      BY <1>2 DEF AppendChunk, histVars
    <2>3. KindOf[e] = k
      OBVIOUS
    <2> HIDE DEF e, k
    <2>4. \A l \in Kinds : buffer'[l] = IF l = k THEN Append(buffer[k], e) ELSE buffer[l]
      BY <1>0, <2>1, <2>2 DEF TypeOK
    <2>5. Append(buffer[k], e) # <<>>
      <3>1. buffer[k] \in Seq(Events) /\ e \in Events
        BY <1>0, <2>1 DEF TypeOK, Chunks
      <3> QED BY <3>1, AppendProperties
    <2>6. \A t \in Chunks : pc'[t] = IF t = e /\ k \notin pending THEN "asleep" ELSE pc[t]
      BY <1>0, <2>1, <2>2 DEF CoType, Tasks
    <2>7. \A l \in Kinds : l \in pending' <=> buffer'[l] # <<>>
      BY <2>2, <2>4, <2>5 DEF TimerInv
    <2>8. ASSUME NEW l \in Kinds, buffer'[l] # <<>>, used["close"] = 0
          PROVE  \E t \in Chunks : KindOf[t] = l /\ pc'[t] \in {"asleep", "flush"}
      <3>1. CASE l = k /\ k \notin pending
        BY <2>1, <2>3, <2>6, <3>1
      <3>2. CASE l # k \/ k \in pending
        <4>1. buffer[l] # <<>>
          BY <2>4, <2>8, <3>2 DEF TimerInv
        <4>2. PICK t \in Chunks : KindOf[t] = l /\ pc[t] \in {"asleep", "flush"}
          BY <2>8, <4>1 DEF TimerInv
        <4> QED BY <2>1, <2>6, <4>2
      <3> QED BY <3>1, <3>2
    <2> QED BY <2>2, <2>7, <2>8 DEF TimerInv
  <1>3. ASSUME NEW p \in Publishers,
               Insert(p) \/ InsertFails(p) \/ AfterInsert(p) \/ Cancel(p)
        PROVE  TimerInv'
    <2>1. /\ UNCHANGED <<buffer, pending>>
          /\ UNCHANGED used \/ Spend("fail") \/ Spend("cancel")
      BY <1>3 DEF Insert, InsertFails, AfterInsert, Cancel, memVars, histVars
    <2>2. used'["close"] = 0 => used["close"] = 0
      BY <1>0, <2>1, SpendCounts
    <2>3. \E x : pc' = [pc EXCEPT ![p] = x]
      BY <1>0, <1>3, ContinueCases DEF Insert, InsertFails, AfterInsert, Cancel, Finish
    <2> QED BY <1>0, <2>1, <2>2, <2>3, TimerMove
  <1>4. ASSUME NEW t \in Tasks, TimerFires(t)
        PROVE  TimerInv'
    <2>1. /\ UNCHANGED <<used, buffer, pending>>
          /\ \A u \in Chunks : pc'[u] \in {pc[u], "flush"}
      BY <1>0, <1>4 DEF TimerFires, memVars, histVars, CoType, Tasks
    <2> QED BY <1>0, <2>1, TimerStable
  <1>5. ASSUME NEW t \in Tasks, TakeBatch(t)
        PROVE  TimerInv'
    <2>1. FlushKind(t) \in Kinds
      BY <1>0, <1>5, FlushKindType DEF TakeBatch
    <2> QED BY <1>0, <1>5, <2>1, TimerTake DEF TakeBatch, histVars
  <1>6. ASSUME NEW t \in Tasks, NothingToFlush(t)
        PROVE  TimerInv'
    <2>1. FlushKind(t) \in Kinds /\ buffer[FlushKind(t)] = <<>>
      BY <1>0, <1>6, FlushKindType DEF NothingToFlush
    <2>2. buffer' = [buffer EXCEPT ![FlushKind(t)] = <<>>]
      BY <1>0, <1>6, <2>1 DEF NothingToFlush, TypeOK
    <2>3. \E x : pc' = [pc EXCEPT ![t] = x]
      BY <1>6, ContinueCases DEF NothingToFlush, Finish
    <2> QED BY <1>0, <1>6, <2>1, <2>2, <2>3, TimerTake DEF NothingToFlush, histVars
  <1>7. ASSUME NEW t \in Tasks,
               BeginWrite(t) \/ CommitWrite(t) \/ WriteFails(t) \/ AfterWrite(t)
        PROVE  TimerInv'
    <2>1. /\ UNCHANGED <<buffer, pending>>
          /\ UNCHANGED used \/ Spend("fail")
          /\ pc[t] \notin {"asleep", "flush"}
      BY <1>7 DEF BeginWrite, CommitWrite, WriteFails, AfterWrite, memVars, histVars
    <2>2. used'["close"] = 0 => used["close"] = 0
      BY <1>0, <2>1, SpendCounts
    <2>3. \E x : pc' = [pc EXCEPT ![t] = x]
      BY <1>7, ContinueCases DEF BeginWrite, CommitWrite, WriteFails, AfterWrite, Finish
    <2> QED BY <1>0, <2>1, <2>2, <2>3, TimerMove
  <1>8. ASSUME \/ MaintBegin \/ MaintCommit \/ MaintFails
               \/ \E D \in SUBSET stored : MaintDelete(D)
               \/ \E s \in Subs : Subscribe(s) \/ Unsubscribe(s)
               \/ UNCHANGED vars
        PROVE  TimerInv'
    <2>1. /\ UNCHANGED <<buffer, pending, pc>>
          /\ UNCHANGED used \/ Spend("fail") \/ Spend("maint")
      BY <1>8 DEF MaintBegin, MaintCommit, MaintFails, MaintDelete, Subscribe,
                  Unsubscribe, coVars, memVars, histVars, vars
    <2>2. used'["close"] = 0 => used["close"] = 0
      BY <1>0, <2>1, SpendCounts
    <2> QED BY <1>0, <2>1, <2>2, TimerStable
  <1>9. ASSUME Close
        PROVE  TimerInv'
    <2>1. UNCHANGED <<buffer, pending>> /\ used'["close"] # 0
      BY <1>0, <1>9, SpendCounts DEF Close
    <2> QED BY <2>1 DEF TimerInv
  <1>10. ASSUME Crash
         PROVE  TimerInv'
    BY <1>10 DEF Crash, TimerInv
  <1> QED
    BY <1>1, <1>2, <1>3, <1>4, <1>5, <1>6, <1>7, <1>8, <1>9, <1>10
       DEF Next, PublisherStep, TaskStep, Quiet

-----------------------------------------------------------------------------
(* What a task carries *)

HasBatch == {"bulk", "begin", "commit", "written", "orphanBegin", "orphanCommit"}
HasLow   == {"low", "insert", "inserted", "orphanInsert"}

\* Only a task that imports or flushes has a batch, an import holds no chunk,
\* and what is inserted row by row, perhaps in a foreign transaction, is no
\* chunk either.
CarryInv ==
    /\ \A t \in Tasks : batch[t] # <<>> => pc[t] \in HasBatch
    /\ \A t \in Tasks : pc[t] = "bulk" => \A e \in Elems(batch[t]) : KindOf[e] = Bulk
    /\ \A p \in Publishers : pc[p] \in HasLow => KindOf[ev[p]] = Low
    /\ risk \cap Chunks = {}

\* Steps that give no task a batch or an event.
LEMMA CarryStable ==
    ASSUME CarryInv, risk' = risk,
           \A t \in Tasks :
              \/ batch'[t] = <<>>
              \/ /\ batch'[t] = batch[t]
                 /\ pc[t] \in HasBatch => pc'[t] \in HasBatch,
           \A t \in Tasks : pc'[t] = "bulk" => pc[t] = "bulk",
           \A p \in Publishers :
              pc'[p] \in HasLow => pc[p] \in HasLow /\ ev'[p] = ev[p]
    PROVE  CarryInv'
  <1>1. \A t \in Tasks : Elems(batch'[t]) \subseteq Elems(batch[t])
    BY ElemsEmpty
  <1>2. \A t \in Tasks : Elems(batch'[t]) = Elems(batch[t])'
    BY DEF Elems
  <1> QED BY <1>1, <1>2 DEF CarryInv

\* A task that ends, or drains the next kind, carries no batch.
LEMMA CarryEnd ==
    ASSUME TypeOK, CarryInv, risk' = risk, NEW t \in Tasks, NEW x \in {"idle", "flush"},
           pc' = [pc EXCEPT ![t] = x], batch' = [batch EXCEPT ![t] = <<>>],
           \A p \in Publishers : p # t => ev'[p] = ev[p]
    PROVE  CarryInv'
  <1>1. \A u \in Tasks : /\ pc'[u] = IF u = t THEN x ELSE pc[u]
                         /\ batch'[u] = IF u = t THEN <<>> ELSE batch[u]
    BY DEF TypeOK
  <1>2. x # "bulk" /\ x \notin HasLow
    BY DEF HasLow
  <1>3. \A p \in Publishers : p \in Tasks
    BY DEF Tasks
  <1> QED BY <1>1, <1>2, <1>3, CarryStable

\* So does a task that moves on with what it has.
LEMMA CarryMove ==
    ASSUME TypeOK, CarryInv, risk' = risk, NEW t \in Tasks, NEW x,
           pc' = [pc EXCEPT ![t] = x], UNCHANGED <<batch, ev>>, x # "bulk",
           pc[t] \in HasBatch => x \in HasBatch,
           x \in HasLow => pc[t] \in HasLow
    PROVE  CarryInv'
  <1>1. \A u \in Tasks : pc'[u] = IF u = t THEN x ELSE pc[u]
    BY DEF TypeOK
  <1>2. \A p \in Publishers : p \in Tasks
    BY DEF Tasks
  <1> QED BY <1>1, <1>2, CarryStable

\* Every step keeps CarryInv.
LEMMA CarryStep == TypeInv /\ EvInv /\ CarryInv /\ [Next]_vars => CarryInv'
  <1> SUFFICES ASSUME TypeInv, EvInv, CarryInv, [Next]_vars PROVE CarryInv'
    OBVIOUS
  <1>0. /\ TypeOK /\ PcData /\ CoType
        /\ \A p \in Publishers : p \in Tasks
    BY DEF TypeInv, TypeOK, CoType, Tasks
  <1>1. ASSUME NEW p \in Publishers, NEW e \in Events, Publish(p, e)
        PROVE  CarryInv'
    <2>1. /\ UNCHANGED <<batch, risk>> /\ pc[p] = "idle"
          /\ \A t \in Tasks : pc'[t] = IF t = p THEN (IF e \in Chunks THEN "chunk" ELSE "low")
                                       ELSE pc[t]
          /\ \A r \in Publishers : ev'[r] = IF r = p THEN e ELSE ev[r]
      BY <1>0, <1>1 DEF Publish, CoType
    <2>2. e \notin Chunks => KindOf[e] = Low
      BY <1>1, ConstantsAssumption DEF Publish, Chunks
    <2>3. batch[p] = <<>>
      BY <1>0, <2>1 DEF CarryInv, HasBatch
    <2>4. \A t \in Tasks : Elems(batch[t]) = Elems(batch[t])'
      BY <2>1 DEF Elems
    <2> QED BY <1>0, <2>1, <2>2, <2>3, <2>4 DEF CarryInv, HasLow
  <1>2. ASSUME NEW p \in Publishers, NEW q \in BulkLists, PublishMany(p, q)
        PROVE  CarryInv'
    <2>1. /\ UNCHANGED <<ev, risk>>
          /\ \A t \in Tasks : /\ pc'[t] = IF t = p THEN "bulk" ELSE pc[t]
                              /\ batch'[t] = IF t = p THEN q ELSE batch[t]
      BY <1>0, <1>2 DEF PublishMany, CoType
    <2>2. \A e \in Elems(q) : KindOf[e] = Bulk
      BY DEF BulkLists, Elems
    <2>3. \A t \in Tasks : Elems(batch'[t]) = Elems(batch[t])'
      BY DEF Elems
    <2> QED BY <1>0, <2>1, <2>2, <2>3 DEF CarryInv, HasLow, HasBatch
  <1>3. ASSUME NEW p \in Publishers, AppendChunk(p)
        PROVE  CarryInv'
    <2>1. /\ ev[p] \in Tasks /\ pc[ev[p]] = "idle" /\ pc[p] = "chunk" /\ ev[p] # p
          /\ ev[p] \notin Publishers
      BY <1>0, <1>3, ConstantsAssumption DEF AppendChunk, PcData, EvInv, Tasks, Chunks
    <2>2. /\ UNCHANGED <<batch, risk>>
          /\ \A r \in Publishers : ev'[r] = IF r = p THEN None ELSE ev[r]
          /\ \A t \in Tasks : \/ pc'[t] = pc[t]
                              \/ t \in {p, ev[p]} /\ pc'[t] \in {"idle", "asleep"}
      BY <1>0, <1>3, <2>1 DEF AppendChunk, histVars, CoType
    <2> QED BY <1>0, <2>1, <2>2, CarryStable DEF HasLow, HasBatch
  <1>4. ASSUME NEW p \in Publishers, StartInsert(p) \/ StartBulk(p)
        PROVE  CarryInv'
    BY <1>0, <1>4, CarryMove DEF StartInsert, StartBulk, histVars, HasLow, HasBatch
  <1>5. ASSUME NEW p \in Publishers, Insert(p)
        PROVE  CarryInv'
    <2>1. ev[p] \notin Chunks
      BY <1>0, <1>5, ConstantsAssumption DEF Insert, CarryInv, HasLow, Chunks
    <2>2. risk' \cap Chunks = {}
      BY <1>5, <2>1 DEF Insert, CarryInv
    <2>3. \A t \in Tasks : /\ pc'[t] \in {pc[t], "idle", "inserted"}
                           /\ t # p => pc'[t] = pc[t] /\ batch'[t] = batch[t]
                           /\ batch'[t] \in {batch[t], <<>>}
      BY <1>0, <1>5 DEF Insert, Finish, CoType
    <2>4. \A r \in Publishers : pc'[r] \in HasLow => ev'[r] = ev[r] /\ pc[r] \in HasLow
      <3>1. CASE pc' = [pc EXCEPT ![p] = "inserted"] /\ ev' = ev
        BY <1>0, <1>5, <3>1 DEF Insert, CoType, HasLow
      <3>2. CASE Finish(p)
        BY <1>0, <3>2 DEF Finish, CoType, HasLow
      <3> QED BY <1>5, <3>1, <3>2 DEF Insert
    <2>5. \A t \in Tasks : Elems(batch'[t]) = Elems(batch[t])'
      BY DEF Elems
    <2>6. \A t \in Tasks : Elems(batch'[t]) \subseteq Elems(batch[t])
      BY <2>3, ElemsEmpty
    <2>7. batch[p] = <<>>
      BY <1>5 DEF Insert, CarryInv, HasBatch, Tasks
    <2> QED BY <1>0, <2>2, <2>3, <2>4, <2>5, <2>6, <2>7 DEF CarryInv
  <1>6. ASSUME NEW p \in Publishers, InsertFails(p)
        PROVE  CarryInv'
    BY <1>0, <1>6, CarryEnd DEF InsertFails, Finish
  <1>7. ASSUME NEW t \in Tasks, AfterInsert(t) \/ NothingToFlush(t) \/ AfterWrite(t)
        PROVE  CarryInv'
    <2>1. UNCHANGED risk
      BY <1>7 DEF AfterInsert, NothingToFlush, AfterWrite, histVars
    <2>2. /\ \E x \in {"idle", "flush"} : pc' = [pc EXCEPT ![t] = x]
          /\ batch' = [batch EXCEPT ![t] = <<>>]
          /\ \A p \in Publishers : p # t => ev'[p] = ev[p]
      BY <1>7, ContinueCases DEF AfterInsert, NothingToFlush, AfterWrite, Finish
    <2> QED BY <1>0, <2>1, <2>2, CarryEnd
  <1>8. ASSUME NEW t \in Tasks, TimerFires(t)
        PROVE  CarryInv'
    BY <1>0, <1>8, CarryMove DEF TimerFires, histVars, HasLow, HasBatch
  <1>9. ASSUME NEW t \in Tasks, TakeBatch(t)
        PROVE  CarryInv'
    <2>1. /\ UNCHANGED <<ev, risk>>
          /\ \A u \in Tasks : u # t => pc'[u] = pc[u] /\ batch'[u] = batch[u]
          /\ pc'[t] = "begin"
      BY <1>0, <1>9 DEF TakeBatch, histVars, CoType
    <2>2. \A u \in Tasks : Elems(batch'[u]) = Elems(batch[u])'
      BY DEF Elems
    <2> QED BY <1>0, <2>1, <2>2 DEF CarryInv, HasLow, HasBatch
  <1>10. ASSUME NEW t \in Tasks, BeginWrite(t)
         PROVE  CarryInv'
    <2>1. \E x \in {"commit", "orphanCommit"} : pc' = [pc EXCEPT ![t] = x]
      BY <1>0, <1>10 DEF BeginWrite, TypeOK
    <2> QED BY <1>0, <1>10, <2>1, CarryMove DEF BeginWrite, histVars, HasLow, HasBatch
  <1>11. ASSUME NEW t \in Tasks, CommitWrite(t)
         PROVE  CarryInv'
    <2>1. CASE pc' = [pc EXCEPT ![t] = "written"] /\ UNCHANGED <<ev, batch>>
      BY <1>0, <1>11, <2>1, CarryMove DEF CommitWrite, histVars, HasLow, HasBatch
    <2>2. CASE Finish(t)
      BY <1>0, <1>11, <2>2, CarryEnd DEF CommitWrite, histVars, Finish
    <2> QED BY <1>11, <2>1, <2>2 DEF CommitWrite
  <1>12. ASSUME NEW t \in Tasks, WriteFails(t)
         PROVE  CarryInv'
    BY <1>0, <1>12, CarryEnd DEF WriteFails, Finish
  <1>13. ASSUME NEW p \in Publishers, Cancel(p)
         PROVE  CarryInv'
    <2>1. risk' = risk
      BY <1>13 DEF Cancel
    <2>2. CASE Finish(p)
      BY <1>0, <2>1, <2>2, CarryEnd DEF Finish
    <2>3. CASE /\ pc[p] \in {"insert", "begin", "commit"}
               /\ pc' = [pc EXCEPT ![p] = CASE @ = "insert" -> "orphanInsert"
                                            [] @ = "begin"  -> "orphanBegin"
                                            [] @ = "commit" -> "orphanCommit"]
               /\ UNCHANGED <<ev, batch>>
      <3>1. \E x : /\ pc' = [pc EXCEPT ![p] = x]
                   /\ \/ x = "orphanInsert" /\ pc[p] = "insert"
                      \/ x = "orphanBegin" /\ pc[p] = "begin"
                      \/ x = "orphanCommit" /\ pc[p] = "commit"
        BY <1>0, <2>3 DEF CoType
      <3> QED BY <1>0, <2>1, <2>3, <3>1, CarryMove DEF HasLow, HasBatch
    <2> QED BY <1>13, <2>2, <2>3 DEF Cancel
  <1>14. ASSUME \/ MaintBegin \/ MaintCommit \/ MaintFails
                \/ \E D \in SUBSET stored : MaintDelete(D)
                \/ \E s \in Subs : Subscribe(s) \/ Unsubscribe(s)
                \/ UNCHANGED vars
         PROVE  CarryInv'
    <2>1. UNCHANGED <<batch, ev, pc, risk>>
      BY <1>14 DEF MaintBegin, MaintCommit, MaintFails, MaintDelete, Subscribe,
                   Unsubscribe, coVars, histVars, vars
    <2> QED BY <2>1, CarryStable
  <1>15. ASSUME Close
         PROVE  CarryInv'
    <2>1. /\ UNCHANGED <<ev, risk>>
          /\ \A t \in Tasks : /\ pc'[t] = IF t \in Chunks THEN "idle" ELSE pc[t]
                              /\ batch'[t] = IF t \in Chunks THEN <<>> ELSE batch[t]
      BY <1>15 DEF Close
    <2> QED BY <1>0, <2>1, CarryStable DEF HasLow
  <1>16. ASSUME Crash
         PROVE  CarryInv'
    <2>1. /\ risk' = risk
          /\ \A t \in Tasks : pc'[t] = "idle" /\ batch'[t] = <<>>
      BY <1>16 DEF Crash
    <2> QED BY <1>0, <2>1, CarryStable DEF HasLow
  <1> QED
    BY <1>1, <1>2, <1>3, <1>4, <1>5, <1>6, <1>7, <1>8, <1>9, <1>10, <1>11, <1>12,
       <1>13, <1>14, <1>15, <1>16
       DEF Next, PublisherStep, TaskStep, Quiet, Tasks

-----------------------------------------------------------------------------
(* One place at a time, the store included *)

\* A row of the store is of a published event, and of none that is buffered or
\* still to be buffered.
StoreInv ==
    /\ stored \cup durable \subseteq Published
    /\ \A k \in Kinds : Elems(buffer[k]) \cap (stored \cup durable) = {}
    /\ \A p \in Publishers : pc[p] = "chunk" => ev[p] \notin stored \cup durable

\* Steps that write rows of events that are nowhere in a buffer, or none.
LEMMA StoreStable ==
    ASSUME StoreInv, Published' = Published, NEW D, D \subseteq Published,
           stored' \cup durable' \subseteq stored \cup durable \cup D,
           \A k \in Kinds : /\ buffer'[k] \in {buffer[k], <<>>}
                            /\ Elems(buffer[k]) \cap D = {},
           \A p \in Publishers : pc'[p] = "chunk" =>
              pc[p] = "chunk" /\ ev'[p] = ev[p] /\ ev[p] \notin D
    PROVE  StoreInv'
  <1>1. \A k \in Kinds : Elems(buffer'[k]) \subseteq Elems(buffer[k])
    BY ElemsEmpty
  <1>2. \A k \in Kinds : Elems(buffer'[k]) = Elems(buffer[k])'
    BY DEF Elems
  <1> QED BY <1>1, <1>2 DEF StoreInv

\* Every step keeps StoreInv.
LEMMA StoreStep ==
    DurInv /\ PlaceInv /\ CarryInv /\ StoreInv /\ [Next]_vars => StoreInv'
  <1> SUFFICES ASSUME DurInv, PlaceInv, CarryInv, StoreInv, [Next]_vars
               PROVE  StoreInv'
    OBVIOUS
  <1>0. /\ TypeInv /\ TypeOK /\ PcData /\ CoType /\ EvInv /\ TxnInv
        /\ \A p \in Publishers : p \in Tasks
        /\ \A t \in Tasks : batch[t] \in Seq(Events)
        /\ \A k \in Kinds : buffer[k] \in Seq(Events)
    BY DEF DurInv, TypeInv, TypeOK, CoType, Tasks
  <1>1. ASSUME NEW p \in Publishers, NEW e \in Events, Publish(p, e)
        PROVE  StoreInv'
    <2>1. Published' = Published \cup {e} /\ e \notin Published
      BY <1>0, <1>1, PublishedAdds DEF Publish
    <2>2. /\ UNCHANGED <<buffer, stored, durable>>
          /\ \A r \in Publishers : r # p => pc'[r] = pc[r] /\ ev'[r] = ev[r]
          /\ ev'[p] = e
      BY <1>0, <1>1 DEF Publish, memVars, dbVars, CoType
    <2> QED BY <2>1, <2>2 DEF StoreInv
  <1>2. ASSUME NEW p \in Publishers, NEW q \in BulkLists, PublishMany(p, q)
        PROVE  StoreInv'
    <2>1. q \in Seq(Events)
      BY DEF BulkLists
    <2>2. Published' = Published \cup Elems(q)
      BY <1>0, <1>2, <2>1, PublishedGrows DEF PublishMany
    <2>3. /\ UNCHANGED <<buffer, stored, durable, ev>>
          /\ \A r \in Publishers : pc'[r] = IF r = p THEN "bulk" ELSE pc[r]
      BY <1>0, <1>2 DEF PublishMany, memVars, dbVars, CoType
    <2> QED BY <2>2, <2>3 DEF StoreInv
  <1>3. ASSUME NEW p \in Publishers, AppendChunk(p)
        PROVE  StoreInv'
    <2> DEFINE e == ev[p]
               k == KindOf[e]
    <2>1. /\ e \in Chunks /\ k \in Kinds /\ pc[p] = "chunk" /\ e \in Events
          /\ e \notin Publishers
      BY <1>0, <1>3, ConstantsAssumption DEF AppendChunk, PcData, Chunks
    <2>2. /\ Published' = Published /\ UNCHANGED <<stored, durable>>
          /\ \A l \in Kinds : buffer'[l] = IF l = k THEN Append(buffer[k], e) ELSE buffer[l]
      BY <1>0, <1>3, PublishedUnchanged DEF AppendChunk, dbVars, histVars, TypeOK
    <2>3. \A r \in Publishers : pc'[r] = "chunk" => pc[r] = "chunk" /\ ev'[r] = ev[r]
      BY <1>0, <1>3, <2>1 DEF AppendChunk, CoType
    <2> HIDE DEF e, k
    <2>4. Elems(Append(buffer[k], e)) = Elems(buffer[k]) \cup {e}
      BY <1>0, <2>1, ElemsAppend
    <2>5. e \notin stored \cup durable
      BY <2>1 DEF StoreInv, e
    <2>6. \A l \in Kinds : Elems(buffer'[l]) = Elems(buffer[l])'
      BY DEF Elems
    <2>7. \A l \in Kinds : Elems(buffer'[l]) \cap (stored \cup durable) = {}
      BY <2>2, <2>4, <2>5 DEF StoreInv
    <2> QED BY <2>2, <2>3, <2>6, <2>7 DEF StoreInv
  <1>4. ASSUME NEW p \in Publishers, Insert(p)
        PROVE  StoreInv'
    <2>1. /\ ev[p] \in Events /\ ev[p] \in Published
          /\ \A r \in Publishers : r # p => ev[r] # ev[p]
          /\ \A k \in Kinds : ev[p] \notin Elems(buffer[k])
      BY <1>0, <1>4, ConstantsAssumption DEF Insert, PcData, EvInv, PlaceInv
    <2>2. /\ Published' = Published /\ buffer' = buffer
          /\ stored' \cup durable' \subseteq stored \cup durable \cup {ev[p]}
      BY <1>4, PublishedUnchanged DEF Insert, memVars
    <2>3. \A r \in Publishers : pc'[r] = "chunk" =>
             pc[r] = "chunk" /\ ev'[r] = ev[r] /\ ev[r] \notin {ev[p]}
      BY <1>0, <1>4, <2>1 DEF Insert, Finish, CoType
    <2> QED BY <2>1, <2>2, <2>3, StoreStable
  <1>5. ASSUME NEW t \in Tasks, BeginWrite(t)
        PROVE  StoreInv'
    <2>1. /\ Elems(batch[t]) \subseteq Published
          /\ \A r \in Publishers : ev[r] \notin Elems(batch[t])
          /\ \A k \in Kinds : Elems(buffer[k]) \cap Elems(batch[t]) = {}
      BY DEF PlaceInv
    <2>2. /\ Published' = Published /\ UNCHANGED <<buffer, ev>>
          /\ stored' \cup durable' \subseteq stored \cup durable \cup Elems(batch[t])
      BY <1>5, PublishedUnchanged DEF BeginWrite, memVars, histVars
    <2>3. \A r \in Publishers : pc'[r] = "chunk" => pc[r] = "chunk"
      BY <1>0, <1>5 DEF BeginWrite, CoType
    <2> QED BY <2>1, <2>2, <2>3, StoreStable
  <1>6. ASSUME NEW t \in Tasks,
               \/ t \in Publishers /\ (StartInsert(t) \/ StartBulk(t) \/ Cancel(t))
               \/ InsertFails(t) \/ AfterInsert(t) \/ TimerFires(t) \/ TakeBatch(t)
               \/ NothingToFlush(t) \/ CommitWrite(t) \/ WriteFails(t) \/ AfterWrite(t)
        PROVE  StoreInv'
    <2>1. /\ said' = said
          /\ \/ UNCHANGED <<stored, durable>>
             \/ stored' = stored /\ durable' = stored
             \/ stored' = durable /\ durable' = durable
      BY <1>6 DEF StartInsert, StartBulk, Cancel, InsertFails, AfterInsert, TimerFires,
                  TakeBatch, NothingToFlush, CommitWrite, WriteFails, AfterWrite,
                  dbVars, histVars
    <2>2. \A k \in Kinds : buffer'[k] \in {buffer[k], <<>>}
      BY <1>0, <1>6 DEF StartInsert, StartBulk, Cancel, InsertFails, AfterInsert,
                  TimerFires, TakeBatch, NothingToFlush, CommitWrite, WriteFails,
                  AfterWrite, memVars, TypeOK
    <2>3. \/ Finish(t)
          \/ \E x : pc' = [pc EXCEPT ![t] = x] /\ x # "chunk" /\ ev' = ev
      <3>1. CASE t \in Publishers /\ Cancel(t)
        BY <1>0, <3>1 DEF Cancel, CoType
      <3>2. CASE AfterInsert(t) \/ NothingToFlush(t) \/ AfterWrite(t)
        BY <3>2, ContinueCases DEF AfterInsert, NothingToFlush, AfterWrite
      <3>3. CASE \/ t \in Publishers /\ (StartInsert(t) \/ StartBulk(t))
                 \/ InsertFails(t) \/ TimerFires(t) \/ TakeBatch(t)
                 \/ CommitWrite(t) \/ WriteFails(t)
        BY <3>3 DEF StartInsert, StartBulk, InsertFails, TimerFires, TakeBatch,
                    CommitWrite, WriteFails
      <3> QED BY <1>6, <3>1, <3>2, <3>3
    <2>4. \A r \in Publishers : pc'[r] = "chunk" => pc[r] = "chunk" /\ ev'[r] = ev[r]
      BY <1>0, <2>3 DEF Finish, CoType
    <2>5. Published' = Published
      BY <2>1, PublishedUnchanged
    <2>6. /\ {} \subseteq Published
          /\ stored' \cup durable' \subseteq stored \cup durable \cup {}
          /\ \A k \in Kinds : /\ buffer'[k] \in {buffer[k], <<>>}
                               /\ Elems(buffer[k]) \cap {} = {}
          /\ \A r \in Publishers : pc'[r] = "chunk" =>
                pc[r] = "chunk" /\ ev'[r] = ev[r] /\ ev[r] \notin {}
      BY <2>1, <2>2, <2>4
    <2> QED BY <2>5, <2>6, StoreStable
  <1>7. ASSUME \/ MaintBegin \/ MaintCommit \/ MaintFails
               \/ \E D \in SUBSET stored : MaintDelete(D)
               \/ \E s \in Subs : Subscribe(s) \/ Unsubscribe(s)
               \/ UNCHANGED vars \/ Close \/ Crash
        PROVE  StoreInv'
    <2>1. /\ said' = said
          /\ stored' \cup durable' \subseteq stored \cup durable
          /\ \A k \in Kinds : buffer'[k] \in {buffer[k], <<>>}
          /\ \A r \in Publishers : pc'[r] = "chunk" => pc[r] = "chunk" /\ ev'[r] = ev[r]
      <3>1. CASE Close \/ Crash
        BY <1>0, <3>1, ConstantsAssumption DEF Close, Crash, Chunks
      <3>2. CASE ~(Close \/ Crash)
        BY <1>7, <3>2 DEF MaintBegin, MaintCommit, MaintFails, MaintDelete, Subscribe,
                  Unsubscribe, coVars, memVars, dbVars, histVars, vars
      <3> QED BY <3>1, <3>2
    <2>2. Published' = Published
      BY <2>1, PublishedUnchanged
    <2> QED BY <2>1, <2>2, StoreStable
  <1> QED
    BY <1>0, <1>1, <1>2, <1>3, <1>4, <1>5, <1>6, <1>7
       DEF Next, PublisherStep, TaskStep, Quiet

-----------------------------------------------------------------------------
(* No chunk disappears *)

\* Stored, deleted with the maintenance that committed it, or lost to a fault.
Settled == durable \cup gone \cup lost

AccountInv == Chunks \cap Published \subseteq InHand \cup Buffered \cup InBatch \cup Settled

\* What is settled stays settled.
LEMMA SettledGrows ==
    ASSUME TypeInv, TxnInv, [Next]_vars
    PROVE  Settled \subseteq Settled'
  <1>1. ASSUME UNCHANGED <<durable, gone>>, lost \subseteq lost'
        PROVE  Settled \subseteq Settled'
    BY <1>1 DEF Settled
  <1>2. ASSUME NEW p \in Publishers, Insert(p)
        PROVE  Settled \subseteq Settled'
    BY <1>2 DEF Insert, Settled
  <1>3. ASSUME NEW t \in Tasks, CommitWrite(t)
        PROVE  Settled \subseteq Settled'
    BY <1>3 DEF CommitWrite, TxnInv, Settled, histVars
  <1>4. ASSUME MaintCommit
        PROVE  Settled \subseteq Settled'
    BY <1>4 DEF MaintCommit, Settled
  <1> QED
    BY <1>1, <1>2, <1>3, <1>4
       DEF Next, PublisherStep, TaskStep, Publish, PublishMany, AppendChunk,
           StartInsert, StartBulk, InsertFails, AfterInsert, Cancel, TimerFires,
           TakeBatch, NothingToFlush, BeginWrite, WriteFails, AfterWrite,
           MaintBegin, MaintFails, MaintDelete, Subscribe, Unsubscribe, Close,
           Crash, Quiet, vars, dbVars, histVars

\* Steps after which every chunk is where it was, or settled.
LEMMA AccountStable ==
    ASSUME AccountInv, Published' = Published, Settled \subseteq Settled',
           \A p \in Publishers : pc[p] = "chunk" =>
              (pc'[p] = "chunk" /\ ev'[p] = ev[p]) \/ ev[p] \in Settled',
           \A k \in Kinds : Elems(buffer[k]) \subseteq Elems(buffer'[k]) \cup Settled',
           \A t \in Tasks : Elems(batch[t]) \cap Chunks \subseteq Elems(batch'[t]) \cup Settled'
    PROVE  AccountInv'
  <1>1. SUFFICES ASSUME NEW e \in Chunks \cap Published
                 PROVE  e \in InHand' \cup Buffered' \cup InBatch' \cup Settled'
    BY DEF AccountInv, Chunks
  <1>2. CASE e \in InHand
    BY <1>2 DEF InHand
  <1>3. CASE e \in Buffered
    <2>1. PICK k \in Kinds : e \in Elems(buffer[k])
      BY <1>3 DEF Buffered
    <2>2. Elems(buffer'[k]) \subseteq Buffered'
      BY DEF Buffered, Elems
    <2> QED BY <2>1, <2>2
  <1>4. CASE e \in InBatch
    <2>1. PICK t \in Tasks : e \in Elems(batch[t])
      BY <1>4 DEF InBatch
    <2>2. Elems(batch'[t]) \subseteq InBatch'
      BY DEF InBatch, Elems
    <2> QED BY <2>1, <2>2
  <1> QED BY <1>1, <1>2, <1>3, <1>4 DEF AccountInv

\* A task other than a publisher in the handover that ends or drains on, its
\* batch settled.
LEMMA AccountEnd ==
    ASSUME TypeOK, AccountInv, Published' = Published, Settled \subseteq Settled',
           buffer' = buffer, NEW t \in Tasks, NEW x, pc' = [pc EXCEPT ![t] = x],
           batch' = [batch EXCEPT ![t] = <<>>],
           \A p \in Publishers : p # t => ev'[p] = ev[p],
           pc[t] = "chunk" /\ t \in Publishers => ev[t] \in Settled',
           Elems(batch[t]) \cap Chunks \subseteq Settled'
    PROVE  AccountInv'
  <1>1. \A u \in Tasks : u # t => pc'[u] = pc[u] /\ batch'[u] = batch[u]
    BY DEF TypeOK
  <1>2. \A p \in Publishers : p \in Tasks
    BY DEF Tasks
  <1> QED BY <1>1, <1>2, AccountStable

\* Steps after which every task has what it had.
LEMMA AccountMove ==
    ASSUME TypeOK, AccountInv, Published' = Published, Settled \subseteq Settled',
           UNCHANGED <<buffer, ev, batch>>, NEW t \in Tasks, pc[t] # "chunk",
           NEW x, pc' = [pc EXCEPT ![t] = x]
    PROVE  AccountInv'
  <1>1. \A u \in Tasks : u # t => pc'[u] = pc[u]
    BY DEF TypeOK
  <1>2. \A p \in Publishers : p \in Tasks
    BY DEF Tasks
  <1> QED BY <1>1, <1>2, AccountStable

\* A written batch is recorded, and no chunk of it in a foreign transaction.
LEMMA WrittenSettled ==
    ASSUME RecInv, CarryInv, NEW t \in Tasks, pc[t] = "written"
    PROVE  Elems(batch[t]) \cap Chunks \subseteq Settled
  BY DEF RecInv, CarryInv, Recorded, Settled

\* Every step keeps AccountInv: whoever gives a chunk up puts it in the buffer,
\* in a batch, in the store, or among the lost.
LEMMA AccountStep == DurInv /\ CarryInv /\ AccountInv /\ [Next]_vars => AccountInv'
  <1> SUFFICES ASSUME DurInv, CarryInv, AccountInv, [Next]_vars
               PROVE  AccountInv'
    OBVIOUS
  <1>0. /\ TypeInv /\ TypeOK /\ PcData /\ CoType /\ EvInv /\ TxnInv /\ RecInv
        /\ \A p \in Publishers : p \in Tasks
        /\ Settled \subseteq Settled'
    BY SettledGrows DEF DurInv, TypeInv, TypeOK, CoType, Tasks
  <1>1. ASSUME NEW p \in Publishers, NEW e \in Events, Publish(p, e)
        PROVE  AccountInv'
    <2>1. Published' = Published \cup {e}
      BY <1>0, <1>1, PublishedAdds DEF Publish
    <2>2. /\ UNCHANGED <<buffer, batch>> /\ pc[p] = "idle"
          /\ \A r \in Publishers : r # p => pc'[r] = pc[r] /\ ev'[r] = ev[r]
          /\ ev'[p] = e /\ (e \in Chunks => pc'[p] = "chunk")
      BY <1>0, <1>1 DEF Publish, memVars, CoType
    <2>3. InHand \subseteq InHand' /\ (e \in Chunks => e \in InHand')
      BY <2>2 DEF InHand
    <2>4. Buffered' = Buffered /\ InBatch' = InBatch
      BY <2>2 DEF Buffered, InBatch, Elems
    <2> QED BY <1>0, <2>1, <2>3, <2>4 DEF AccountInv
  <1>2. ASSUME NEW p \in Publishers, NEW q \in BulkLists, PublishMany(p, q)
        PROVE  AccountInv'
    <2>1. q \in Seq(Events) /\ Elems(q) \cap Chunks = {}
      BY ConstantsAssumption DEF BulkLists, Elems, Chunks
    <2>2. Published' = Published \cup Elems(q)
      BY <1>0, <1>2, <2>1, PublishedGrows DEF PublishMany
    <2>3. /\ UNCHANGED <<buffer, ev>> /\ pc[p] = "idle"
          /\ \A t \in Tasks : t # p => pc'[t] = pc[t] /\ batch'[t] = batch[t]
      BY <1>0, <1>2 DEF PublishMany, memVars, CoType
    <2>4. InHand \subseteq InHand' /\ Buffered' = Buffered
      BY <1>0, <2>3 DEF InHand, Buffered, Elems
    <2>5. batch[p] = <<>>
      BY <1>0, <2>3 DEF CarryInv, HasBatch
    <2>6. \A t \in Tasks : t # p => Elems(batch[t]) \subseteq InBatch'
      BY <2>3 DEF InBatch, Elems
    <2>7. InBatch \subseteq InBatch'
      BY <2>5, <2>6, ElemsEmpty DEF InBatch
    <2> QED BY <1>0, <2>1, <2>2, <2>4, <2>7 DEF AccountInv
  <1>3. ASSUME NEW p \in Publishers, AppendChunk(p)
        PROVE  AccountInv'
    <2> DEFINE e == ev[p]
               k == KindOf[e]
    <2>1. /\ e \in Chunks /\ k \in Kinds /\ pc[p] = "chunk" /\ e \in Events
          /\ e \notin Publishers
      BY <1>0, <1>3, ConstantsAssumption DEF AppendChunk, PcData, Chunks
    <2>2. /\ Published' = Published /\ batch' = batch
          /\ \A l \in Kinds : buffer'[l] = IF l = k THEN Append(buffer[k], e) ELSE buffer[l]
      BY <1>0, <1>3, PublishedUnchanged DEF AppendChunk, histVars, TypeOK
    <2>3. \A r \in Publishers : r # p => pc'[r] = pc[r] /\ ev'[r] = ev[r]
      BY <1>0, <1>3, <2>1 DEF AppendChunk, CoType
    <2>4. InHand \subseteq InHand' \cup {e}
      BY <2>3 DEF InHand
    <2> HIDE DEF e, k
    <2>5. Elems(Append(buffer[k], e)) = Elems(buffer[k]) \cup {e}
      BY <1>0, <2>1, ElemsAppend DEF TypeOK
    <2>6. \A l \in Kinds : Elems(buffer'[l]) \subseteq Buffered'
      BY DEF Buffered, Elems
    <2>7. \A l \in Kinds : Elems(buffer[l]) \subseteq Elems(buffer'[l])
      BY <2>2, <2>5
    <2>8. e \in Elems(buffer'[k])
      BY <2>1, <2>2, <2>5
    <2>9. Buffered \subseteq Buffered' /\ e \in Buffered'
      BY <2>1, <2>6, <2>7, <2>8 DEF Buffered
    <2>10. InBatch' = InBatch
      BY <2>2 DEF InBatch, Elems
    <2> QED BY <1>0, <2>2, <2>4, <2>9, <2>10 DEF AccountInv
  <1>4. ASSUME NEW t \in Tasks,
               \/ t \in Publishers /\ (StartInsert(t) \/ StartBulk(t))
               \/ TimerFires(t) \/ BeginWrite(t)
               \/ CommitWrite(t) /\ pc[t] = "commit"
               \/ t \in Publishers /\ Insert(t) /\ pc[t] = "insert"
        PROVE  AccountInv'
    <2>1. /\ UNCHANGED <<buffer, ev, batch>> /\ pc[t] # "chunk" /\ said' = said
          /\ \E x : pc' = [pc EXCEPT ![t] = x]
      BY <1>4 DEF StartInsert, StartBulk, TimerFires, BeginWrite, CommitWrite, Insert,
                  memVars, histVars
    <2> QED BY <1>0, <2>1, PublishedUnchanged, AccountMove
  <1>5. ASSUME NEW t \in Tasks,
               \/ t \in Publishers /\ Insert(t) /\ pc[t] = "orphanInsert"
               \/ InsertFails(t)
               \/ AfterInsert(t) \/ NothingToFlush(t) \/ AfterWrite(t)
               \/ CommitWrite(t) /\ pc[t] = "orphanCommit"
               \/ WriteFails(t)
        PROVE  AccountInv'
    <2>1. UNCHANGED <<buffer, said>> /\ pc[t] # "chunk"
      BY <1>5 DEF Insert, InsertFails, AfterInsert, NothingToFlush, AfterWrite,
                  CommitWrite, WriteFails, memVars, histVars
    <2>2. /\ \E x : pc' = [pc EXCEPT ![t] = x]
          /\ batch' = [batch EXCEPT ![t] = <<>>]
          /\ \A p \in Publishers : p # t => ev'[p] = ev[p]
      BY <1>5, ContinueCases DEF Insert, InsertFails, AfterInsert, NothingToFlush,
                  AfterWrite, CommitWrite, WriteFails, Finish
    <2>3. Elems(batch[t]) \cap Chunks \subseteq Settled'
      <3>1. CASE pc[t] \notin HasBatch
        <4>1. batch[t] = <<>>
          BY <3>1 DEF CarryInv
        <4> QED BY <4>1, ElemsEmpty
      <3>2. CASE AfterWrite(t)
        BY <1>0, <3>2, WrittenSettled DEF AfterWrite
      <3>3. CASE CommitWrite(t) /\ pc[t] = "orphanCommit"
        <4>1. Elems(batch[t]) \subseteq stored /\ durable' = stored
          BY <1>0, <3>3 DEF CommitWrite, RecInv
        <4> QED BY <4>1 DEF Settled
      <3>4. CASE WriteFails(t)
        BY <3>4 DEF WriteFails, Settled
      <3> QED BY <1>5, <3>1, <3>2, <3>3, <3>4
                 DEF Insert, InsertFails, AfterInsert, NothingToFlush, HasBatch
    <2> QED BY <1>0, <2>1, <2>2, <2>3, PublishedUnchanged, AccountEnd
  <1>6. ASSUME NEW t \in Tasks, TakeBatch(t)
        PROVE  AccountInv'
    <2> DEFINE k == FlushKind(t)
    <2>1. k \in Kinds /\ batch[t] = <<>> /\ pc[t] = "flush"
      BY <1>0, <1>6, FlushKindType DEF TakeBatch, CarryInv, HasBatch
    <2>2. /\ Published' = Published /\ ev' = ev
          /\ \A u \in Tasks : batch'[u] = IF u = t THEN buffer[k] ELSE batch[u]
          /\ \A l \in Kinds : l # k => buffer'[l] = buffer[l]
          /\ \A u \in Tasks : u # t => pc'[u] = pc[u]
      BY <1>0, <1>6, PublishedUnchanged DEF TakeBatch, histVars, TypeOK
    <2> HIDE DEF k
    <2>3. InHand \subseteq InHand'
      BY <1>0, <2>1, <2>2 DEF InHand
    <2>4. /\ \A u \in Tasks : Elems(batch'[u]) \subseteq InBatch'
          /\ \A l \in Kinds : Elems(buffer'[l]) \subseteq Buffered'
      BY DEF InBatch, Buffered, Elems
    <2>5. \A l \in Kinds : Elems(buffer[l]) \subseteq Buffered' \cup InBatch'
      BY <2>1, <2>2, <2>4
    <2>6. \A u \in Tasks : Elems(batch[u]) \subseteq InBatch'
      BY <2>1, <2>2, <2>4, ElemsEmpty
    <2>7. Buffered \subseteq Buffered' \cup InBatch' /\ InBatch \subseteq InBatch'
      BY <2>5, <2>6 DEF Buffered, InBatch
    <2> QED BY <1>0, <2>2, <2>3, <2>7 DEF AccountInv
  <1>7. ASSUME NEW p \in Publishers, Cancel(p)
        PROVE  AccountInv'
    <2>1. UNCHANGED <<buffer, said>> /\ pc[p] \in Waiting \cup Holding
      BY <1>7 DEF Cancel
    <2>2. CASE Finish(p) /\ pc[p] # "commit"
               /\ lost' = lost \cup (CASE pc[p] = "begin" -> Elems(batch[p])
                                       [] pc[p] = "chunk" -> {ev[p]}
                                       [] OTHER -> {})
      <3>1. /\ pc[p] = "begin" => Elems(batch[p]) \subseteq Settled'
            /\ pc[p] = "chunk" => ev[p] \in Settled'
        <4>1. CASE pc[p] = "begin"
          <5>1. lost' = lost \cup Elems(batch[p])
            BY <2>2, <4>1
          <5> QED BY <4>1, <5>1 DEF Settled
        <4>2. CASE pc[p] = "chunk"
          <5>1. lost' = lost \cup {ev[p]}
            BY <2>2, <4>2
          <5> QED BY <4>2, <5>1 DEF Settled
        <4> QED BY <4>1, <4>2
      <3>2. Elems(batch[p]) \cap Chunks \subseteq Settled'
        <4>1. CASE pc[p] \notin HasBatch
          <5>1. batch[p] = <<>>
            BY <1>0, <4>1 DEF CarryInv
          <5> QED BY <5>1, ElemsEmpty
        <4>2. CASE pc[p] = "bulk"
          BY <1>0, <4>2, ConstantsAssumption DEF CarryInv, Chunks
        <4>3. CASE pc[p] = "written"
          BY <1>0, <4>3, WrittenSettled
        <4> QED BY <2>1, <2>2, <3>1, <4>1, <4>2, <4>3 DEF HasBatch, Waiting, Holding
      <3>3. /\ pc' = [pc EXCEPT ![p] = "idle"]
            /\ batch' = [batch EXCEPT ![p] = <<>>]
            /\ \A r \in Publishers : r # p => ev'[r] = ev[r]
        BY <2>2 DEF Finish
      <3> QED BY <1>0, <2>1, <3>1, <3>2, <3>3, PublishedUnchanged, AccountEnd
    <2>3. CASE pc[p] \in {"insert", "begin", "commit"} /\ UNCHANGED <<ev, batch>>
      <3>1. \E x : pc' = [pc EXCEPT ![p] = x]
        BY <1>7, <2>3 DEF Cancel, Finish
      <3> QED BY <1>0, <2>1, <2>3, <3>1, PublishedUnchanged, AccountMove
    <2> QED BY <1>7, <2>2, <2>3 DEF Cancel
  <1>8. ASSUME \/ MaintBegin \/ MaintCommit \/ MaintFails
               \/ \E D \in SUBSET stored : MaintDelete(D)
               \/ \E s \in Subs : Subscribe(s) \/ Unsubscribe(s)
               \/ UNCHANGED vars
        PROVE  AccountInv'
    <2>1. UNCHANGED <<said, pc, ev, batch, buffer>>
      BY <1>8 DEF MaintBegin, MaintCommit, MaintFails, MaintDelete, Subscribe,
                  Unsubscribe, coVars, memVars, histVars, vars
    <2> QED BY <1>0, <2>1, PublishedUnchanged, AccountStable
  <1>9. ASSUME Close
        PROVE  AccountInv'
    <2>1. /\ UNCHANGED <<said, ev, buffer, durable, gone>>
          /\ \A p \in Publishers : pc'[p] = pc[p]
          /\ \A t \in Tasks : batch'[t] = IF t \in Chunks THEN <<>> ELSE batch[t]
          /\ lost' = lost \cup UNION {Elems(batch[t]) \ durable : t \in Chunks}
      BY <1>0, <1>9, ConstantsAssumption DEF Close, Chunks
    <2>2. \A t \in Chunks : Elems(batch[t]) \subseteq Settled'
      BY <2>1 DEF Settled
    <2>3. \A t \in Tasks : Elems(batch[t]) \subseteq Elems(batch'[t]) \cup Settled'
      BY <2>1, <2>2
    <2> QED BY <1>0, <2>1, <2>3, PublishedUnchanged, AccountStable
  <1>10. ASSUME Crash
         PROVE  AccountInv'
    <2>1. /\ said' = said /\ durable' = durable
          /\ lost' = lost \cup ((Buffered \cup InBatch \cup InHand) \ durable)
      BY <1>10 DEF Crash
    <2>2. Buffered \cup InBatch \cup InHand \subseteq Settled' /\ Published' = Published
      BY <2>1, PublishedUnchanged DEF Settled
    <2> QED BY <1>0, <2>2 DEF AccountInv
  <1> QED
    BY <1>0, <1>1, <1>2, <1>3, <1>4, <1>5, <1>6, <1>7, <1>8, <1>9, <1>10
       DEF Next, PublisherStep, TaskStep, Quiet, Insert, CommitWrite
=============================================================================
