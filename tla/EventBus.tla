------------------------------ MODULE EventBus ------------------------------
(***************************************************************************)
(* SqliteEventBus: every event is written to SQLite before it is fanned    *)
(* out.  LLM chunks are coalesced per kind in a write-behind buffer that a *)
(* 100 ms timer, or the next ordinary publish, flushes; ordinary events    *)
(* are inserted one by one.  All coroutines share one connection, an       *)
(* asyncio lock around the writes and a thread pool that executes them.    *)
(*                                                                         *)
(* Between two awaits a coroutine is atomic, so an action is the code from *)
(* one await to the next; the statements that run in a pool thread are     *)
(* actions of their own.  The order in which asyncio.Lock serves its       *)
(* waiters is left open (any waiter may be served); only the strong        *)
(* fairness of Spec uses that the real lock is FIFO.                       *)
(***************************************************************************)
EXTENDS Naturals, Sequences, FiniteSets

CONSTANTS
    Publishers, \* coroutines that call publish or publish_many
    Events,     \* the events of the run, each published at most once (uuid)
    Kinds,      \* the batchable types, _BATCHABLE_EVENTS
    Low,        \* the kind of the events written at once
    Bulk,       \* the kind of the events imported through publish_many
    KindOf,     \* the kind of each event
    Subs,       \* subscriptions
    Maint,      \* the retention / delete_session caller
    None,
    Limit,      \* how often each fault may happen: a bound of the model
    MaxMix      \* how many kinds of faults may meet: a bound of the model

Faults == {"crash", "fail", "cancel", "maint", "close"}
Chunks == {e \in Events : KindOf[e] \in Kinds}

\* A flush timer is named after the chunk whose publication armed it.
Tasks == Publishers \cup Chunks

ASSUME ConstantsAssumption ==
    /\ Publishers \cap Events = {}
    /\ KindOf \in [Events -> Kinds \cup {Low, Bulk}]
    /\ Low \notin Kinds /\ Bulk \notin Kinds /\ Low # Bulk
    /\ None \notin Tasks \cup Events \cup Kinds
    /\ Maint \notin Tasks \cup {None}
    /\ Limit \in [Faults -> Nat] /\ MaxMix \in Nat

VARIABLES
    pc,       \* where each coroutine, or the pool thread it left, stands
    ev,       \* the event a publisher is publishing
    todo,     \* kinds a publisher still has to drain before its fan-out
    kind,     \* kind a publisher is draining
    batch,    \* events a task took and has not fanned out
    lock,     \* _write_lock: its owner
    buffer,   \* _batch_buffer
    pending,  \* _batch_flush_pending
    up,       \* the connection is open
    txn,      \* owner of the connection's open transaction
    stored,   \* rows the connection sees
    durable,  \* rows a crash leaves
    maint,    \* progress of the maintenance transaction
    active,   \* subscriptions not cancelled
    inbox,    \* events handed to each subscription's handler, in order
    said,     \* history: events each publisher published, in order
    fanned,   \* history: events fanned out
    risk,     \* history: events inserted inside somebody else's transaction
    gone,     \* history: events a committed maintenance removed
    lost,     \* history: chunks that left memory without being written
    used      \* how often each fault has happened

coVars  == <<pc, ev, todo, kind, batch>>
memVars == <<lock, buffer, pending>>
dbVars  == <<up, txn, stored, durable, maint>>
subVars == <<active, inbox, fanned>>
histVars == <<said, risk, gone, lost, used>>
vars == <<pc, ev, todo, kind, batch, lock, buffer, pending, up, txn, stored,
          durable, maint, active, inbox, said, fanned, risk, gone, lost, used>>

Waiting == {"chunk", "low", "bulk", "flush"}
Holding == {"insert", "inserted", "begin", "commit", "written"}
Orphan  == {"orphanInsert", "orphanBegin", "orphanCommit"}

Elems(q) == {q[i] : i \in DOMAIN q}
Published == UNION {Elems(said[p]) : p \in Publishers}
Seen(s) == Elems(inbox[s])
Buffered == UNION {Elems(buffer[k]) : k \in Kinds}
InBatch == UNION {Elems(batch[t]) : t \in Tasks}
InHand == {ev[p] : p \in {q \in Publishers : pc[q] = "chunk"}}

Init ==
    /\ pc = [t \in Tasks |-> "idle"]
    /\ ev = [p \in Publishers |-> None]
    /\ todo = [p \in Publishers |-> {}]
    /\ kind = [p \in Publishers |-> None]
    /\ batch = [t \in Tasks |-> <<>>]
    /\ lock = None
    /\ buffer = [k \in Kinds |-> <<>>]
    /\ pending = {}
    /\ up = TRUE /\ txn = None /\ maint = "idle"
    /\ stored = {} /\ durable = {}
    /\ active = {} /\ inbox = [s \in Subs |-> <<>>] /\ fanned = {}
    /\ said = [p \in Publishers |-> <<>>]
    /\ risk = {} /\ gone = {} /\ lost = {}
    /\ used = [f \in Faults |-> 0]

-----------------------------------------------------------------------------
(* Helpers *)

Spend(f) ==
    /\ used[f] < Limit[f]
    /\ Cardinality({g \in Faults : used[g] > 0} \cup {f}) <= MaxMix
    /\ used' = [used EXCEPT ![f] = @ + 1]

\* Mutant: a fan-out that forgets the subscriptions it skips.
FanOut_KeepsActiveOnly(q) ==
    /\ inbox' = [s \in active |-> inbox[s] \o q]
    /\ fanned' = fanned \cup Elems(q)
    /\ UNCHANGED active

\* InProcessEventBus.publish, for the events of q in turn: no await inside.
FanOut(q) ==
    /\ inbox' = [s \in Subs |-> IF s \in active THEN inbox[s] \o q ELSE inbox[s]]
    /\ fanned' = fanned \cup Elems(q)
    /\ UNCHANGED active

\* A task's coroutine ends, or its thread does when the coroutine is gone.
Finish(t) ==
    /\ pc' = [pc EXCEPT ![t] = "idle"]
    /\ ev' = [p \in Publishers |-> IF p = t THEN None ELSE ev[p]]
    /\ todo' = [p \in Publishers |-> IF p = t THEN {} ELSE todo[p]]
    /\ kind' = [p \in Publishers |-> IF p = t THEN None ELSE kind[p]]
    /\ batch' = [batch EXCEPT ![t] = <<>>]

Release(t) == lock' = IF lock = t THEN None ELSE lock

FlushKind(t) == IF t \in Chunks THEN KindOf[t] ELSE kind[t]

\* What follows a flush (or the insert) that leaves the batch q to fan out
\* and the kinds of rest to drain: a timer and publish_many end here, publish
\* drains the next kind or fans out its own event.
Continue(t, rest, q) ==
    \/ /\ t \in Publishers => ev[t] = None
       /\ FanOut(q) /\ Finish(t)
    \/ /\ t \in Publishers /\ ev[t] # None /\ rest = {}
       /\ FanOut(Append(q, ev[t])) /\ Finish(t)
    \/ /\ t \in Publishers /\ ev[t] # None
       /\ \E k \in rest :
            /\ kind' = [kind EXCEPT ![t] = k]
            /\ todo' = [todo EXCEPT ![t] = rest \ {k}]
       /\ pc' = [pc EXCEPT ![t] = "flush"]
       /\ batch' = [batch EXCEPT ![t] = <<>>]
       /\ FanOut(q)
       /\ UNCHANGED ev

-----------------------------------------------------------------------------
(* publish, publish_many *)

Publish(p, e) ==
    /\ pc[p] = "idle" /\ e \notin Published /\ KindOf[e] # Bulk
    /\ pc' = [pc EXCEPT ![p] = IF e \in Chunks THEN "chunk" ELSE "low"]
    /\ ev' = [ev EXCEPT ![p] = e]
    /\ said' = [said EXCEPT ![p] = Append(@, e)]
    /\ UNCHANGED <<todo, kind, batch, memVars, dbVars, subVars, risk, gone,
                   lost, used>>

\* The lists publish_many is given: one or two events, a bound of the model.
BulkLists ==
    {q \in UNION {[1..n -> Events] : n \in 1..2} :
        /\ \A i \in DOMAIN q : KindOf[q[i]] = Bulk /\ q[i] \notin Published
        /\ \A i, j \in DOMAIN q : q[i] = q[j] => i = j}

PublishMany(p, q) ==
    /\ pc[p] = "idle"
    /\ pc' = [pc EXCEPT ![p] = "bulk"]
    /\ batch' = [batch EXCEPT ![p] = q]
    /\ said' = [said EXCEPT ![p] = @ \o q]
    /\ UNCHANGED <<ev, todo, kind, memVars, dbVars, subVars, risk, gone,
                   lost, used>>

\* Mutant: a chunk that starts a batch arms no timer.
AppendChunk_NoTimer(p) ==
    LET e == ev[p]
        k == KindOf[e]
    IN  /\ pc[p] = "chunk" /\ lock = None
        /\ buffer' = [buffer EXCEPT ![k] = Append(@, e)]
        /\ pending' = pending \cup {k}
        /\ pc' = [pc EXCEPT ![p] = "idle"]
        /\ ev' = [ev EXCEPT ![p] = None]
        /\ UNCHANGED <<todo, kind, batch, lock, dbVars, subVars, histVars>>

\* publish of a chunk under the lock: buffered, its timer armed if none is.
AppendChunk(p) ==
    LET e == ev[p]
        k == KindOf[e]
    IN  /\ pc[p] = "chunk" /\ lock = None
        /\ buffer' = [buffer EXCEPT ![k] = Append(@, e)]
        /\ pending' = pending \cup {k}
        /\ pc' = [pc EXCEPT ![p] = "idle",
                            ![e] = IF k \in pending THEN @ ELSE "asleep"]
        /\ ev' = [ev EXCEPT ![p] = None]
        /\ UNCHANGED <<todo, kind, batch, lock, dbVars, subVars, histVars>>

\* Mutant: the insert does not wait for the lock.
StartInsert_Unlocked(p) ==
    /\ pc[p] = "low"
    /\ lock' = p
    /\ pc' = [pc EXCEPT ![p] = "insert"]
    /\ UNCHANGED <<ev, todo, kind, batch, buffer, pending, dbVars, subVars,
                   histVars>>

\* The lock is granted to a task about to write; the thread is started.
StartInsert(p) ==
    /\ pc[p] = "low" /\ lock = None
    /\ lock' = p
    /\ pc' = [pc EXCEPT ![p] = "insert"]
    /\ UNCHANGED <<ev, todo, kind, batch, buffer, pending, dbVars, subVars,
                   histVars>>

StartBulk(p) ==
    /\ pc[p] = "bulk" /\ lock = None
    /\ lock' = p
    /\ pc' = [pc EXCEPT ![p] = "begin"]
    /\ UNCHANGED <<ev, todo, kind, batch, buffer, pending, dbVars, subVars,
                   histVars>>

\* The autocommit INSERT, in a thread.  SQLite transactions belong to the
\* connection: with one open, the row joins it.
Insert(p) ==
    /\ pc[p] \in {"insert", "orphanInsert"} /\ up
    /\ stored' = stored \cup {ev[p]}
    /\ \/ txn = None /\ durable' = durable \cup {ev[p]} /\ UNCHANGED risk
       \/ txn # None /\ risk' = risk \cup {ev[p]} /\ UNCHANGED durable
    /\ \/ pc[p] = "insert" /\ pc' = [pc EXCEPT ![p] = "inserted"]
                           /\ UNCHANGED <<ev, todo, kind, batch>>
       \/ pc[p] = "orphanInsert" /\ Finish(p)
    /\ UNCHANGED <<memVars, up, txn, maint, subVars, said, gone, lost, used>>

\* Mutant: an exception of the insert is swallowed.
InsertFails_Swallowed(p) ==
    /\ pc[p] \in {"insert", "orphanInsert"}
    /\ Spend("fail")
    /\ pc' = [pc EXCEPT ![p] = IF @ = "insert" THEN "inserted" ELSE "idle"]
    /\ UNCHANGED <<ev, todo, kind, batch, memVars, dbVars, subVars, said, risk,
                   gone, lost>>

\* Mutant: an exception leaves the lock taken.
InsertFails_KeepsLock(p) ==
    /\ pc[p] \in {"insert", "orphanInsert"}
    /\ Spend("fail")
    /\ Finish(p)
    /\ UNCHANGED <<memVars, dbVars, subVars, said, risk, gone, lost>>

\* The INSERT raises (disk, locked file, closed connection).
InsertFails(p) ==
    /\ pc[p] \in {"insert", "orphanInsert"}
    /\ \/ ~up /\ UNCHANGED used
       \/ up /\ Spend("fail")
    /\ Finish(p) /\ Release(p)
    /\ UNCHANGED <<buffer, pending, dbVars, subVars, said, risk, gone, lost>>

\* Mutant: the fan-out ordering guard is missing.
AfterInsert_NoDrain(p) ==
    /\ pc[p] = "inserted"
    /\ Release(p)
    /\ Continue(p, {}, <<>>)
    /\ UNCHANGED <<buffer, pending, dbVars, histVars>>

\* Back on the loop: the lock is released and, with no await in between, the
\* pending kinds are read and either drained or the event is fanned out.
AfterInsert(p) ==
    /\ pc[p] = "inserted"
    /\ Release(p)
    /\ Continue(p, pending, <<>>)
    /\ UNCHANGED <<buffer, pending, dbVars, histVars>>

-----------------------------------------------------------------------------
(* _flush_after_delay, _flush_batch *)

TimerFires(t) ==
    /\ t \in Chunks /\ pc[t] = "asleep"
    /\ pc' = [pc EXCEPT ![t] = "flush"]
    /\ UNCHANGED <<ev, todo, kind, batch, memVars, dbVars, subVars, histVars>>

\* Mutant: the batch is written from the buffer, which is not emptied.
TakeBatch_KeepsBuffer(t) ==
    LET k == FlushKind(t)
    IN  /\ pc[t] = "flush" /\ lock = None /\ buffer[k] # <<>>
        /\ lock' = t
        /\ batch' = [batch EXCEPT ![t] = buffer[k]]
        /\ pending' = pending \ {k}
        /\ pc' = [pc EXCEPT ![t] = "begin"]
        /\ UNCHANGED <<ev, todo, kind, buffer, dbVars, subVars, histVars>>

\* Mutant: the pending mark is dropped only when there is nothing to flush.
TakeBatch_KeepsPending(t) ==
    LET k == FlushKind(t)
    IN  /\ pc[t] = "flush" /\ lock = None /\ buffer[k] # <<>>
        /\ lock' = t
        /\ batch' = [batch EXCEPT ![t] = buffer[k]]
        /\ buffer' = [buffer EXCEPT ![k] = <<>>]
        /\ pc' = [pc EXCEPT ![t] = "begin"]
        /\ UNCHANGED <<ev, todo, kind, pending, dbVars, subVars, histVars>>

\* The buffer and the pending mark are cleared before the rows are written.
TakeBatch(t) ==
    LET k == FlushKind(t)
    IN  /\ pc[t] = "flush" /\ lock = None /\ buffer[k] # <<>>
        /\ lock' = t
        /\ batch' = [batch EXCEPT ![t] = buffer[k]]
        /\ buffer' = [buffer EXCEPT ![k] = <<>>]
        /\ pending' = pending \ {k}
        /\ pc' = [pc EXCEPT ![t] = "begin"]
        /\ UNCHANGED <<ev, todo, kind, dbVars, subVars, histVars>>

\* Somebody else flushed the kind meanwhile.
NothingToFlush(t) ==
    LET k == FlushKind(t)
    IN  /\ pc[t] = "flush" /\ lock = None /\ buffer[k] = <<>>
        /\ pending' = pending \ {k}
        /\ Continue(t, IF t \in Publishers THEN todo[t] ELSE {}, <<>>)
        /\ UNCHANGED <<lock, buffer, dbVars, histVars>>

\* Mutant: the coroutine resumes before its transaction is committed.
BeginWrite_NoCommit(t) ==
    /\ pc[t] \in {"begin", "orphanBegin"} /\ up /\ txn = None
    /\ txn' = t
    /\ stored' = stored \cup Elems(batch[t])
    /\ pc' = [pc EXCEPT ![t] = IF @ = "begin" THEN "written" ELSE "orphanCommit"]
    /\ UNCHANGED <<ev, todo, kind, batch, memVars, up, durable, maint, subVars,
                   histVars>>

\* BEGIN IMMEDIATE and executemany, in a thread.
BeginWrite(t) ==
    /\ pc[t] \in {"begin", "orphanBegin"} /\ up /\ txn = None
    /\ txn' = t
    /\ stored' = stored \cup Elems(batch[t])
    /\ pc' = [pc EXCEPT ![t] = IF @ = "begin" THEN "commit" ELSE "orphanCommit"]
    /\ UNCHANGED <<ev, todo, kind, batch, memVars, up, durable, maint, subVars,
                   histVars>>

\* Mutant: the transaction ends without COMMIT.
CommitWrite_Missing(t) ==
    /\ pc[t] \in {"commit", "orphanCommit"} /\ txn = t /\ up
    /\ txn' = None
    /\ \/ pc[t] = "commit" /\ pc' = [pc EXCEPT ![t] = "written"]
                           /\ UNCHANGED <<ev, todo, kind, batch>>
       \/ pc[t] = "orphanCommit" /\ Finish(t)
    /\ UNCHANGED <<memVars, up, stored, durable, maint, subVars, histVars>>

CommitWrite(t) ==
    /\ pc[t] \in {"commit", "orphanCommit"} /\ txn = t /\ up
    /\ txn' = None
    /\ durable' = stored
    /\ \/ pc[t] = "commit" /\ pc' = [pc EXCEPT ![t] = "written"]
                           /\ UNCHANGED <<ev, todo, kind, batch>>
       \/ pc[t] = "orphanCommit" /\ Finish(t)
    /\ UNCHANGED <<memVars, up, stored, maint, subVars, histVars>>

\* BEGIN raises inside another transaction or on a closed connection, or the
\* write fails and is rolled back, with whatever else joined the transaction.
\* The batch is gone: it left the buffer before the write.
WriteFails(t) ==
    /\ \/ /\ pc[t] \in {"begin", "orphanBegin"}
          /\ \/ (txn # None \/ ~up) /\ UNCHANGED used
             \/ txn = None /\ up /\ Spend("fail")
          /\ UNCHANGED <<txn, stored>>
       \/ /\ pc[t] \in {"commit", "orphanCommit"}
          /\ \/ ~up /\ UNCHANGED <<used, txn, stored>>
             \/ up /\ Spend("fail") /\ txn' = None /\ stored' = durable
    /\ lost' = lost \cup Elems(batch[t])
    /\ Finish(t) /\ Release(t)
    /\ UNCHANGED <<buffer, pending, up, durable, maint, subVars, said, risk,
                   gone>>

\* Back on the loop: the lock is released and the batch fanned out.
AfterWrite(t) ==
    /\ pc[t] = "written"
    /\ Release(t)
    /\ Continue(t, IF t \in Publishers THEN todo[t] ELSE {}, batch[t])
    /\ UNCHANGED <<buffer, pending, dbVars, histVars>>

-----------------------------------------------------------------------------
(* The surroundings: cancellation, maintenance, subscribers, close, crash *)

\* The publisher's turn is cancelled at its await.  The lock is released at
\* once; a write the pool has started goes on without its coroutine.
Cancel(p) ==
    /\ pc[p] \in Waiting \cup Holding
    /\ Spend("cancel")
    /\ Release(p)
    /\ \/ /\ pc[p] # "commit"
          /\ Finish(p)
          /\ lost' = lost \cup (CASE pc[p] = "begin" -> Elems(batch[p])
                                [] pc[p] = "chunk" -> {ev[p]}
                                [] OTHER -> {})
       \/ /\ pc[p] \in {"insert", "begin", "commit"}
          /\ pc' = [pc EXCEPT ![p] = CASE @ = "insert" -> "orphanInsert"
                                       [] @ = "begin"  -> "orphanBegin"
                                       [] @ = "commit" -> "orphanCommit"]
          /\ UNCHANGED <<ev, todo, kind, batch, lost>>
    /\ UNCHANGED <<buffer, pending, dbVars, subVars, said, risk, gone>>

\* prune_older_than, run by the retention task in a pool thread, and
\* delete_session: a transaction on the bus's connection, without the lock.
MaintBegin ==
    /\ maint = "idle" /\ up /\ txn = None
    /\ Spend("maint")
    /\ txn' = Maint /\ maint' = "begun"
    /\ UNCHANGED <<coVars, memVars, up, stored, durable, subVars, said, risk,
                   gone, lost>>

\* D: the rows an age or a session selects.
MaintDelete(D) ==
    /\ maint = "begun" /\ up
    /\ stored' = stored \ D /\ maint' = "deleted"
    /\ UNCHANGED <<coVars, memVars, up, txn, durable, subVars, histVars>>

MaintCommit ==
    /\ maint = "deleted" /\ up
    /\ durable' = stored /\ txn' = None /\ maint' = "idle"
    /\ gone' = gone \cup (durable \ stored)
    /\ UNCHANGED <<coVars, memVars, up, stored, subVars, said, risk, lost, used>>

MaintFails ==
    /\ maint # "idle" /\ up
    /\ Spend("fail")
    /\ stored' = durable /\ txn' = None /\ maint' = "idle"
    /\ UNCHANGED <<coVars, memVars, up, durable, subVars, said, risk, gone, lost>>

Subscribe(s) ==
    /\ s \notin active /\ active' = active \cup {s}
    /\ UNCHANGED <<coVars, memVars, dbVars, inbox, fanned, histVars>>

Unsubscribe(s) ==
    /\ s \in active /\ active' = active \ {s}
    /\ UNCHANGED <<coVars, memVars, dbVars, inbox, fanned, histVars>>

\* close: the flush timers are cancelled, the connection closed.
Close ==
    /\ up /\ Spend("close")
    /\ up' = FALSE /\ txn' = None /\ stored' = durable /\ maint' = "idle"
    /\ pc' = [t \in Tasks |-> IF t \in Chunks THEN "idle" ELSE pc[t]]
    /\ lost' = lost \cup UNION {Elems(batch[t]) \ durable : t \in Chunks}
    /\ batch' = [t \in Tasks |-> IF t \in Chunks THEN <<>> ELSE batch[t]]
    /\ lock' = IF lock \in Chunks THEN None ELSE lock
    /\ UNCHANGED <<ev, todo, kind, buffer, pending, durable, subVars, said, risk,
                   gone>>

\* The daemon dies and is started again on the same file.
Crash ==
    /\ Spend("crash")
    /\ pc' = [t \in Tasks |-> "idle"]
    /\ ev' = [p \in Publishers |-> None]
    /\ todo' = [p \in Publishers |-> {}]
    /\ kind' = [p \in Publishers |-> None]
    /\ batch' = [t \in Tasks |-> <<>>]
    /\ lock' = None /\ pending' = {}
    /\ buffer' = [k \in Kinds |-> <<>>]
    /\ up' = TRUE /\ txn' = None /\ maint' = "idle" /\ stored' = durable
    /\ active' = {}
    /\ lost' = lost \cup ((Buffered \cup InBatch \cup InHand) \ durable)
    /\ UNCHANGED <<durable, inbox, fanned, said, risk, gone>>

\* Every event has been published and every task has ended.
Quiet ==
    /\ Published = Events /\ \A t \in Tasks : pc[t] = "idle"
    /\ UNCHANGED vars

-----------------------------------------------------------------------------
TaskStep(t) ==
    \/ TimerFires(t) \/ TakeBatch(t) \/ NothingToFlush(t) \/ BeginWrite(t)
    \/ CommitWrite(t) \/ WriteFails(t) \/ AfterWrite(t)

PublisherStep(p) ==
    \/ AppendChunk(p) \/ StartInsert(p) \/ StartBulk(p)
    \/ Insert(p) \/ InsertFails(p) \/ AfterInsert(p)

Next ==
    \/ \E p \in Publishers, e \in Events : Publish(p, e)
    \/ \E p \in Publishers : \E q \in BulkLists : PublishMany(p, q)
    \/ \E p \in Publishers : PublisherStep(p) \/ Cancel(p)
    \/ \E t \in Tasks : TaskStep(t)
    \/ MaintBegin \/ MaintCommit \/ MaintFails
    \/ \E D \in SUBSET stored : MaintDelete(D)
    \/ \E s \in Subs : Subscribe(s) \/ Unsubscribe(s)
    \/ Close \/ Crash \/ Quiet

Spec == Init /\ [][Next]_vars

\* The event loop and the pool run every task that can run; asyncio.Lock is
\* FIFO, so no task waits for it for ever.  Nothing obliges a publisher to
\* publish, or a fault to happen.
Fairness ==
    /\ \A p \in Publishers : SF_vars(PublisherStep(p))
    /\ \A t \in Tasks : SF_vars(TaskStep(t))
    /\ WF_vars(MaintCommit) /\ WF_vars(\E D \in SUBSET stored : MaintDelete(D))

FairSpec == Spec /\ Fairness

-----------------------------------------------------------------------------
(* Properties *)

TypeOK ==
    /\ pc \in [Tasks -> {"idle", "asleep"} \cup Waiting \cup Holding \cup Orphan]
    /\ ev \in [Publishers -> Events \cup {None}]
    /\ todo \in [Publishers -> SUBSET Kinds]
    /\ kind \in [Publishers -> Kinds \cup {None}]
    /\ batch \in [Tasks -> Seq(Events)]
    /\ lock \in Tasks \cup {None}
    /\ buffer \in [Kinds -> Seq(Events)]
    /\ pending \subseteq Kinds
    /\ up \in BOOLEAN /\ txn \in Tasks \cup {None, Maint}
    /\ stored \subseteq Events /\ durable \subseteq Events
    /\ maint \in {"idle", "begun", "deleted"}
    /\ active \subseteq Subs /\ inbox \in [Subs -> Seq(Events)]
    /\ said \in [Publishers -> Seq(Events)]
    /\ fanned \subseteq Events /\ risk \subseteq Events
    /\ gone \subseteq Events /\ lost \subseteq Events
    /\ used \in [Faults -> Nat]

\* What the module docstring promises of subscribers (sqlite.py:3-5), with its
\* two exceptions: an event a handler was given survives a crash, unless it was
\* deleted by a maintenance that committed, or its row was inserted while a
\* transaction of somebody else was open on the connection.
SeenIsDurable ==
    \A s \in Subs : Seen(s) \subseteq durable \cup gone \cup risk

\* Only maintenance and cancelled writers leave a transaction open outside the
\* lock: without them the docstring holds as it stands.
RiskHasCause ==
    used["maint"] = 0 /\ used["cancel"] = 0 => risk = {}

\* An event taken from the buffer by one flush is not fanned out by another:
\* no handler is given an event twice.
HandledOnce ==
    \A s \in Subs : \A i, j \in DOMAIN inbox[s] :
        inbox[s][i] = inbox[s][j] => i = j

Before(q, a, b) ==
    \E i, j \in DOMAIN q : i < j /\ q[i] = a /\ q[j] = b

\* The fan-out ordering guard of publish (sqlite.py:339-350): what one
\* publisher sent through publish reaches a subscriber in the order it was
\* sent, the chunks before the response that ends them, whichever task flushed
\* them.  Two chunks of different kinds have separate timers and are not
\* ordered; publish_many has no guard.
Ordered(e, f) ==
    /\ KindOf[e] # Bulk /\ KindOf[f] # Bulk
    /\ KindOf[e] = KindOf[f] \/ KindOf[e] = Low \/ KindOf[f] = Low

PublisherOrder ==
    \A p \in Publishers, s \in Subs : \A i, j \in DOMAIN inbox[s] :
        /\ i < j /\ Ordered(inbox[s][i], inbox[s][j])
        /\ {inbox[s][i], inbox[s][j]} \subseteq Elems(said[p])
        => Before(said[p], inbox[s][i], inbox[s][j])

\* A buffered chunk is never forgotten: its kind is marked pending and a timer
\* that will flush that kind is alive, until close cancels the timers.
BufferedIsScheduled ==
    up /\ used["close"] = 0 =>
        \A k \in Kinds : buffer[k] # <<>> =>
            /\ k \in pending
            /\ \E t \in Chunks : KindOf[t] = k /\ pc[t] \in {"asleep", "flush"}

\* A chunk is held in one place: a buffered one is in no batch and not yet
\* written or fanned out, and no two tasks hold the same one.
OnePlace ==
    /\ Buffered \cap (InBatch \cup InHand \cup stored \cup fanned) = {}
    /\ \A t, u \in Tasks : t # u => Elems(batch[t]) \cap Elems(batch[u]) = {}

\* Every chunk given to publish is being handed over, buffered, being written,
\* stored, deleted by maintenance, or lost to a fault that did happen.
ChunkAccounted ==
    /\ Chunks \cap Published
         \subseteq InHand \cup Buffered \cup InBatch \cup durable \cup gone \cup lost
    /\ (\A f \in Faults : used[f] = 0) => lost = {}

\* A lock owner is the only task writing under the lock, and gives it back:
\* cancelled and failed writers included.
LockOwned ==
    \A t \in Tasks : pc[t] \in Holding <=> lock = t

\* What has been recorded: committed rows, committed deletions included, and
\* the rows that joined a foreign transaction.
Recorded == durable \cup gone \cup risk

\* The bus implements the promise of EventLog.
Log == INSTANCE EventLog WITH log <- Recorded
LogSpec == Log!Spec

\* Every chunk that entered the buffer reaches the store, or a fault took it:
\* the write-behind buffer drains without any further publish.
ChunkSettles ==
    \A e \in Chunks : e \in Buffered ~> (e \in durable \cup gone \cup lost \/ ~up)

\* Nobody waits for ever: each publish ends.
PublishEnds ==
    \A p \in Publishers : pc[p] # "idle" ~> pc[p] = "idle"

\* sqlite.py:3-4 as it stands: "Subscribers only see persisted events".
SubscribersSeeOnlyPersisted ==
    \A s \in Subs : Seen(s) \subseteq durable \cup gone
=============================================================================
